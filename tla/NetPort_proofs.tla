--------------------------- MODULE NetPort_proofs ---------------------------
(***************************************************************************)
(* Theorems about NetPort, for any number of queues, event queues and      *)
(* completion queue numbers, and whichever allocations fail.               *)
(***************************************************************************)
EXTENDS NetPort, PointerTheorems, TLAPS

-----------------------------------------------------------------------------
(* The inductive invariant. *)

Loop == {"start_cq", "start_napi", "start_ring"}
Starting == Loop \cup {"start_up", "start_enable", "start_link"}
Closing == {"stop_queue", "stop_ring", "stop_cq"}
Stopping == {"stop_timer", "stop_link", "stop_drain"} \cup Closing
Mtus == MTUS \cup {Min(MTUS), NoneIdx}

PrivType ==
  priv \in [running : BOOLEAN, rxq_count : 1..RXQ_MAX, txq_count : 1..TXQ_MAX,
            mtu : Mtus, indir : [0..RXQ_MAX-1 -> Nat]]

ThreadType ==
  thread \in [pc : {"idle"} \cup Starting \cup Stopping, i : Nat,
              then : {"open", "close", "restart", "resize", "done"}, r : Nat, t : Nat]

CqStates == [cqn : Cqns \cup {NoneIdx}, enabled : BOOLEAN, armed : BOOLEAN,
             handler : BOOLEAN, napi : {"none", "idle", "sched", "disabling", "off"},
             tail : BOOLEAN]
RingStates == [index : Nat \cup {NoneIdx}, enabled : BOOLEAN, mtu : Mtus]

QueueType == cq \in [Queues -> CqStates] /\ ring \in [Queues -> RingStates]

EventType ==
  /\ eq_open \subseteq EQs
  /\ cq_table \in [EQs -> [Cqns -> Queues \cup {NoQueue}]]
  /\ events \in [EQs -> SUBSET Cqns]
  /\ irq \in [EQs -> Queues \cup {NoQueue, Dangling}]

DeviceType ==
  /\ pending \subseteq Queues /\ inflight \subseteq Queues
  /\ hw \in [mtu : Mtus, indir : [0..RXQ_MAX-1 -> Nat \cup {NoneIdx}]]
  /\ port_up \in BOOLEAN /\ timer \in BOOLEAN /\ carrier \in BOOLEAN

NetType == PrivType /\ ThreadType /\ QueueType /\ EventType /\ DeviceType

\* The order of the loops over r receive and t transmit queues, and back.
At(r, i) == IF i < r THEN <<"rx", i>> ELSE <<"tx", i - r>>
Idx(r, q) == IF q[1] = "rx" THEN q[2] ELSE r + q[2]
Among(r, t, q) == q[2] < (IF q[1] = "rx" THEN r ELSE t)

Current == At(priv.rxq_count, thread.i)
Configured(q) == Among(priv.rxq_count, priv.txq_count, q)

\* The queue under construction or demolition: it has a completion queue and no ring.
Half(q) == thread.pc \in {"start_napi", "start_ring", "stop_cq"} /\ q = Current

\* The counts of a resize are in range, and the indirection table fits the
\* count of receive queues there will be when the port is next started.
NetCounts ==
  /\ thread.pc \in Loop \cup {"stop_cq"} => thread.i < priv.rxq_count + priv.txq_count
  /\ thread.pc = "idle" => thread.then = "done"
  /\ thread.pc \in Starting => thread.then \in {"open", "done"}
  /\ thread.pc \in Stopping => thread.then # "open"
  /\ thread.then = "resize" => thread.r \in 1..RXQ_MAX /\ thread.t \in 1..TXQ_MAX
  /\ \A k \in 0..RXQ_MAX-1 :
       priv.indir[k] < (IF thread.then = "resize" THEN thread.r ELSE priv.rxq_count)

\* Completion queues: a number belongs to one queue, and the tables of the
\* event queues hold the queues that have one.
NetCqs ==
  /\ \A q \in Queues : cq[q].cqn = NoneIdx => cq[q] = NoCq
  /\ \A q \in Queues : cq[q].cqn # NoneIdx => cq[q].enabled
  /\ \A p, q \in Queues : cq[p].cqn = cq[q].cqn /\ cq[p].cqn # NoneIdx => p = q
  /\ TableLive
  /\ \A q \in Queues : Open(q) => cq[q].enabled
  /\ \A q \in Queues : cq[q].enabled => Open(q) \/ Half(q)
  /\ \A q \in Queues : Half(q) => cq[q].enabled

\* Rings: what is open, and how far it is set up, in every phase.
NetRings ==
  /\ \A q \in Queues : ~Open(q) => ring[q] = NoRing
  /\ \A q \in Queues : Open(q) <=> cq[q].handler
  /\ \A q \in Queues : ~Open(q) => ~cq[q].tail /\ cq[q].napi \in {"none", "idle"}
  /\ \A q \in Queues : Open(q) => Configured(q)
  /\ thread.pc \in Loop =>
       \A q \in Queues : Open(q) <=> Configured(q) /\ Idx(priv.rxq_count, q) < thread.i
  /\ thread.pc \in Starting \ Loop \/ (thread.pc = "idle" /\ port_up) =>
       \A q \in Queues : Open(q) <=> Configured(q)
  /\ thread.pc = "idle" /\ ~port_up => \A q \in Queues : ~Open(q)
  /\ thread.pc = "stop_cq" => ~Open(Current)
  /\ thread.pc = "stop_ring" => \E q \in Queues : Open(q)

\* The port: when it is up, has timer and carrier, and when the device may work.
NetPhases ==
  /\ thread.pc \in Loop \cup {"start_up"} \cup Closing => ~port_up
  /\ thread.pc \in {"start_enable", "start_link"} => port_up
  /\ thread.pc = "idle" /\ port_up => priv.running
  /\ timer => port_up /\ thread.pc \in {"idle", "stop_timer"}
  /\ carrier => port_up /\ thread.pc \in {"idle", "stop_timer", "stop_link"}
  /\ thread.pc \in Loop \cup {"start_up", "start_enable", "stop_drain"} \cup Closing =>
       \A q \in Queues : ~ring[q].enabled
  /\ thread.pc \in Loop \cup {"start_up", "start_enable"} \cup Closing => inflight = {}
  /\ thread.pc = "idle" /\ ~port_up => inflight = {}
  /\ \A q \in Queues : q \in pending => cq[q].enabled
  /\ thread.pc \in Loop \cup {"start_up", "start_enable"} => pending = {}

\* What mqnic_start_port has set up stays so until the port is stopped.
NetConfig ==
  /\ thread.pc \in Starting \/ (thread.pc = "idle" /\ port_up) =>
       \A q \in Queues : Open(q) => ring[q].mtu = priv.mtu
  /\ thread.pc = "start_link" \/ (thread.pc = "idle" /\ port_up) =>
       \A q \in Queues : Open(q) => ring[q].enabled
  /\ thread.pc \in {"start_enable", "start_link"} \/ (thread.pc = "idle" /\ port_up) =>
       /\ hw.mtu = priv.mtu
       /\ \A k \in 0..RXQ_MAX-1 : hw.indir[k] = ring[<<"rx", priv.indir[k]>>].index

NetIInv == NetType /\ NetCounts /\ NetCqs /\ NetRings /\ NetPhases /\ NetConfig

\* Events: an armed queue holds no record, and until the port is stopped a
\* queue is armed or somebody is about to look at it.
Noticed(q) ==
  \/ cq[q].cqn \in events[EqOf(q)] \/ irq[EqOf(q)] = q
  \/ cq[q].napi = "sched" \/ cq[q].tail

NetArmed ==
  /\ eq_open = EQs
  /\ \A q \in Queues : cq[q].armed => q \notin pending /\ cq[q].enabled
  /\ thread.pc \in Starting \/ (thread.pc = "idle" /\ port_up) =>
       \A q \in Queues : Open(q) => /\ cq[q].napi \in {"idle", "sched"}
                                    /\ cq[q].armed \/ Noticed(q)
  /\ thread.pc = "start_ring" => /\ cq[Current].armed
                                 /\ cq[Current].napi = "idle"

-----------------------------------------------------------------------------
(* Queues, their numbers and their order. *)

\* A queue is a direction and a number; it has an event queue.
LEMMA QueueFacts ==
    /\ EQ_COUNT \in Nat \ {0} /\ RXQ_MAX \in Nat \ {0} /\ TXQ_MAX \in Nat \ {0}
    /\ \A q \in Queues :
         /\ EqOf(q) \in EQs /\ q # NoQueue /\ q # Dangling
         /\ q = <<q[1], q[2]>> /\ q[1] \in {"rx", "tx"} /\ q[2] \in Nat
         /\ q[1] = "rx" => q[2] < RXQ_MAX
         /\ q[1] = "tx" => q[2] < TXQ_MAX
    /\ \A k \in Nat : k < RXQ_MAX => <<"rx", k>> \in Queues
    /\ \A k \in Nat : k < TXQ_MAX => <<"tx", k>> \in Queues
    /\ NoneIdx \notin Nat /\ NoneIdx \in Int /\ Cqns \subseteq Nat
<1>1. EQ_COUNT \in Nat \ {0} /\ RXQ_MAX \in Nat \ {0} /\ TXQ_MAX \in Nat \ {0}
  BY NetPortAssumption
<1>2. \A q \in Queues : /\ q = <<q[1], q[2]>> /\ q[1] \in {"rx", "tx"} /\ q[2] \in Nat
                        /\ q[1] = "rx" => q[2] < RXQ_MAX
                        /\ q[1] = "tx" => q[2] < TXQ_MAX
  BY <1>1 DEF Queues, RxQ, TxQ
<1>3. \A q \in Queues : EqOf(q) \in EQs
  BY <1>1, <1>2, Remainder DEF EqOf, EQs
<1>4. \A q \in Queues : q # NoQueue /\ q # Dangling
  BY DEF Queues, RxQ, TxQ, NoQueue, Dangling
<1>5. /\ \A k \in Nat : k < RXQ_MAX => <<"rx", k>> \in Queues
      /\ \A k \in Nat : k < TXQ_MAX => <<"tx", k>> \in Queues
  BY <1>1 DEF Queues, RxQ, TxQ
<1> QED BY <1>1, <1>2, <1>3, <1>4, <1>5, NetPortAssumption DEF NoneIdx, Cqns

\* The loops of mqnic_start_port visit every configured queue, each once.
LEMMA LoopFacts ==
    ASSUME NEW r \in 1..RXQ_MAX, NEW t \in 1..TXQ_MAX
    PROVE  /\ \A i \in Nat : i < r + t =>
                At(r, i) \in Queues /\ Among(r, t, At(r, i)) /\ Idx(r, At(r, i)) = i
           /\ \A q \in Queues : Among(r, t, q) =>
                Idx(r, q) \in Nat /\ Idx(r, q) < r + t /\ At(r, Idx(r, q)) = q
           /\ r + t \in Nat \ {0}
<1>1. /\ r \in Nat \ {0} /\ t \in Nat \ {0} /\ r <= RXQ_MAX /\ t <= TXQ_MAX
  BY QueueFacts
<1>2. ASSUME NEW i \in Nat, i < r + t
      PROVE  At(r, i) \in Queues /\ Among(r, t, At(r, i)) /\ Idx(r, At(r, i)) = i
  <2>1. CASE i < r
    <3>1. At(r, i) = <<"rx", i>>
      BY <2>1 DEF At
    <3>2. <<"rx", i>> \in Queues
      BY <1>1, <2>1, QueueFacts
    <3> QED BY <2>1, <3>1, <3>2 DEF Among, Idx
  <2>2. CASE ~(i < r)
    <3>1. At(r, i) = <<"tx", i - r>> /\ i - r \in Nat /\ i - r < t
      BY <1>1, <1>2, <2>2 DEF At
    <3>2. <<"tx", i - r>> \in Queues
      BY <1>1, <3>1, QueueFacts
    <3> QED BY <1>1, <3>1, <3>2 DEF Among, Idx
  <2> QED BY <2>1, <2>2
<1>3. ASSUME NEW q \in Queues, Among(r, t, q)
      PROVE  Idx(r, q) \in Nat /\ Idx(r, q) < r + t /\ At(r, Idx(r, q)) = q
  BY <1>1, <1>3, QueueFacts DEF Among, Idx, At
<1> QED BY <1>1, <1>2, <1>3

\* The queue a step of the loops works on.
LEMMA CurrentIs == QueueAt(thread.i) = Current
BY DEF QueueAt, Current, At

\* mqnic_res_alloc returns a number nobody has, or none.
LEMMA AllocFacts ==
    ASSUME NEW used, NEW count \in Nat, ResAlloc(used, count) # NoneIdx
    PROVE  ResAlloc(used, count) \in 0..count-1 /\ ResAlloc(used, count) \notin used
<1> DEFINE free == (0..count-1) \ used
<1>1. free # {} /\ ResAlloc(used, count) = Min(free)
  BY DEF ResAlloc
<1>2. free \in SUBSET Nat
  OBVIOUS
<1>3. PICK x \in free : \A y \in free : x <= y
  BY <1>1, <1>2, LeastExists
<1>4. Min(free) \in free
  BY <1>3 DEF Min
<1> QED BY <1>1, <1>4

\* The loops of mqnic_stop_port find a queue as long as one is open.
LEMMA StopNextFacts ==
    ASSUME \E q \in Queues : Open(q)
    PROVE  StopNext \in Queues /\ Open(StopNext)
<1> DEFINE O == {p \in Queues : Open(p)}
           Tx == {q[2] : q \in {p \in O : p[1] = "tx"}}
           Rx == {q[2] : q \in {p \in O : p[1] = "rx"}}
           First(q) == \A p \in O : \/ q[1] = "tx" /\ p[1] = "rx"
                                    \/ q[1] = p[1] /\ q[2] <= p[2]
<1>1. Tx \in SUBSET Nat /\ Rx \in SUBSET Nat
  BY QueueFacts
<1>2. ASSUME Tx # {} PROVE \E q \in O : First(q)
  <2>1. PICK x \in Tx : \A y \in Tx : x <= y
    BY <1>1, <1>2, LeastExists
  <2>2. PICK q \in O : q[1] = "tx" /\ q[2] = x
    BY <2>1
  <2>3. First(q)
    BY <2>1, <2>2, QueueFacts
  <2> QED BY <2>2, <2>3
<1>3. ASSUME Tx = {} PROVE \E q \in O : First(q)
  <2>1. \A q \in O : q[1] = "rx"
    BY <1>3, QueueFacts
  <2>2. Rx # {}
    BY <2>1
  <2>3. PICK x \in Rx : \A y \in Rx : x <= y
    BY <1>1, <2>2, LeastExists
  <2>4. PICK q \in O : q[1] = "rx" /\ q[2] = x
    BY <2>3
  <2>5. First(q)
    BY <2>1, <2>3, <2>4
  <2> QED BY <2>4, <2>5
<1>4. \E q \in O : First(q)
  BY <1>2, <1>3
<1>5. StopNext = CHOOSE q \in O : First(q)
  BY DEF StopNext
<1> QED BY <1>4, <1>5

-----------------------------------------------------------------------------
(* Interrupts, polls, timer and device. *)

\* A poll: its queue is open, and stays so.
LEMMA PollStep ==
    ASSUME NetIInv, NEW q \in Queues, Poll(q)
    PROVE  NetIInv'
<1> USE DEF NetIInv
<1>1. /\ cq' = [cq EXCEPT ![q].napi = IF @ = "sched" THEN "idle" ELSE "off",
                          ![q].tail = TRUE]
      /\ cq[q].napi \in {"sched", "disabling"} /\ pending' \subseteq pending
      /\ UNCHANGED <<priv, port_up, thread, ring, eq_open, cq_table, events, irq,
                     inflight, hw, timer, carrier>>
  BY DEF Poll
<1>2. cq \in [Queues -> CqStates] /\ cq[q] \in CqStates
  BY DEF NetType, QueueType
<1>3. /\ cq' \in [Queues -> CqStates]
      /\ \A p \in Queues : p # q => cq'[p] = cq[p]
      /\ cq'[q].cqn = cq[q].cqn /\ cq'[q].enabled = cq[q].enabled
      /\ cq'[q].handler = cq[q].handler
  BY <1>1, <1>2 DEF CqStates
<1>4. Open(q) /\ cq[q].cqn # NoneIdx
  BY <1>1 DEF NetRings, NetCqs, NoCq
<1>5. NetType'
  BY <1>1, <1>3 DEF NetType, PrivType, ThreadType, QueueType, EventType, DeviceType
<1>6. NetCqs'
  BY <1>1, <1>3, <1>4 DEF NetCqs, TableLive, Open, Half, Current
<1>7. NetRings'
  BY <1>1, <1>3, <1>4 DEF NetRings, Open, Configured, Current
<1>8. NetPhases'
  BY <1>1, <1>3 DEF NetPhases
<1> QED BY <1>1, <1>5, <1>6, <1>7, <1>8 DEF NetCounts, NetConfig, Open

\* Arming a queue that has a number keeps the types of its state and its events.
LEMMA ArmFacts ==
    ASSUME NetType, NEW q \in Queues, NEW c \in CqStates, ArmCq(q, c),
           cq[q].cqn # NoneIdx
    PROVE  /\ cq' \in [Queues -> CqStates] /\ events' \in [EQs -> SUBSET Cqns]
           /\ \A p \in Queues : p # q => cq'[p] = cq[p]
           /\ cq'[q].cqn = c.cqn /\ cq'[q].enabled = c.enabled
           /\ cq'[q].handler = c.handler /\ cq'[q].tail = c.tail /\ cq'[q].napi = c.napi
           /\ cq'[q].armed <=> c.enabled /\ q \notin pending
<1>1. /\ cq' = [cq EXCEPT ![q] = [c EXCEPT !.armed = c.enabled /\ q \notin pending]]
      /\ events' = IF c.enabled /\ q \in pending THEN Post(q) ELSE events
  BY DEF ArmCq
<1>2. /\ cq \in [Queues -> CqStates] /\ cq[q].cqn \in Cqns
      /\ events \in [EQs -> SUBSET Cqns]
  BY DEF NetType, QueueType, EventType, CqStates
<1> DEFINE c1 == [c EXCEPT !.armed = c.enabled /\ q \notin pending]
<1>3. /\ c1 \in CqStates /\ c1.cqn = c.cqn /\ c1.enabled = c.enabled
      /\ c1.handler = c.handler /\ c1.tail = c.tail /\ c1.napi = c.napi
      /\ c1.armed <=> c.enabled /\ q \notin pending
  BY DEF CqStates
<1>4. cq' = [cq EXCEPT ![q] = c1]
  BY <1>1
<1> HIDE DEF c1
<1>5. Post(q) \in [EQs -> SUBSET Cqns]
  BY <1>2, QueueFacts DEF Post
<1> QED BY <1>1, <1>2, <1>3, <1>4, <1>5

\* The end of a poll function: its queue is still open.
LEMMA PollArmStep ==
    ASSUME NetIInv, NEW q \in Queues, PollArm(q)
    PROVE  NetIInv'
<1> USE DEF NetIInv
<1> DEFINE c == [cq[q] EXCEPT !.tail = FALSE]
<1>1. /\ ArmCq(q, c) /\ cq[q].tail
      /\ UNCHANGED <<priv, port_up, thread, ring, eq_open, cq_table, irq, pending,
                     inflight, hw, timer, carrier>>
  BY DEF PollArm
<1>2. Open(q) /\ cq[q].cqn # NoneIdx
  BY <1>1 DEF NetRings, NetCqs, NoCq
<1>3. /\ cq[q] \in CqStates /\ c \in CqStates /\ c.cqn = cq[q].cqn
      /\ c.enabled = cq[q].enabled /\ c.handler = cq[q].handler
  BY DEF NetType, QueueType, CqStates
<1> HIDE DEF c
<1>4. /\ cq' \in [Queues -> CqStates] /\ events' \in [EQs -> SUBSET Cqns]
      /\ \A p \in Queues : p # q => cq'[p] = cq[p]
      /\ cq'[q].cqn = cq[q].cqn /\ cq'[q].enabled = cq[q].enabled
      /\ cq'[q].handler = cq[q].handler
  BY <1>1, <1>2, <1>3, ArmFacts
<1>5. NetType'
  BY <1>1, <1>4 DEF NetType, PrivType, ThreadType, QueueType, EventType, DeviceType
<1>6. NetCqs'
  BY <1>1, <1>2, <1>4 DEF NetCqs, TableLive, Open, Half, Current
<1>7. NetRings'
  BY <1>1, <1>2, <1>4 DEF NetRings, Open, Configured, Current
<1>8. NetPhases'
  BY <1>1, <1>4 DEF NetPhases
<1> QED BY <1>1, <1>5, <1>6, <1>7, <1>8 DEF NetCounts, NetConfig, Open

\* A completion: only queues the device works on get records, and these are open.
LEMMA DeviceCompleteStep ==
    ASSUME NetIInv, NEW q \in Queues, DeviceComplete(q)
    PROVE  NetIInv'
<1> USE DEF NetIInv
<1>1. /\ q \in inflight /\ inflight' = inflight \ {q}
      /\ pending' = IF cq[q].enabled THEN pending \cup {q} ELSE pending
      /\ events' = IF cq[q].armed THEN Post(q) ELSE events
      /\ cq' = [cq EXCEPT ![q].armed = FALSE]
      /\ UNCHANGED <<priv, port_up, thread, ring, eq_open, cq_table, irq, hw, timer,
                     carrier>>
  BY DEF DeviceComplete
<1>2. /\ cq \in [Queues -> CqStates] /\ cq[q] \in CqStates
      /\ events \in [EQs -> SUBSET Cqns]
  BY DEF NetType, QueueType, EventType
<1>3. /\ cq' \in [Queues -> CqStates]
      /\ \A p \in Queues : p # q => cq'[p] = cq[p]
      /\ cq'[q].cqn = cq[q].cqn /\ cq'[q].enabled = cq[q].enabled
      /\ cq'[q].handler = cq[q].handler /\ cq'[q].tail = cq[q].tail
      /\ cq'[q].napi = cq[q].napi
      /\ ~cq[q].armed => cq'[q] = cq[q]
  BY <1>1, <1>2 DEF CqStates
<1>4. cq[q].armed => cq[q].cqn \in Cqns /\ cq[q].cqn # NoneIdx
  BY <1>2, QueueFacts DEF NetCqs, NoCq, CqStates
<1>5. events' \in [EQs -> SUBSET Cqns]
  BY <1>1, <1>2, <1>4, QueueFacts DEF Post
<1>6. NetType'
  BY <1>1, <1>3, <1>5 DEF NetType, PrivType, ThreadType, QueueType, EventType, DeviceType
<1>7. NetCqs'
  BY <1>1, <1>3, <1>4 DEF NetCqs, TableLive, Open, Half, Current
<1>8. NetRings'
  BY <1>1, <1>3 DEF NetRings, Open, Configured, Current
<1>9. NetPhases'
  BY <1>1, <1>3 DEF NetPhases
<1> QED BY <1>1, <1>6, <1>7, <1>8, <1>9 DEF NetCounts, NetConfig, Open

\* The device starts only on enabled rings.
LEMMA DeviceStartStep ==
    ASSUME NetIInv, NEW q \in Queues, DeviceStart(q)
    PROVE  NetIInv'
<1> USE DEF NetIInv
<1>1. /\ ring[q].enabled /\ inflight' = inflight \cup {q}
      /\ UNCHANGED <<priv, port_up, thread, cq, ring, eq_open, cq_table, events, irq,
                     pending, hw, timer, carrier>>
  BY DEF DeviceStart
<1>2. NetType'
  BY <1>1 DEF NetType, PrivType, ThreadType, QueueType, EventType, DeviceType
<1>3. NetPhases'
  BY <1>1 DEF NetPhases, NetRings, NoRing
<1> QED BY <1>1, <1>2, <1>3 DEF NetCounts, NetCqs, NetRings, NetConfig, TableLive, Open,
                                Half, Current, Configured

\* The link timer runs only on a port that is up.
LEMMA LinkTimeoutStep ==
    ASSUME NetIInv, NEW up \in BOOLEAN, LinkTimeout(up)
    PROVE  NetIInv'
<1> USE DEF NetIInv
<1>1. /\ timer /\ carrier' = up
      /\ UNCHANGED <<priv, port_up, thread, cq, ring, eq_open, cq_table, events, irq,
                     pending, inflight, hw, timer>>
  BY DEF LinkTimeout
<1>2. NetType'
  BY <1>1 DEF NetType, PrivType, ThreadType, QueueType, EventType, DeviceType
<1>3. NetPhases'
  BY <1>1 DEF NetPhases
<1> QED BY <1>1, <1>2, <1>3 DEF NetCounts, NetCqs, NetRings, NetConfig, TableLive, Open,
                                Half, Current, Configured

\* The handler takes an event and looks its source up.
LEMMA IrqLookupStep ==
    ASSUME NetIInv, NEW e \in EQs, IrqLookup(e)
    PROVE  NetIInv'
<1> USE DEF NetIInv
<1>1. PICK n \in events[e] : /\ events' = [events EXCEPT ![e] = @ \ {n}]
                             /\ irq' = [irq EXCEPT ![e] = cq_table[e][n]]
  BY DEF IrqLookup
<1>2. UNCHANGED <<priv, port_up, thread, cq, ring, eq_open, cq_table, pending,
                  inflight, hw, timer, carrier>>
  BY DEF IrqLookup
<1>3. EventType'
  BY <1>1, <1>2 DEF NetType, EventType
<1>4. NetType'
  BY <1>2, <1>3 DEF NetType, PrivType, ThreadType, QueueType, DeviceType
<1> QED BY <1>2, <1>4 DEF NetCounts, NetCqs, NetRings, NetPhases, NetConfig, TableLive,
                          Open, Half, Current, Configured

\* The handler schedules only a queue whose handler is installed.
LEMMA IrqHandleStep ==
    ASSUME NetIInv, NEW e \in EQs, IrqHandle(e)
    PROVE  NetIInv'
<1> USE DEF NetIInv
<1>1. /\ irq' = [irq EXCEPT ![e] = NoQueue]
      /\ irq[e] # NoQueue
      /\ cq' = IF irq[e] # Dangling /\ cq[irq[e]].handler /\ cq[irq[e]].napi = "idle"
               THEN [cq EXCEPT ![irq[e]].napi = "sched"] ELSE cq
      /\ UNCHANGED <<priv, port_up, thread, ring, eq_open, cq_table, events, pending,
                     inflight, hw, timer, carrier>>
  BY DEF IrqHandle
<1>2. EventType'
  BY <1>1 DEF NetType, EventType
<1>3. CASE cq' = cq
  <2>1. NetType'
    BY <1>1, <1>2, <1>3 DEF NetType, PrivType, ThreadType, QueueType, DeviceType
  <2> QED BY <1>1, <1>3, <2>1 DEF NetCounts, NetCqs, NetRings, NetPhases, NetConfig,
                                  TableLive, Open, Half, Current, Configured
<1>4. CASE cq' # cq
  <2> DEFINE q == irq[e]
  <2>1. /\ q \in Queues /\ cq[q].handler /\ cq' = [cq EXCEPT ![q].napi = "sched"]
    BY <1>1, <1>4 DEF NetType, EventType
  <2>2. cq \in [Queues -> CqStates] /\ cq[q] \in CqStates
    BY <2>1 DEF NetType, QueueType
  <2> HIDE DEF q
  <2>3. /\ cq' \in [Queues -> CqStates]
        /\ \A p \in Queues : p # q => cq'[p] = cq[p]
        /\ cq'[q].cqn = cq[q].cqn /\ cq'[q].enabled = cq[q].enabled
        /\ cq'[q].handler = cq[q].handler /\ cq'[q].tail = cq[q].tail
    BY <2>1, <2>2 DEF CqStates
  <2>4. Open(q) /\ cq[q].cqn # NoneIdx
    BY <2>1 DEF NetRings, NetCqs, NoCq
  <2>5. NetType'
    BY <1>1, <1>2, <2>3 DEF NetType, PrivType, ThreadType, QueueType, DeviceType
  <2>6. NetCqs'
    BY <1>1, <2>1, <2>3, <2>4 DEF NetCqs, TableLive, Open, Half, Current
  <2>7. NetRings'
    BY <1>1, <2>1, <2>3, <2>4 DEF NetRings, Open, Configured, Current
  <2>8. NetPhases'
    BY <1>1, <2>1, <2>3 DEF NetPhases
  <2> QED BY <1>1, <2>5, <2>6, <2>7, <2>8 DEF NetCounts, NetConfig, Open
<1> QED BY <1>3, <1>4

-----------------------------------------------------------------------------
(* mqnic_stop_port. *)

\* The names of the phases are those of the steps.
LEMMA PhaseFacts ==
    /\ Loop = {"start_cq", "start_napi", "start_ring"}
    /\ Starting = {"start_cq", "start_napi", "start_ring", "start_up", "start_enable",
                   "start_link"}
    /\ Closing = {"stop_queue", "stop_ring", "stop_cq"}
    /\ Stopping = {"stop_timer", "stop_link", "stop_drain", "stop_queue", "stop_ring",
                   "stop_cq"}
BY DEF Loop, Starting, Closing, Stopping

\* del_timer_sync: nothing but the timer changes.
LEMMA StopTimerStep ==
    ASSUME NetIInv, StopTimer
    PROVE  NetIInv'
<1> USE PhaseFacts DEF NetIInv
<1>1. /\ thread.pc = "stop_timer" /\ timer' = FALSE
      /\ thread' = [thread EXCEPT !.pc = "stop_link"]
      /\ UNCHANGED <<priv, port_up, cq, ring, eq_open, cq_table, events, irq, pending,
                     inflight, hw, carrier>>
  BY DEF StopTimer, Goto
<1>2. NetType'
  BY <1>1 DEF NetType, PrivType, ThreadType, QueueType, EventType, DeviceType
<1>3. /\ thread'.pc = "stop_link" /\ thread'.i = thread.i /\ thread'.then = thread.then
      /\ thread'.r = thread.r /\ thread'.t = thread.t
  BY <1>1 DEF NetType, ThreadType
<1>4. NetCounts'
  BY <1>1, <1>3 DEF NetCounts
<1>5. NetCqs'
  BY <1>1, <1>3 DEF NetCqs, TableLive, Open, Half, Current
<1>6. NetRings'
  BY <1>1, <1>3 DEF NetRings, Open, Configured, Current
<1>7. NetPhases'
  BY <1>1, <1>3 DEF NetPhases
<1>8. NetConfig'
  BY <1>1, <1>3 DEF NetConfig, Open
<1> QED BY <1>2, <1>4, <1>5, <1>6, <1>7, <1>8

\* Every ring is disabled.
LEMMA StopLinkStep ==
    ASSUME NetIInv, StopLink
    PROVE  NetIInv'
<1> USE PhaseFacts DEF NetIInv
<1>1. /\ thread.pc = "stop_link" /\ carrier' = FALSE
      /\ thread' = [thread EXCEPT !.pc = "stop_drain"]
      /\ ring' = [q \in Queues |-> [ring[q] EXCEPT !.enabled = FALSE]]
      /\ UNCHANGED <<priv, port_up, cq, eq_open, cq_table, events, irq, pending, inflight,
                     hw, timer>>
  BY DEF StopLink, Goto
<1>2. ring \in [Queues -> RingStates]
  BY DEF NetType, QueueType
<1>3. /\ ring' \in [Queues -> RingStates]
      /\ \A q \in Queues : ring'[q].index = ring[q].index /\ ~ring'[q].enabled
      /\ \A q \in Queues : ring[q] = NoRing => ring'[q] = NoRing
  <2> SUFFICES ASSUME NEW q \in Queues
               PROVE  /\ ring'[q] \in RingStates
                      /\ ring'[q].index = ring[q].index /\ ~ring'[q].enabled
                      /\ ring[q] = NoRing => ring'[q] = NoRing
    BY <1>1
  <2>1. ring[q] \in RingStates /\ ring'[q] = [ring[q] EXCEPT !.enabled = FALSE]
    BY <1>1, <1>2
  <2>2. /\ ring'[q] \in RingStates /\ ring'[q].index = ring[q].index
        /\ ~ring'[q].enabled
        /\ ring'[q] = [index |-> ring[q].index, enabled |-> FALSE, mtu |-> ring[q].mtu]
    BY <2>1 DEF RingStates
  <2>3. ring[q] = NoRing => ring'[q] = NoRing
    BY <2>2 DEF NoRing
  <2> QED BY <2>2, <2>3
<1>4. NetType'
  BY <1>1, <1>3 DEF NetType, PrivType, ThreadType, QueueType, EventType, DeviceType
<1>5. /\ thread'.pc = "stop_drain" /\ thread'.i = thread.i /\ thread'.then = thread.then
      /\ thread'.r = thread.r /\ thread'.t = thread.t
  BY <1>1 DEF NetType, ThreadType
<1>6. NetCounts'
  BY <1>1, <1>5 DEF NetCounts
<1>7. NetCqs'
  <2>1. \A q \in Queues : (Open(q)' <=> Open(q)) /\ ~Half(q) /\ ~Half(q)'
    BY <1>1, <1>3, <1>5 DEF Open, Half
  <2> QED BY <1>1, <2>1 DEF NetCqs, TableLive
<1>8. NetRings'
  <2>1. \A q \in Queues : Open(q)' <=> Open(q)
    BY <1>3 DEF Open
  <2> QED BY <1>1, <1>3, <1>5, <2>1 DEF NetRings, Configured
<1>9. NetPhases'
  BY <1>1, <1>3, <1>5 DEF NetPhases
<1>10. NetConfig'
  BY <1>1, <1>5 DEF NetConfig
<1> QED BY <1>4, <1>6, <1>7, <1>8, <1>9, <1>10

\* The device has finished; the port is down.
LEMMA StopDrainStep ==
    ASSUME NetIInv, StopDrain
    PROVE  NetIInv'
<1> USE PhaseFacts DEF NetIInv
<1>1. /\ thread.pc = "stop_drain" /\ inflight = {} /\ port_up' = FALSE
      /\ thread' = [thread EXCEPT !.pc = "stop_queue"]
      /\ UNCHANGED <<priv, cq, ring, eq_open, cq_table, events, irq, pending, inflight,
                     hw, timer, carrier>>
  BY DEF StopDrain, Goto
<1>2. NetType'
  BY <1>1 DEF NetType, PrivType, ThreadType, QueueType, EventType, DeviceType
<1>3. /\ thread'.pc = "stop_queue" /\ thread'.i = thread.i /\ thread'.then = thread.then
      /\ thread'.r = thread.r /\ thread'.t = thread.t
  BY <1>1 DEF NetType, ThreadType
<1>4. NetCounts'
  BY <1>1, <1>3 DEF NetCounts
<1>5. NetCqs'
  BY <1>1, <1>3 DEF NetCqs, TableLive, Open, Half, Current
<1>6. NetRings'
  BY <1>1, <1>3 DEF NetRings, Open, Configured, Current
<1>7. NetPhases'
  BY <1>1, <1>3 DEF NetPhases
<1>8. NetConfig'
  BY <1>1, <1>3 DEF NetConfig, Open
<1> QED BY <1>2, <1>4, <1>5, <1>6, <1>7, <1>8

\* napi_disable, on an open queue.
LEMMA StopNapiStep ==
    ASSUME NetIInv, StopNapi
    PROVE  NetIInv'
<1> USE PhaseFacts DEF NetIInv
<1> DEFINE q == StopNext
<1>1. /\ thread.pc = "stop_queue" /\ \E p \in Queues : Open(p)
      /\ \/ /\ cq' = [cq EXCEPT ![q].napi = IF @ = "idle" THEN "off" ELSE "disabling"]
            /\ UNCHANGED thread
         \/ /\ thread' = [thread EXCEPT !.pc = "stop_ring"]
            /\ UNCHANGED cq
      /\ UNCHANGED <<priv, port_up, ring, eq_open, cq_table, events, irq, pending,
                     inflight, hw, timer, carrier>>
  BY DEF StopNapi, Goto
<1>2. q \in Queues /\ Open(q)
  BY <1>1, StopNextFacts
<1> HIDE DEF q
<1>3. CASE /\ cq' = [cq EXCEPT ![q].napi = IF @ = "idle" THEN "off" ELSE "disabling"]
           /\ UNCHANGED thread
  <2>1. cq \in [Queues -> CqStates] /\ cq[q] \in CqStates
    BY <1>2 DEF NetType, QueueType
  <2>2. /\ cq' \in [Queues -> CqStates]
        /\ \A p \in Queues : p # q => cq'[p] = cq[p]
        /\ cq'[q].cqn = cq[q].cqn /\ cq'[q].enabled = cq[q].enabled
        /\ cq'[q].handler = cq[q].handler
    BY <1>2, <1>3, <2>1 DEF CqStates
  <2>3. cq[q].cqn # NoneIdx
    BY <1>2 DEF NetCqs, NoCq
  <2>4. NetType'
    BY <1>1, <1>3, <2>2 DEF NetType, PrivType, ThreadType, QueueType, EventType, DeviceType
  <2>5. NetCqs'
    BY <1>1, <1>2, <1>3, <2>2, <2>3 DEF NetCqs, TableLive, Open, Half, Current
  <2>6. NetRings'
    BY <1>1, <1>2, <1>3, <2>2 DEF NetRings, Open, Configured, Current
  <2>7. NetPhases'
    BY <1>1, <1>2, <1>3, <2>2 DEF NetPhases
  <2> QED BY <1>1, <1>3, <2>4, <2>5, <2>6, <2>7 DEF NetCounts, NetConfig, Open
<1>4. CASE /\ thread' = [thread EXCEPT !.pc = "stop_ring"]
           /\ UNCHANGED cq
  <2>1. NetType'
    BY <1>1, <1>4 DEF NetType, PrivType, ThreadType, QueueType, EventType, DeviceType
  <2>2. /\ thread'.pc = "stop_ring" /\ thread'.i = thread.i /\ thread'.then = thread.then
        /\ thread'.r = thread.r /\ thread'.t = thread.t
    BY <1>4 DEF NetType, ThreadType
  <2>3. NetCounts'
    BY <1>1, <2>2 DEF NetCounts
  <2>4. NetCqs'
    BY <1>1, <1>4, <2>2 DEF NetCqs, TableLive, Open, Half, Current
  <2>5. NetRings'
    BY <1>1, <1>2, <1>4, <2>2 DEF NetRings, Open, Configured, Current
  <2>6. NetPhases'
    BY <1>1, <1>4, <2>2 DEF NetPhases
  <2>7. NetConfig'
    BY <1>1, <2>2 DEF NetConfig, Open
  <2> QED BY <2>1, <2>3, <2>4, <2>5, <2>6, <2>7
<1> QED BY <1>1, <1>3, <1>4 DEF q

\* The ring is closed once no poll function runs; its completion queue is left.
LEMMA StopRingStep ==
    ASSUME NetIInv, StopRing
    PROVE  NetIInv'
<1> USE PhaseFacts DEF NetIInv
<1> DEFINE q == StopNext
<1>1. /\ thread.pc = "stop_ring" /\ ~cq[q].tail
      /\ ring' = [ring EXCEPT ![q] = NoRing]
      /\ cq' = [cq EXCEPT ![q].napi = "none", ![q].handler = FALSE]
      /\ thread' = [thread EXCEPT !.pc = "stop_cq",
                                  !.i = IF q[1] = "rx" THEN q[2] ELSE priv.rxq_count + q[2]]
      /\ UNCHANGED <<priv, port_up, eq_open, cq_table, events, irq, pending, inflight,
                     hw, timer, carrier>>
  BY DEF StopRing, NapiGone
<1>2. q \in Queues /\ Open(q)
  BY <1>1, StopNextFacts DEF NetRings
<1> HIDE DEF q
<1>3. /\ cq \in [Queues -> CqStates] /\ cq[q] \in CqStates
      /\ ring \in [Queues -> RingStates]
      /\ priv.rxq_count \in 1..RXQ_MAX /\ priv.txq_count \in 1..TXQ_MAX
  BY <1>2 DEF NetType, QueueType, PrivType
<1>4. /\ cq' \in [Queues -> CqStates]
      /\ \A p \in Queues : p # q => cq'[p] = cq[p]
      /\ cq'[q].cqn = cq[q].cqn /\ cq'[q].enabled = cq[q].enabled
      /\ ~cq'[q].handler /\ ~cq'[q].tail /\ cq'[q].napi = "none"
  BY <1>1, <1>2, <1>3 DEF CqStates
<1>5. /\ ring' \in [Queues -> RingStates]
      /\ \A p \in Queues : p # q => ring'[p] = ring[p]
      /\ ring'[q] = NoRing /\ ring'[q].index = NoneIdx /\ ~ring'[q].enabled
  BY <1>1, <1>2, <1>3 DEF RingStates, NoRing, Mtus
<1>6. cq[q].cqn # NoneIdx /\ cq[q].enabled
  BY <1>2 DEF NetCqs, NoCq
<1>7. /\ Idx(priv.rxq_count, q) \in Nat
      /\ Idx(priv.rxq_count, q) < priv.rxq_count + priv.txq_count
      /\ At(priv.rxq_count, Idx(priv.rxq_count, q)) = q
  BY <1>2, <1>3, LoopFacts DEF NetRings, Configured
<1>8. /\ thread' = [thread EXCEPT !.pc = "stop_cq", !.i = Idx(priv.rxq_count, q)]
  BY <1>1 DEF Idx
<1>9. /\ thread'.pc = "stop_cq" /\ thread'.i = Idx(priv.rxq_count, q)
      /\ thread'.then = thread.then /\ thread'.r = thread.r /\ thread'.t = thread.t
  BY <1>8 DEF NetType, ThreadType
<1>10. Current' = q
  BY <1>1, <1>7, <1>9 DEF Current
<1>11. NetType'
  BY <1>1, <1>4, <1>5, <1>7, <1>8 DEF NetType, PrivType, ThreadType, QueueType, EventType, DeviceType
<1>12. NetCounts'
  BY <1>1, <1>7, <1>9 DEF NetCounts
<1>13. NetCqs'
  BY <1>1, <1>4, <1>5, <1>6, <1>9, <1>10 DEF NetCqs, TableLive, Open, Half
<1>14. NetRings'
  BY <1>1, <1>2, <1>4, <1>5, <1>9, <1>10 DEF NetRings, Open, Configured
<1>15. NetPhases'
  BY <1>1, <1>4, <1>5, <1>9 DEF NetPhases
<1>16. NetConfig'
  BY <1>9 DEF NetConfig
<1> QED BY <1>11, <1>12, <1>13, <1>14, <1>15, <1>16

\* A completion queue that has no ring is freed, and nothing points to it.
LEMMA FreeCqFacts ==
    ASSUME NetIInv, NEW q \in Queues, cq[q].enabled, ~Open(q),
           cq' = [cq EXCEPT ![q] = NoCq], cq_table' = Detached(q, cq[q].cqn),
           irq' = Freed(q), UNCHANGED <<ring, eq_open, events>>
    PROVE  /\ QueueType' /\ EventType' /\ TableLive'
           /\ cq'[q] = NoCq /\ \A p \in Queues : p # q => cq'[p] = cq[p]
<1>1. /\ cq \in [Queues -> CqStates] /\ cq[q].cqn \in Cqns
      /\ cq_table \in [EQs -> [Cqns -> Queues \cup {NoQueue}]]
      /\ irq \in [EQs -> Queues \cup {NoQueue, Dangling}] /\ EqOf(q) \in EQs
  BY QueueFacts DEF NetIInv, NetType, QueueType, EventType, NetCqs, NoCq, CqStates
<1>2. /\ cq' \in [Queues -> CqStates]
      /\ cq'[q] = NoCq /\ \A p \in Queues : p # q => cq'[p] = cq[p]
      /\ NoCq.cqn = NoneIdx /\ ~NoCq.enabled
  BY <1>1 DEF CqStates, NoCq
<1>3. cq_table' = [cq_table EXCEPT ![EqOf(q)][cq[q].cqn] = NoQueue]
  BY DEF Detached
<1>4. cq_table' \in [EQs -> [Cqns -> Queues \cup {NoQueue}]]
  BY <1>1, <1>3
<1>5. irq' \in [EQs -> Queues \cup {NoQueue, Dangling}]
  BY <1>1 DEF Freed
<1>6. TableLive'
  <2> SUFFICES ASSUME NEW e \in EQs, NEW n \in Cqns, NEW p \in Queues
               PROVE  cq_table'[e][n] = p <=> cq'[p].cqn = n /\ cq'[p].enabled /\ EqOf(p) = e
    BY DEF TableLive
  <2>1. cq_table[e][n] = p <=> cq[p].cqn = n /\ cq[p].enabled /\ EqOf(p) = e
    BY DEF NetIInv, NetCqs, TableLive
  <2>2. cq_table[EqOf(q)][cq[q].cqn] = q
    BY <1>1 DEF NetIInv, NetCqs, TableLive
  <2>3. CASE e = EqOf(q) /\ n = cq[q].cqn
    <3>1. cq_table'[e][n] = NoQueue
      BY <1>1, <1>3, <2>3
    <3> QED BY <1>1, <1>2, <2>1, <2>2, <2>3, <3>1, QueueFacts DEF NetIInv, NetCqs
  <2>4. CASE ~(e = EqOf(q) /\ n = cq[q].cqn)
    <3>1. cq_table'[e][n] = cq_table[e][n]
      BY <1>1, <1>3, <2>4
    <3>2. p # q => cq'[p] = cq[p]
      BY <1>2
    <3>3. p = q => ~(cq_table[e][n] = p) /\ ~cq'[p].enabled
      BY <1>2, <2>1, <2>4
    <3> QED BY <2>1, <3>1, <3>2, <3>3
  <2> QED BY <2>3, <2>4
<1> QED BY <1>1, <1>2, <1>4, <1>5, <1>6 DEF NetIInv, NetType, QueueType, EventType

\* mqnic_close_cq and mqnic_destroy_cq.
LEMMA StopCqStep ==
    ASSUME NetIInv, StopCq
    PROVE  NetIInv'
<1> USE PhaseFacts DEF NetIInv
<1> DEFINE q == Current
<1>1. /\ thread.pc = "stop_cq" /\ cq_table' = Detached(q, cq[q].cqn)
      /\ cq' = [cq EXCEPT ![q] = NoCq] /\ irq' = Freed(q)
      /\ pending' = pending \ {q}
      /\ thread' = [thread EXCEPT !.pc = "stop_queue"]
      /\ UNCHANGED <<priv, port_up, ring, eq_open, events, inflight, hw, timer, carrier>>
  BY CurrentIs DEF StopCq, Goto
<1>2. /\ priv.rxq_count \in 1..RXQ_MAX /\ priv.txq_count \in 1..TXQ_MAX
      /\ thread.i \in Nat
  BY DEF NetType, PrivType, ThreadType
<1>3. q \in Queues
  BY <1>1, <1>2, LoopFacts DEF NetCounts, Current
<1>4. cq[q].enabled /\ ~Open(q)
  BY <1>1, <1>3 DEF NetCqs, NetRings, Half
<1>5. /\ QueueType' /\ EventType' /\ TableLive'
      /\ cq'[q] = NoCq /\ \A p \in Queues : p # q => cq'[p] = cq[p]
  BY <1>1, <1>3, <1>4, FreeCqFacts
<1>6. /\ thread'.pc = "stop_queue" /\ thread'.i = thread.i /\ thread'.then = thread.then
      /\ thread'.r = thread.r /\ thread'.t = thread.t
  BY <1>1 DEF NetType, ThreadType
<1>7. NetType'
  BY <1>1, <1>5 DEF NetType, PrivType, ThreadType, DeviceType
<1>8. NetCounts'
  BY <1>1, <1>6 DEF NetCounts
<1>9. NetCqs'
  <2>1. /\ NoCq.cqn = NoneIdx /\ ~NoCq.enabled
        /\ \A p \in Queues : Open(p)' <=> Open(p)
    BY <1>1 DEF NoCq, Open
  <2> HIDE DEF q
  <2>2. \A p \in Queues : p # q /\ cq[p].enabled => Open(p)
    BY DEF NetCqs, Half, q
  <2>3. \A p \in Queues : ~Half(p)'
    BY <1>6 DEF Half
  <2> QED BY <1>4, <1>5, <2>1, <2>2, <2>3 DEF NetCqs
<1>10. NetRings'
  BY <1>1, <1>4, <1>5, <1>6 DEF NetRings, Open, Configured, NoCq
<1>11. NetPhases'
  BY <1>1, <1>5, <1>6 DEF NetPhases
<1>12. NetConfig'
  BY <1>6 DEF NetConfig
<1> QED BY <1>7, <1>8, <1>9, <1>10, <1>11, <1>12

\* The end of mqnic_stop_port: nothing is open, and the caller goes on.
LEMMA StopDoneStep ==
    ASSUME NetIInv, StopDone
    PROVE  NetIInv'
<1> USE PhaseFacts DEF NetIInv
<1>1. /\ thread.pc = "stop_queue" /\ \A q \in Queues : ~Open(q)
      /\ UNCHANGED <<port_up, cq, ring, eq_open, cq_table, events, irq, pending, inflight,
                     hw, timer, carrier>>
  BY DEF StopDone
<1>2. thread.then \in {"restart", "close", "done", "resize"}
  BY <1>1 DEF NetType, ThreadType, NetCounts
<1>3. /\ \E pc \in {"start_cq", "idle"} : Begin(pc, "done")
      /\ \/ thread.then # "resize" /\ priv' = priv
         \/ thread.then # "resize" /\ priv' = [priv EXCEPT !.running = FALSE]
         \/ /\ thread.then = "resize"
            /\ priv' = [priv EXCEPT !.rxq_count = thread.r, !.txq_count = thread.t]
  <2>1. CASE thread.then = "restart"
    BY <2>1 DEF StopDone
  <2>2. CASE thread.then = "close"
    BY <2>2 DEF StopDone
  <2>3. CASE thread.then = "done"
    BY <2>3 DEF StopDone
  <2>4. CASE thread.then = "resize"
    BY <2>4 DEF StopDone
  <2> QED BY <1>2, <2>1, <2>2, <2>3, <2>4
<1>4. PrivType' /\ ThreadType'
  <2>1. ThreadType'
    BY <1>3 DEF NetType, ThreadType, Begin
  <2>2. PrivType'
    BY <1>3 DEF NetType, PrivType, NetCounts
  <2> QED BY <2>1, <2>2
<1>5. /\ thread'.i = 0 /\ thread'.then = "done"
      /\ thread'.pc \in {"start_cq", "idle"}
      /\ priv'.rxq_count \in 1..RXQ_MAX /\ priv'.txq_count \in 1..TXQ_MAX
  BY <1>3, <1>4 DEF PrivType, Begin
<1>6. NetType'
  BY <1>1, <1>4 DEF NetType, QueueType, EventType, DeviceType
<1>7. /\ priv'.indir = priv.indir
      /\ priv'.rxq_count = IF thread.then = "resize" THEN thread.r ELSE priv.rxq_count
  BY <1>3 DEF NetType, PrivType
<1>8. NetCounts'
  BY <1>5, <1>7, LoopFacts DEF NetCounts
<1>9. NetCqs'
  BY <1>1, <1>5 DEF NetCqs, TableLive, Open, Half
<1>10. \A q \in Queues : Configured(q)' => Idx(priv'.rxq_count, q) >= 0
  BY <1>5, LoopFacts DEF Configured
<1>11. NetRings'
  <2>1. ~port_up' /\ \A q \in Queues : ~Open(q)'
    BY <1>1 DEF NetPhases, Open
  <2>2. \A q \in Queues : Configured(q)' => ~(Idx(priv'.rxq_count, q) < 0)
    BY <1>5, <1>10, LoopFacts DEF Configured
  <2> QED BY <1>1, <1>5, <2>1, <2>2 DEF NetRings, Open
<1>12. pending = {}
  BY <1>1 DEF NetCqs, NetPhases, Half, NetType, DeviceType
<1>13. NetPhases'
  BY <1>1, <1>5, <1>12 DEF NetPhases
<1>14. NetConfig'
  BY <1>1, <1>5 DEF NetConfig, NetPhases, Open
<1> QED BY <1>6, <1>8, <1>9, <1>11, <1>13, <1>14

-----------------------------------------------------------------------------
(* mqnic_start_port. *)

\* A failure is a step to mqnic_stop_port that leaves the port as it is, with
\* whatever has been started.
LEMMA FailStep ==
    ASSUME NetIInv, Fail, thread.pc \in Loop,
           QueueType', EventType', NetCqs',
           \A q \in Queues : Open(q) => cq'[q] = cq[q],
           \A q \in Queues : cq'[q] = cq[q] \/ cq'[q] = NoCq,
           UNCHANGED <<priv, port_up, ring, pending, inflight, hw, timer, carrier>>
    PROVE  NetIInv'
<1> USE PhaseFacts DEF NetIInv
<1>1. /\ thread'.pc = "stop_timer" /\ thread'.r = thread.r /\ thread'.t = thread.t
      /\ thread'.then \in {"close", "done"} /\ ThreadType'
  BY DEF Fail, NetType, ThreadType, NetCounts
<1>2. NetType'
  BY <1>1 DEF NetType, PrivType, DeviceType
<1>3. NetCounts'
  BY <1>1 DEF NetCounts
<1>4. NetRings'
  BY <1>1 DEF NetRings, Open, Configured, NoCq
<1>5. NetPhases'
  BY <1>1 DEF NetPhases
<1>6. NetConfig'
  BY <1>1 DEF NetConfig
<1> QED BY <1>2, <1>3, <1>4, <1>5, <1>6

\* The queue a loop is at: it is configured and not open yet.
LEMMA CurrentFacts ==
    ASSUME NetIInv, thread.pc \in Loop
    PROVE  /\ Current \in Queues /\ Configured(Current) /\ ~Open(Current)
           /\ Idx(priv.rxq_count, Current) = thread.i
           /\ thread.pc = "start_cq" => cq[Current] = NoCq
<1>1. /\ priv.rxq_count \in 1..RXQ_MAX /\ priv.txq_count \in 1..TXQ_MAX
      /\ thread.i \in Nat /\ thread.i < priv.rxq_count + priv.txq_count
  BY DEF NetIInv, NetType, PrivType, ThreadType, NetCounts
<1>2. Current \in Queues /\ Configured(Current) /\ Idx(priv.rxq_count, Current) = thread.i
  BY <1>1, LoopFacts DEF Current, Configured
<1>3. ~Open(Current)
  BY <1>1, <1>2 DEF NetIInv, NetRings
<1>4. thread.pc = "start_cq" => cq[Current] = NoCq
  BY <1>2, <1>3 DEF NetIInv, NetCqs, Half
<1> QED BY <1>2, <1>3, <1>4

\* mqnic_create_cq and mqnic_open_cq: the number is nobody else's.
LEMMA StartCqStep ==
    ASSUME NetIInv, StartCq
    PROVE  NetIInv'
<1> USE PhaseFacts DEF NetIInv
<1>0. PICK q : q = Current
  OBVIOUS
<1> DEFINE n == ResAlloc(CqnsUsed, CQ_COUNT)
           new == [NoCq EXCEPT !.cqn = n, !.enabled = TRUE]
<1>1. /\ thread.pc = "start_cq"
      /\ \/ Fail /\ UNCHANGED <<cq, cq_table, eq_open, pending>>
         \/ eq_open' = eq_open \ {EqOf(q)} /\ Fail /\ UNCHANGED <<cq, cq_table, pending>>
         \/ /\ n # NoneIdx
            /\ cq' = [cq EXCEPT ![q] = new]
            /\ cq_table' = [cq_table EXCEPT ![EqOf(q)][n] = q]
            /\ pending' = pending \ {q}
            /\ thread' = [thread EXCEPT !.pc = "start_napi"] /\ UNCHANGED eq_open
      /\ UNCHANGED <<priv, port_up, ring, events, irq, inflight, hw, timer, carrier>>
  BY <1>0, CurrentIs DEF StartCq, CloseEq, Attached, Goto
<1>2. q \in Queues /\ ~Open(q) /\ cq[q] = NoCq
  BY <1>0, <1>1, CurrentFacts
<1>3. CASE Fail /\ UNCHANGED <<cq, cq_table, pending>> /\ eq_open' \subseteq eq_open
  <2>1. QueueType' /\ EventType'
    BY <1>1, <1>3 DEF NetType, QueueType, EventType
  <2>2. thread'.pc = "stop_timer"
    BY <1>3 DEF Fail, NetType, ThreadType
  <2>3. NetCqs'
    BY <1>1, <1>3, <2>2 DEF NetCqs, TableLive, Open, Half
  <2> QED BY <1>1, <1>3, <2>1, <2>3, FailStep
<1>4. CASE /\ n # NoneIdx
           /\ cq' = [cq EXCEPT ![q] = new]
           /\ cq_table' = [cq_table EXCEPT ![EqOf(q)][n] = q]
           /\ pending' = pending \ {q}
           /\ thread' = [thread EXCEPT !.pc = "start_napi"] /\ UNCHANGED eq_open
  <2>1. n \in Cqns /\ \A p \in Queues : cq[p].cqn # n
    <3>1. CQ_COUNT \in Nat
      BY NetPortAssumption
    <3>2. n \in 0..CQ_COUNT-1 /\ n \notin CqnsUsed
      BY <1>4, <3>1, AllocFacts
    <3> QED BY <1>4, <3>2 DEF Cqns, CqnsUsed
  <2>2. /\ cq \in [Queues -> CqStates] /\ EqOf(q) \in EQs
        /\ cq_table \in [EQs -> [Cqns -> Queues \cup {NoQueue}]]
    BY <1>2, QueueFacts DEF NetType, QueueType, EventType
  <2>3. /\ new \in CqStates /\ new.cqn = n /\ new.enabled /\ ~new.handler /\ ~new.tail
        /\ new.napi = "none"
    BY <2>1 DEF NoCq, CqStates
  <2> HIDE DEF n, new
  <2>4. /\ cq' \in [Queues -> CqStates] /\ cq'[q] = new
        /\ \A p \in Queues : p # q => cq'[p] = cq[p]
    BY <1>2, <1>4, <2>2, <2>3
  <2>5. cq_table' \in [EQs -> [Cqns -> Queues \cup {NoQueue}]]
    BY <1>2, <1>4, <2>1, <2>2
  <2>6. /\ thread'.pc = "start_napi" /\ thread'.i = thread.i /\ thread'.r = thread.r
        /\ thread'.t = thread.t /\ thread'.then = thread.then /\ ThreadType'
    BY <1>4 DEF NetType, ThreadType
  <2>7. Current' = q
    BY <1>0, <1>1, <2>6 DEF Current
  <2>8. NetType'
    BY <1>1, <1>4, <2>4, <2>5, <2>6 DEF NetType, PrivType, QueueType, EventType, DeviceType
  <2>9. NetCounts'
    BY <1>1, <2>6 DEF NetCounts
  <2>10. TableLive'
    <3> SUFFICES ASSUME NEW e \in EQs, NEW m \in Cqns, NEW p \in Queues
                 PROVE  cq_table'[e][m] = p <=> cq'[p].cqn = m /\ cq'[p].enabled /\ EqOf(p) = e
      BY DEF TableLive
    <3>1. cq_table[e][m] = p <=> cq[p].cqn = m /\ cq[p].enabled /\ EqOf(p) = e
      BY DEF NetCqs, TableLive
    <3>2. cq_table'[e][m] = IF e = EqOf(q) /\ m = n THEN q ELSE cq_table[e][m]
      BY <1>4, <2>1, <2>2
    <3>3. ~cq[q].enabled
      BY <1>2 DEF NoCq
    <3> QED BY <1>2, <2>1, <2>3, <2>4, <3>1, <3>2, <3>3
  <2>11. NetCqs'
    <3>1. \A p \in Queues : (Open(p)' <=> Open(p)) /\ ~Half(p) /\ (Half(p)' <=> p = q)
      BY <1>1, <2>6, <2>7 DEF Open, Half
    <3> QED BY <1>2, <1>4, <2>1, <2>3, <2>4, <2>10, <3>1 DEF NetCqs
  <2>12. NetRings'
    BY <1>1, <1>2, <2>3, <2>4, <2>6 DEF NetRings, Open, Configured
  <2>13. NetPhases'
    BY <1>1, <1>4, <2>4, <2>6 DEF NetPhases
  <2>14. NetConfig'
    BY <1>1, <2>6 DEF NetConfig, Open
  <2> QED BY <2>8, <2>9, <2>11, <2>12, <2>13, <2>14
<1> QED BY <1>1, <1>3, <1>4

\* napi_enable and the first mqnic_arm_cq.
LEMMA StartNapiStep ==
    ASSUME NetIInv, StartNapi
    PROVE  NetIInv'
<1> USE PhaseFacts DEF NetIInv
<1>0. PICK q : q = Current
  OBVIOUS
<1> DEFINE c == [cq[q] EXCEPT !.napi = "idle"]
<1>1. /\ thread.pc = "start_napi" /\ ArmCq(q, c)
      /\ thread' = [thread EXCEPT !.pc = "start_ring"]
      /\ UNCHANGED <<priv, port_up, ring, eq_open, cq_table, irq, pending, inflight, hw,
                     timer, carrier>>
  BY <1>0, CurrentIs DEF StartNapi, Goto
<1>2. q \in Queues /\ ~Open(q) /\ cq[q].enabled /\ cq[q].cqn # NoneIdx
  <2>1. q \in Queues /\ ~Open(q) /\ Half(q)
    BY <1>0, <1>1, CurrentFacts DEF Half
  <2> QED BY <2>1 DEF NetCqs, NoCq
<1>3. /\ cq[q] \in CqStates /\ c \in CqStates /\ c.cqn = cq[q].cqn
      /\ c.enabled = cq[q].enabled /\ c.handler = cq[q].handler /\ c.tail = cq[q].tail
      /\ c.napi = "idle"
  BY <1>2 DEF NetType, QueueType, CqStates
<1> HIDE DEF c
<1>4. /\ cq' \in [Queues -> CqStates] /\ events' \in [EQs -> SUBSET Cqns]
      /\ \A p \in Queues : p # q => cq'[p] = cq[p]
      /\ cq'[q].cqn = cq[q].cqn /\ cq'[q].enabled = cq[q].enabled
      /\ cq'[q].handler = cq[q].handler /\ cq'[q].tail = cq[q].tail
      /\ cq'[q].napi = "idle"
  BY <1>1, <1>2, <1>3, ArmFacts
<1>5. /\ thread'.pc = "start_ring" /\ thread'.i = thread.i /\ thread'.r = thread.r
      /\ thread'.t = thread.t /\ thread'.then = thread.then /\ ThreadType'
  BY <1>1 DEF NetType, ThreadType
<1>6. Current' = Current
  BY <1>1, <1>5 DEF Current
<1>7. NetType'
  BY <1>1, <1>4, <1>5 DEF NetType, PrivType, QueueType, EventType, DeviceType
<1>8. NetCounts'
  BY <1>1, <1>5 DEF NetCounts
<1>9. NetCqs'
  <2>1. \A p \in Queues : (Open(p)' <=> Open(p)) /\ (Half(p)' <=> Half(p))
    BY <1>1, <1>5, <1>6 DEF Open, Half
  <2>2. /\ \A p \in Queues : cq'[p].cqn = cq[p].cqn /\ cq'[p].enabled = cq[p].enabled
        /\ \A p \in Queues : cq'[p].cqn = NoneIdx => cq'[p] = cq[p]
    BY <1>2, <1>4
  <2>3. TableLive'
    BY <1>1, <2>2 DEF NetCqs, TableLive
  <2> QED BY <2>1, <2>2, <2>3 DEF NetCqs
<1>10. NetRings'
  BY <1>1, <1>2, <1>4, <1>5 DEF NetRings, Open, Configured
<1>11. NetPhases'
  BY <1>1, <1>5 DEF NetPhases
<1>12. NetConfig'
  BY <1>1, <1>5 DEF NetConfig, Open
<1> QED BY <1>7, <1>8, <1>9, <1>10, <1>11, <1>12

\* The ring is opened, and the queue done; or both are given back.
LEMMA StartRingStep ==
    ASSUME NetIInv, StartRing
    PROVE  NetIInv'
<1> USE PhaseFacts DEF NetIInv
<1>0. PICK q : q = Current
  OBVIOUS
<1> DEFINE n == ResAlloc(RingsUsed(q[1]), IF q[1] = "rx" THEN RXQ_MAX ELSE TXQ_MAX)
           new == [index |-> n, enabled |-> FALSE, mtu |-> priv.mtu]
           total == priv.rxq_count + priv.txq_count
<1>1. /\ thread.pc = "start_ring"
      /\ \/ /\ cq_table' = Detached(q, cq[q].cqn) /\ cq' = [cq EXCEPT ![q] = NoCq]
            /\ irq' = Freed(q) /\ Fail /\ UNCHANGED ring
         \/ /\ n # NoneIdx
            /\ ring' = [ring EXCEPT ![q] = new]
            /\ cq' = [cq EXCEPT ![q].handler = TRUE]
            /\ thread' = IF thread.i + 1 = total
                         THEN [thread EXCEPT !.pc = "start_up"]
                         ELSE [thread EXCEPT !.pc = "start_cq", !.i = @ + 1]
            /\ UNCHANGED <<cq_table, irq>>
      /\ UNCHANGED <<priv, port_up, eq_open, events, pending, inflight, hw, timer, carrier>>
  BY <1>0, CurrentIs DEF StartRing
<1>2. /\ q \in Queues /\ ~Open(q) /\ cq[q].enabled /\ cq[q].cqn # NoneIdx
      /\ Configured(q) /\ Idx(priv.rxq_count, q) = thread.i
  <2>1. q \in Queues /\ ~Open(q) /\ Half(q) /\ Configured(q) /\ Idx(priv.rxq_count, q) = thread.i
    BY <1>0, <1>1, CurrentFacts DEF Half
  <2> QED BY <2>1 DEF NetCqs, NoCq
<1>3. CASE /\ cq_table' = Detached(q, cq[q].cqn) /\ cq' = [cq EXCEPT ![q] = NoCq]
           /\ irq' = Freed(q) /\ Fail /\ UNCHANGED ring
  <2>1. /\ QueueType' /\ EventType' /\ TableLive'
        /\ cq'[q] = NoCq /\ \A p \in Queues : p # q => cq'[p] = cq[p]
    BY <1>1, <1>2, <1>3, FreeCqFacts
  <2>2. thread'.pc = "stop_timer"
    BY <1>3 DEF Fail, NetType, ThreadType
  <2>3. NetCqs'
    <3>1. /\ NoCq.cqn = NoneIdx /\ ~NoCq.enabled
          /\ \A p \in Queues : Open(p)' <=> Open(p)
      BY <1>3 DEF NoCq, Open
    <3>2. \A p \in Queues : p # q /\ cq[p].enabled => Open(p)
      BY <1>0 DEF NetCqs, Half
    <3>3. \A p \in Queues : ~Half(p)'
      BY <2>2 DEF Half
    <3> QED BY <1>2, <2>1, <3>1, <3>2, <3>3 DEF NetCqs
  <2>4. \A p \in Queues : Open(p) => cq'[p] = cq[p]
    BY <1>2, <2>1
  <2>5. \A p \in Queues : cq'[p] = cq[p] \/ cq'[p] = NoCq
    BY <2>1
  <2> QED BY <1>1, <1>3, <2>1, <2>3, <2>4, <2>5, FailStep
<1>4. CASE /\ n # NoneIdx
           /\ ring' = [ring EXCEPT ![q] = new]
           /\ cq' = [cq EXCEPT ![q].handler = TRUE]
           /\ thread' = IF thread.i + 1 = total
                        THEN [thread EXCEPT !.pc = "start_up"]
                        ELSE [thread EXCEPT !.pc = "start_cq", !.i = @ + 1]
           /\ UNCHANGED <<cq_table, irq>>
  <2>1. n \in Nat
    BY <1>4, AllocFacts, QueueFacts
  <2>2. /\ cq \in [Queues -> CqStates] /\ cq[q] \in CqStates
        /\ ring \in [Queues -> RingStates] /\ priv.mtu \in Mtus
        /\ priv.rxq_count \in 1..RXQ_MAX /\ priv.txq_count \in 1..TXQ_MAX
        /\ thread.i \in Nat /\ thread.i < total /\ total \in Nat
    BY <1>1, <1>2, LoopFacts DEF NetType, QueueType, PrivType, ThreadType, NetCounts
  <2>3. new \in RingStates /\ new.index = n /\ ~new.enabled /\ new.mtu = priv.mtu
    BY <2>1, <2>2 DEF RingStates
  <2> HIDE DEF n, new
  <2>4. /\ ring' \in [Queues -> RingStates] /\ ring'[q] = new
        /\ \A p \in Queues : p # q => ring'[p] = ring[p]
    BY <1>2, <1>4, <2>2, <2>3
  <2>5. /\ cq' \in [Queues -> CqStates]
        /\ \A p \in Queues : p # q => cq'[p] = cq[p]
        /\ cq'[q].cqn = cq[q].cqn /\ cq'[q].enabled = cq[q].enabled
        /\ cq'[q].handler
    BY <1>2, <1>4, <2>2 DEF CqStates
  <2>6. /\ thread'.r = thread.r /\ thread'.t = thread.t
        /\ thread'.then = thread.then /\ ThreadType'
        /\ \/ thread'.pc = "start_up" /\ thread.i + 1 = total
           \/ thread'.pc = "start_cq" /\ thread'.i = thread.i + 1 /\ thread.i + 1 < total
    <3>1. CASE thread.i + 1 = total
      BY <1>4, <2>2, <3>1 DEF NetType, ThreadType
    <3>2. CASE thread.i + 1 # total
      <4>1. thread.i + 1 \in Nat /\ thread.i + 1 < total
        BY <2>2, <3>2
      <4> QED BY <1>4, <2>2, <3>2, <4>1 DEF NetType, ThreadType
    <3> QED BY <3>1, <3>2
  <2>7. NetType'
    BY <1>1, <1>4, <2>4, <2>5, <2>6 DEF NetType, PrivType, QueueType, EventType, DeviceType
  <2>8. NetCounts'
    BY <1>1, <2>2, <2>6 DEF NetCounts
  <2>9. /\ \A p \in Queues : Open(p)' <=> p = q \/ Open(p)
        /\ \A p \in Queues : ~Half(p)' /\ (p # q => ~Half(p))
        /\ \A p \in Queues : Configured(p)' <=> Configured(p)
    BY <1>0, <1>1, <1>2, <1>4, <2>1, <2>3, <2>4, <2>6, QueueFacts DEF Open, Half, Configured
  <2>10. NetCqs'
    BY <1>1, <1>2, <1>4, <2>5, <2>9 DEF NetCqs, TableLive
  <2>11. \A p \in Queues : Open(p)' <=> Configured(p) /\ Idx(priv.rxq_count, p) < thread.i + 1
    <3> SUFFICES ASSUME NEW p \in Queues
                 PROVE  Open(p)' <=> Configured(p) /\ Idx(priv.rxq_count, p) < thread.i + 1
      OBVIOUS
    <3>1. Open(p) <=> Configured(p) /\ Idx(priv.rxq_count, p) < thread.i
      BY <1>1 DEF NetRings
    <3>2. /\ Configured(p) => /\ Idx(priv.rxq_count, p) \in Nat
                              /\ At(priv.rxq_count, Idx(priv.rxq_count, p)) = p
      BY <2>2, LoopFacts DEF Configured
    <3>3. Configured(p) /\ Idx(priv.rxq_count, p) = thread.i => p = q
      BY <1>0, <3>2 DEF Current
    <3> QED BY <1>2, <2>2, <2>9, <3>1, <3>2, <3>3
  <2>12. NetRings'
    <3>1. thread'.pc = "start_up" => \A p \in Queues : Open(p)' <=> Configured(p)
      BY <2>2, <2>6, <2>11, LoopFacts DEF Configured
    <3>2. \A p \in Queues : /\ Open(p)' <=> cq'[p].handler
                            /\ ~Open(p)' => ring'[p] = NoRing
                            /\ ~Open(p)' => ~cq'[p].tail /\ cq'[p].napi \in {"none", "idle"}
      BY <2>4, <2>5, <2>9 DEF NetRings
    <3> QED BY <1>1, <2>6, <2>9, <2>11, <3>1, <3>2 DEF NetRings
  <2>13. NetPhases'
    BY <1>1, <2>3, <2>4, <2>5, <2>6 DEF NetPhases
  <2>14. NetConfig'
    BY <1>1, <2>3, <2>4, <2>6, <2>9 DEF NetConfig
  <2> QED BY <2>7, <2>8, <2>10, <2>12, <2>13, <2>14
<1> QED BY <1>1, <1>3, <1>4

\* What mqnic_update_indir_table writes when every entry names an open ring.
LEMMA IndirFacts ==
    ASSUME NetType, NEW indir \in [0..RXQ_MAX-1 -> Nat],
           \A k \in 0..RXQ_MAX-1 : indir[k] < RXQ_MAX
    PROVE  /\ UpdateIndir(ring, indir) \in [0..RXQ_MAX-1 -> Nat \cup {NoneIdx}]
           /\ (\A k \in 0..RXQ_MAX-1 : Open(<<"rx", indir[k]>>)) =>
                \A k \in 0..RXQ_MAX-1 :
                  UpdateIndir(ring, indir)[k] = ring[<<"rx", indir[k]>>].index
<1>1. \A k \in 0..RXQ_MAX-1 : <<"rx", indir[k]>> \in Queues
  BY QueueFacts
<1>2. \A q \in Queues : ring[q].index \in Nat \cup {NoneIdx}
  BY DEF NetType, QueueType, RingStates
<1>3. \A k \in 0..RXQ_MAX-1 : hw.indir[k] \in Nat \cup {NoneIdx}
  BY DEF NetType, DeviceType
<1>4. UpdateIndir(ring, indir) \in [0..RXQ_MAX-1 -> Nat \cup {NoneIdx}]
  BY <1>1, <1>2, <1>3 DEF UpdateIndir
<1> QED BY <1>4 DEF UpdateIndir, Open

\* A receive queue the table names is configured.
LEMMA IndirConfigured ==
    ASSUME PrivType, NEW k \in Nat, k < priv.rxq_count
    PROVE  <<"rx", k>> \in Queues /\ Configured(<<"rx", k>>) /\ k < RXQ_MAX
<1>1. priv.rxq_count \in 1..RXQ_MAX
  BY DEF PrivType
<1>2. k < RXQ_MAX /\ <<"rx", k>> \in Queues
  BY <1>1, QueueFacts
<1> QED BY <1>2 DEF Configured, Among

\* The registers are written and the port is up.
LEMMA StartUpStep ==
    ASSUME NetIInv, StartUp
    PROVE  NetIInv'
<1> USE PhaseFacts DEF NetIInv
<1>1. /\ thread.pc = "start_up" /\ port_up' = TRUE
      /\ hw' = [mtu |-> priv.mtu, indir |-> UpdateIndir(ring, priv.indir)]
      /\ thread' = [thread EXCEPT !.pc = "start_enable"]
      /\ UNCHANGED <<priv, cq, ring, eq_open, cq_table, events, irq, pending, inflight,
                     timer, carrier>>
  BY DEF StartUp, Goto
<1>2. /\ thread'.pc = "start_enable" /\ thread'.i = thread.i /\ thread'.r = thread.r
      /\ thread'.t = thread.t /\ thread'.then = thread.then /\ ThreadType'
  BY <1>1 DEF NetType, ThreadType
<1>3. /\ priv.indir \in [0..RXQ_MAX-1 -> Nat] /\ priv.mtu \in Mtus
      /\ \A k \in 0..RXQ_MAX-1 : priv.indir[k] \in Nat /\ priv.indir[k] < priv.rxq_count
  BY <1>1 DEF NetType, PrivType, NetCounts
<1>4. \A k \in 0..RXQ_MAX-1 : /\ <<"rx", priv.indir[k]>> \in Queues
                              /\ Configured(<<"rx", priv.indir[k]>>) /\ priv.indir[k] < RXQ_MAX
  BY <1>3, IndirConfigured DEF NetType
<1>5. \A k \in 0..RXQ_MAX-1 : Open(<<"rx", priv.indir[k]>>)
  BY <1>1, <1>4 DEF NetRings
<1>6. /\ hw'.indir \in [0..RXQ_MAX-1 -> Nat \cup {NoneIdx}] /\ hw'.mtu = priv.mtu
      /\ \A k \in 0..RXQ_MAX-1 : hw'.indir[k] = ring[<<"rx", priv.indir[k]>>].index
  BY <1>1, <1>3, <1>4, <1>5, IndirFacts
<1>7. NetType'
  BY <1>1, <1>2, <1>3, <1>6 DEF NetType, PrivType, QueueType, EventType, DeviceType
<1>8. NetCounts'
  BY <1>1, <1>2 DEF NetCounts
<1>9. NetCqs'
  BY <1>1, <1>2 DEF NetCqs, TableLive, Open, Half
<1>10. NetRings'
  BY <1>1, <1>2 DEF NetRings, Open, Configured
<1>11. NetPhases'
  BY <1>1, <1>2 DEF NetPhases
<1>12. NetConfig'
  BY <1>1, <1>2, <1>6 DEF NetConfig, Open
<1> QED BY <1>7, <1>8, <1>9, <1>10, <1>11, <1>12

\* The rings are enabled.
LEMMA StartEnableStep ==
    ASSUME NetIInv, StartEnable
    PROVE  NetIInv'
<1> USE PhaseFacts DEF NetIInv
<1>1. /\ thread.pc = "start_enable"
      /\ ring' = [q \in Queues |-> [ring[q] EXCEPT !.enabled = Open(q)]]
      /\ thread' = [thread EXCEPT !.pc = "start_link"]
      /\ UNCHANGED <<priv, port_up, cq, eq_open, cq_table, events, irq, pending, inflight,
                     hw, timer, carrier>>
  BY DEF StartEnable, Goto
<1>2. /\ thread'.pc = "start_link" /\ thread'.i = thread.i /\ thread'.r = thread.r
      /\ thread'.t = thread.t /\ thread'.then = thread.then /\ ThreadType'
  BY <1>1 DEF NetType, ThreadType
<1>3. /\ ring' \in [Queues -> RingStates]
      /\ \A q \in Queues : /\ ring'[q].index = ring[q].index /\ ring'[q].mtu = ring[q].mtu
                           /\ ring'[q].enabled <=> Open(q)
                           /\ ring[q] = NoRing => ring'[q] = NoRing
  <2> SUFFICES ASSUME NEW q \in Queues
               PROVE  /\ ring'[q] \in RingStates
                      /\ ring'[q].index = ring[q].index /\ ring'[q].mtu = ring[q].mtu
                      /\ ring'[q].enabled <=> Open(q)
                      /\ ring[q] = NoRing => ring'[q] = NoRing
    BY <1>1
  <2>1. /\ ring[q] \in RingStates /\ ring'[q] = [ring[q] EXCEPT !.enabled = Open(q)]
        /\ Open(q) \in BOOLEAN
    BY <1>1 DEF NetType, QueueType, Open
  <2>2. /\ ring'[q] \in RingStates /\ ring'[q].index = ring[q].index
        /\ ring'[q].mtu = ring[q].mtu /\ ring'[q].enabled = Open(q)
        /\ ring'[q] = [index |-> ring[q].index, enabled |-> ring'[q].enabled,
                       mtu |-> ring[q].mtu]
    BY <2>1 DEF RingStates
  <2>3. ASSUME ring[q] = NoRing PROVE ring'[q] = NoRing
    <3>1. Open(q) = FALSE
      BY <2>3 DEF Open, NoRing
    <3>2. ring'[q].enabled = FALSE
      BY <2>2, <3>1, Zenon
    <3>3. ring[q].index = NoneIdx /\ ring[q].mtu = NoneIdx
      BY <2>3 DEF NoRing
    <3>4. ring'[q] = [index |-> NoneIdx, enabled |-> FALSE, mtu |-> NoneIdx]
      BY <2>2, <3>2, <3>3, Zenon
    <3> QED BY <3>4 DEF NoRing
  <2> QED BY <2>2, <2>3
<1>4. \A q \in Queues : Open(q)' <=> Open(q)
  BY <1>3 DEF Open
<1>5. NetType'
  BY <1>1, <1>2, <1>3 DEF NetType, PrivType, QueueType, EventType, DeviceType
<1>6. NetCounts'
  BY <1>1, <1>2 DEF NetCounts
<1>7. NetCqs'
  <2>1. \A q \in Queues : ~Half(q) /\ ~Half(q)'
    BY <1>1, <1>2 DEF Half
  <2> QED BY <1>1, <1>4, <2>1 DEF NetCqs, TableLive
<1>8. NetRings'
  BY <1>1, <1>2, <1>3, <1>4 DEF NetRings, Configured
<1>9. NetPhases'
  BY <1>1, <1>2 DEF NetPhases
<1>10. NetConfig'
  <2>1. \A k \in 0..RXQ_MAX-1 : priv.indir[k] \in Nat /\ priv.indir[k] < priv.rxq_count
    BY <1>1 DEF NetType, PrivType, NetCounts
  <2>2. \A k \in 0..RXQ_MAX-1 : <<"rx", priv.indir[k]>> \in Queues
    BY <2>1, IndirConfigured DEF NetType
  <2> QED BY <1>1, <1>2, <1>3, <1>4, <2>2 DEF NetConfig
<1> QED BY <1>5, <1>6, <1>7, <1>8, <1>9, <1>10

\* The end of mqnic_start_port: the port is up and running.
LEMMA StartLinkStep ==
    ASSUME NetIInv, StartLink
    PROVE  NetIInv'
<1> USE PhaseFacts DEF NetIInv
<1>1. /\ thread.pc = "start_link" /\ timer' = LINK_POLL
      /\ carrier' = (IF LINK_POLL THEN carrier ELSE TRUE)
      /\ priv' = [priv EXCEPT !.running = TRUE]
      /\ thread' = [pc |-> "idle", i |-> 0, then |-> "done", r |-> 0, t |-> 0]
      /\ UNCHANGED <<port_up, cq, ring, eq_open, cq_table, events, irq, pending, inflight, hw>>
  BY DEF StartLink, Begin
<1>2. /\ PrivType' /\ priv'.running /\ priv'.rxq_count = priv.rxq_count
      /\ priv'.txq_count = priv.txq_count /\ priv'.indir = priv.indir /\ priv'.mtu = priv.mtu
  BY <1>1 DEF NetType, PrivType
<1>3. NetType'
  BY <1>1, <1>2, NetPortAssumption DEF NetType, ThreadType, QueueType, EventType, DeviceType
<1>4. NetCounts'
  BY <1>1, <1>2 DEF NetCounts
<1>5. NetCqs'
  BY <1>1 DEF NetCqs, TableLive, Open, Half
<1>6. NetRings'
  BY <1>1, <1>2 DEF NetRings, NetPhases, Open, Configured
<1>7. NetPhases'
  BY <1>1, <1>2 DEF NetPhases
<1>8. NetConfig'
  BY <1>1, <1>2 DEF NetConfig, Open
<1> QED BY <1>3, <1>4, <1>5, <1>6, <1>7, <1>8

-----------------------------------------------------------------------------
(* Entry points. *)

\* A request that leads to mqnic_stop_port first leaves the port as it is; what
\* it has changed of the configuration counts when the port is started again.
LEMMA BeginStopStep ==
    ASSUME NetIInv, thread.pc = "idle", PrivType', ThreadType',
           thread'.pc = "stop_timer", thread'.then # "open",
           priv'.rxq_count = priv.rxq_count, priv'.txq_count = priv.txq_count,
           thread'.then = "resize" => thread'.r \in 1..RXQ_MAX /\ thread'.t \in 1..TXQ_MAX,
           \A k \in 0..RXQ_MAX-1 : priv'.indir[k] <
             (IF thread'.then = "resize" THEN thread'.r ELSE priv.rxq_count),
           UNCHANGED <<port_up, cq, ring, eq_open, cq_table, events, irq, pending,
                       inflight, hw, timer, carrier>>
    PROVE  NetIInv'
<1> USE PhaseFacts DEF NetIInv
<1>1. NetType'
  BY DEF NetType, QueueType, EventType, DeviceType
<1>2. NetCounts'
  BY DEF NetCounts
<1>3. NetCqs'
  BY DEF NetCqs, TableLive, Open, Half
<1>4. NetRings'
  BY DEF NetRings, Open, Configured
<1>5. NetPhases'
  BY DEF NetPhases
<1>6. NetConfig'
  BY DEF NetConfig
<1> QED BY <1>1, <1>2, <1>3, <1>4, <1>5, <1>6

\* Only a port that is down can be opened.
LEMMA OpenStep ==
    ASSUME NetIInv, mqnic_open
    PROVE  NetIInv'
<1> USE PhaseFacts DEF NetIInv
<1>1. /\ thread.pc = "idle" /\ ~priv.running
      /\ thread' = [pc |-> "start_cq", i |-> 0, then |-> "open", r |-> 0, t |-> 0]
      /\ UNCHANGED <<priv, port_up, cq, ring, eq_open, cq_table, events, irq, pending,
                     inflight, hw, timer, carrier>>
  BY DEF mqnic_open, Idle, Begin
<1>2. ~port_up /\ \A q \in Queues : ~Open(q)
  BY <1>1 DEF NetPhases, NetRings
<1>3. /\ priv.rxq_count \in 1..RXQ_MAX /\ priv.txq_count \in 1..TXQ_MAX
  BY DEF NetType, PrivType
<1>4. NetType'
  BY <1>1 DEF NetType, PrivType, ThreadType, QueueType, EventType, DeviceType
<1>5. NetCounts'
  BY <1>1, <1>3, LoopFacts DEF NetCounts
<1>6. NetCqs'
  BY <1>1 DEF NetCqs, TableLive, Open, Half
<1>7. NetRings'
  <2>1. \A q \in Queues : ~(Configured(q) /\ Idx(priv.rxq_count, q) < 0)
    BY <1>3, LoopFacts DEF Configured
  <2> QED BY <1>1, <1>2, <2>1 DEF NetRings, Open, Configured
<1>8. pending = {}
  BY <1>1, <1>2 DEF NetCqs, NetPhases, Half, NetType, DeviceType
<1>9. NetPhases'
  <2>1. \A q \in Queues : ~ring[q].enabled
    BY <1>2 DEF NetRings, NoRing
  <2> QED BY <1>1, <1>2, <1>8, <2>1 DEF NetPhases
<1>10. NetConfig'
  BY <1>1, <1>2 DEF NetConfig, Open
<1> QED BY <1>4, <1>5, <1>6, <1>7, <1>9, <1>10

\* mqnic_close, and new ring sizes on a port that is up.
LEMMA RestartStep ==
    ASSUME NetIInv, thread.pc = "idle", NEW then \in {"close", "restart"},
           Begin("stop_timer", then),
           UNCHANGED <<priv, port_up, cq, ring, eq_open, cq_table, events, irq, pending,
                       inflight, hw, timer, carrier>>
    PROVE  NetIInv'
<1>1. /\ thread'.pc = "stop_timer" /\ thread'.then = then /\ ThreadType' /\ PrivType'
  BY PhaseFacts DEF NetIInv, NetType, ThreadType, PrivType, Begin
<1>2. \A k \in 0..RXQ_MAX-1 : priv.indir[k] < priv.rxq_count
  BY DEF NetIInv, NetCounts
<1> QED BY <1>1, <1>2, BeginStopStep

\* Nothing but the operation count.
LEMMA QuietStep ==
    ASSUME NetIInv,
           UNCHANGED <<priv, port_up, thread, cq, ring, eq_open, cq_table, events, irq,
                       pending, inflight, hw, timer, carrier>>
    PROVE  NetIInv'
BY DEF NetIInv, NetType, PrivType, ThreadType, QueueType, EventType, DeviceType, NetCounts,
       NetCqs, NetRings, NetPhases, NetConfig, TableLive, Open, Half, Current, Configured

\* The MTU is recorded; a device that is running, hence one that is up, restarts.
LEMMA ChangeMtuStep ==
    ASSUME NetIInv, NEW m \in MTUS, mqnic_change_mtu(m)
    PROVE  NetIInv'
<1>1. /\ thread.pc = "idle" /\ priv' = [priv EXCEPT !.mtu = m]
      /\ IF priv.running THEN Begin("stop_timer", "restart") ELSE UNCHANGED thread
      /\ UNCHANGED <<port_up, cq, ring, eq_open, cq_table, events, irq, pending,
                     inflight, hw, timer, carrier>>
  BY DEF mqnic_change_mtu, Idle
<1>2. /\ PrivType' /\ priv'.running = priv.running /\ priv'.rxq_count = priv.rxq_count
      /\ priv'.txq_count = priv.txq_count /\ priv'.indir = priv.indir
  BY <1>1 DEF NetIInv, NetType, PrivType, Mtus
<1>3. \A k \in 0..RXQ_MAX-1 : priv.indir[k] < priv.rxq_count
  BY <1>1 DEF NetIInv, NetCounts
<1>4. CASE priv.running
  <2>1. thread'.pc = "stop_timer" /\ thread'.then = "restart" /\ ThreadType'
    BY <1>1, <1>4, PhaseFacts DEF ThreadType, Begin
  <2> QED BY <1>1, <1>2, <1>3, <2>1, BeginStopStep
<1>5. CASE ~priv.running
  <2> USE PhaseFacts DEF NetIInv
  <2>1. ~port_up /\ UNCHANGED thread
    BY <1>1, <1>5 DEF NetPhases
  <2>2. NetType'
    BY <1>1, <1>2, <2>1 DEF NetType, ThreadType, QueueType, EventType, DeviceType
  <2>3. NetCqs'
    BY <1>1, <2>1 DEF NetCqs, TableLive, Open, Half
  <2>4. NetRings'
    BY <1>1, <1>2, <2>1 DEF NetRings, Open, Configured
  <2>5. NetPhases'
    BY <1>1, <1>2, <2>1 DEF NetPhases
  <2> QED BY <1>1, <1>2, <1>3, <2>1, <2>2, <2>3, <2>4, <2>5 DEF NetCounts, NetConfig
<1> QED BY <1>4, <1>5

\* New counts: at once on a port that is down, after the stop on one that is up.
LEMMA SetChannelsStep ==
    ASSUME NetIInv, NEW r \in 1..RXQ_MAX, NEW t \in 1..TXQ_MAX, mqnic_set_channels(r, t)
    PROVE  NetIInv'
<1> DEFINE indir == IF r = priv.rxq_count THEN priv.indir
                    ELSE [k \in 0..RXQ_MAX-1 |-> k % r]
<1>1. /\ thread.pc = "idle"
      /\ priv' = [priv EXCEPT !.indir = indir,
                              !.rxq_count = IF port_up THEN @ ELSE r,
                              !.txq_count = IF port_up THEN @ ELSE t]
      /\ IF port_up
         THEN thread' = [pc |-> "stop_timer", i |-> 0, then |-> "resize", r |-> r, t |-> t]
         ELSE UNCHANGED thread
      /\ UNCHANGED <<port_up, cq, ring, eq_open, cq_table, events, irq, pending,
                     inflight, hw, timer, carrier>>
  BY DEF mqnic_set_channels, Idle
<1>2. r \in Nat \ {0} /\ t \in Nat
  BY QueueFacts
<1>3. \A k \in 0..RXQ_MAX-1 : k % r \in Nat /\ k % r < r
  <2> TAKE k \in 0..RXQ_MAX-1
  <2>1. k \in Int
    OBVIOUS
  <2>2. k % r \in 0..r-1
    BY <1>2, <2>1, Remainder
  <2> QED BY <1>2, <2>2
<1>4. thread.then = "done"
  BY <1>1 DEF NetIInv, NetCounts
<1>5. /\ indir \in [0..RXQ_MAX-1 -> Nat] /\ \A k \in 0..RXQ_MAX-1 : indir[k] < r
  BY <1>1, <1>3, <1>4 DEF NetIInv, NetType, PrivType, NetCounts
<1> HIDE DEF indir
<1>6. /\ PrivType' /\ priv'.running = priv.running /\ priv'.indir = indir
      /\ priv'.rxq_count = (IF port_up THEN priv.rxq_count ELSE r)
      /\ priv'.txq_count = (IF port_up THEN priv.txq_count ELSE t)
  BY <1>1, <1>5 DEF NetIInv, NetType, PrivType
<1>7. CASE port_up
  <2>1. /\ thread'.pc = "stop_timer" /\ thread'.then = "resize" /\ ThreadType'
        /\ thread'.r = r /\ thread'.t = t
    BY <1>1, <1>2, <1>7, PhaseFacts DEF ThreadType
  <2> QED BY <1>1, <1>5, <1>6, <1>7, <2>1, BeginStopStep
<1>8. CASE ~port_up
  <2> USE PhaseFacts DEF NetIInv
  <2>1. UNCHANGED thread /\ \A q \in Queues : ~Open(q)
    BY <1>1, <1>8 DEF NetRings
  <2>2. NetType'
    BY <1>1, <1>6, <2>1 DEF NetType, ThreadType, QueueType, EventType, DeviceType
  <2>3. NetCounts'
    BY <1>1, <1>4, <1>5, <1>6, <1>8, <2>1 DEF NetCounts
  <2>4. NetCqs'
    BY <1>1, <2>1 DEF NetCqs, TableLive, Open, Half
  <2>5. NetRings'
    BY <1>1, <1>8, <2>1 DEF NetRings, Open
  <2>6. NetPhases'
    BY <1>1, <1>8, <2>1 DEF NetPhases
  <2>7. NetConfig'
    BY <1>1, <1>8, <2>1 DEF NetConfig
  <2> QED BY <2>2, <2>3, <2>4, <2>5, <2>6, <2>7
<1> QED BY <1>7, <1>8

\* A new indirection table is written to the device at once.
LEMMA SetRxfhStep ==
    ASSUME NetIInv, NEW indir \in [0..RXQ_MAX-1 -> 0..RXQ_MAX-1], mqnic_set_rxfh(indir)
    PROVE  NetIInv'
<1> USE PhaseFacts DEF NetIInv
<1>1. /\ thread.pc = "idle" /\ \A k \in 0..RXQ_MAX-1 : indir[k] < priv.rxq_count
      /\ priv' = [priv EXCEPT !.indir = indir]
      /\ hw' = [hw EXCEPT !.indir = UpdateIndir(ring, indir)]
      /\ UNCHANGED <<port_up, thread, cq, ring, eq_open, cq_table, events, irq, pending,
                     inflight, timer, carrier>>
  BY DEF mqnic_set_rxfh, Idle
<1>2. /\ indir \in [0..RXQ_MAX-1 -> Nat]
      /\ \A k \in 0..RXQ_MAX-1 : indir[k] \in Nat /\ indir[k] < RXQ_MAX
  BY QueueFacts
<1>3. /\ PrivType' /\ priv'.running = priv.running /\ priv'.rxq_count = priv.rxq_count
      /\ priv'.txq_count = priv.txq_count /\ priv'.indir = indir /\ priv'.mtu = priv.mtu
  BY <1>1, <1>2 DEF NetType, PrivType
<1>4. port_up => \A k \in 0..RXQ_MAX-1 : Open(<<"rx", indir[k]>>)
  BY <1>1, <1>2, IndirConfigured DEF NetRings, NetType
<1>5. /\ UpdateIndir(ring, indir) \in [0..RXQ_MAX-1 -> Nat \cup {NoneIdx}]
      /\ port_up => \A k \in 0..RXQ_MAX-1 :
                      UpdateIndir(ring, indir)[k] = ring[<<"rx", indir[k]>>].index
  BY <1>2, <1>4, IndirFacts
<1>6. hw'.mtu = hw.mtu /\ hw'.indir = UpdateIndir(ring, indir) /\ DeviceType'
  BY <1>1, <1>5 DEF NetType, DeviceType
<1>7. NetType'
  BY <1>1, <1>3, <1>6 DEF NetType, ThreadType, QueueType, EventType
<1>8. NetCounts'
  BY <1>1, <1>3 DEF NetCounts
<1>9. NetCqs'
  BY <1>1 DEF NetCqs, TableLive, Open, Half
<1>10. NetRings'
  BY <1>1, <1>3 DEF NetRings, Open, Configured
<1>11. NetPhases'
  BY <1>1, <1>3 DEF NetPhases
<1>12. NetConfig'
  BY <1>1, <1>3, <1>5, <1>6 DEF NetConfig, Open
<1> QED BY <1>7, <1>8, <1>9, <1>10, <1>11, <1>12

-----------------------------------------------------------------------------
(* The theorems. *)

\* A new device: nothing is open.
LEMMA NetInitInv == NetInit => NetIInv
<1> SUFFICES ASSUME NetInit PROVE NetIInv
  OBVIOUS
<1> USE PhaseFacts DEF NetInit
<1>1. \A k \in 0..RXQ_MAX-1 : k % RXQ_MAX \in Nat /\ k % RXQ_MAX < RXQ_MAX
  <2> TAKE k \in 0..RXQ_MAX-1
  <2>1. k \in Int
    OBVIOUS
  <2>2. k % RXQ_MAX \in 0..RXQ_MAX-1
    BY <2>1, QueueFacts, Remainder
  <2> QED BY <2>2, QueueFacts
<1>2. PrivType
  BY <1>1, QueueFacts DEF PrivType, Mtus
<1>3. QueueType
  BY DEF QueueType, CqStates, RingStates, NoCq, NoRing, Mtus
<1>4. ThreadType /\ EventType
  BY DEF ThreadType, EventType
<1>5. DeviceType
  BY DEF DeviceType, Mtus
<1>6. \A q \in Queues : cq[q] = NoCq /\ ring[q] = NoRing /\ ~Open(q) /\ ~Half(q)
  BY DEF Open, NoRing, Half
<1>7. NetCounts
  BY <1>1 DEF NetCounts
<1>8. NetCqs
  BY <1>6, QueueFacts DEF NetCqs, TableLive, NoCq
<1>9. NetRings
  BY <1>6 DEF NetRings, NoCq
<1>10. NetPhases
  BY DEF NetPhases
<1>11. NetConfig
  BY DEF NetConfig
<1> QED BY <1>2, <1>3, <1>4, <1>5, <1>7, <1>8, <1>9, <1>10, <1>11 DEF NetIInv, NetType

\* A request keeps the invariant.
LEMMA RequestStep == NetIInv /\ Request => NetIInv'
<1> SUFFICES ASSUME NetIInv, Request PROVE NetIInv'
  OBVIOUS
<1>1. CASE mqnic_open
  BY <1>1, OpenStep
<1>2. CASE mqnic_close
  BY <1>2, RestartStep DEF mqnic_close, Idle
<1>3. CASE mqnic_set_ringparam
  BY <1>3, RestartStep, QuietStep DEF mqnic_set_ringparam, Idle
<1>4. CASE \E m \in MTUS : mqnic_change_mtu(m)
  BY <1>4, ChangeMtuStep
<1>5. CASE \E r \in 1..RXQ_MAX, t \in 1..TXQ_MAX : mqnic_set_channels(r, t)
  BY <1>5, SetChannelsStep
<1>6. CASE \E indir \in [0..RXQ_MAX-1 -> 0..RXQ_MAX-1] : mqnic_set_rxfh(indir)
  BY <1>6, SetRxfhStep
<1> QED BY <1>1, <1>2, <1>3, <1>4, <1>5, <1>6 DEF Request

\* Every step keeps the invariant.
LEMMA NetInductive == NetIInv /\ [NetNext]_netVars => NetIInv'
<1> SUFFICES ASSUME NetIInv, [NetNext]_netVars PROVE NetIInv'
  OBVIOUS
<1>1. CASE Request
  BY <1>1, RequestStep
<1>2. CASE Step
  BY <1>2, StartCqStep, StartNapiStep, StartRingStep, StartUpStep, StartEnableStep,
     StartLinkStep, StopTimerStep, StopLinkStep, StopDrainStep, StopNapiStep, StopRingStep,
     StopCqStep, StopDoneStep DEF Step
<1>3. CASE Interrupt
  BY <1>3, IrqLookupStep, IrqHandleStep DEF Interrupt
<1>4. CASE Napi
  BY <1>4, PollStep, PollArmStep DEF Napi
<1>5. CASE Timer
  BY <1>5, LinkTimeoutStep DEF Timer
<1>6. CASE Device
  BY <1>6, DeviceStartStep, DeviceCompleteStep DEF Device
<1>7. CASE UNCHANGED netVars
  BY <1>7, QuietStep DEF netVars
<1> QED BY <1>1, <1>2, <1>3, <1>4, <1>5, <1>6, <1>7 DEF NetNext

LEMMA NetInvariance == NetSpec => []NetIInv
BY NetInitInv, NetInductive, PTL DEF NetSpec

\* What an event queue finds for a number is the queue that has it now, and a
\* poll runs only on a queue that exists: for any number of queues and event
\* queues, any restarts and any failures.
THEOREM QueuesAreLive == NetSpec => []QueuesLive
<1>1. NetIInv => QueuesLive
  BY DEF NetIInv, NetCqs, NetRings, QueuesLive, PollSafe
<1> QED BY <1>1, NetInvariance, PTL

\* Between operations a port is up with exactly its configuration, or down and
\* empty, whichever step of mqnic_start_port has failed.
THEOREM PortIsUpOrClean == NetSpec => []UpOrClean
<1>1. ASSUME NetIInv, thread.pc = "idle", port_up
      PROVE  UpComplete
  <2>1. /\ priv.rxq_count \in 1..RXQ_MAX /\ priv.txq_count \in 1..TXQ_MAX
    BY <1>1 DEF NetIInv, NetType, PrivType
  <2>2. \A i : QueueAt(i) = At(priv.rxq_count, i)
    BY DEF QueueAt, At
  <2>3. \A q \in Queues : Open(q) <=> Configured(q)
    BY <1>1 DEF NetIInv, NetRings
  <2> DEFINE total == priv.rxq_count + priv.txq_count
  <2>4. \A i \in 0..total-1 : QueueAt(i) \in Queues /\ Configured(QueueAt(i))
    BY <2>1, <2>2, LoopFacts DEF Configured
  <2>5. \A q \in Queues : Configured(q) => \E i \in 0..total-1 : q = QueueAt(i)
    BY <2>1, <2>2, LoopFacts DEF Configured
  <2>6. {q \in Queues : Open(q)} = {QueueAt(i) : i \in 0..total-1}
    BY <2>3, <2>4, <2>5
  <2>7. \A q \in Queues : Open(q) => /\ ring[q].enabled /\ ring[q].mtu = priv.mtu
                                     /\ cq[q].enabled /\ cq[q].handler
    BY <1>1 DEF NetIInv, NetCqs, NetRings, NetConfig
  <2>8. /\ hw.mtu = priv.mtu
        /\ \A k \in 0..RXQ_MAX-1 : hw.indir[k] = ring[<<"rx", priv.indir[k]>>].index
    BY <1>1 DEF NetIInv, NetConfig
  <2>9. {q \in Queues : Open(q)} = {QueueAt(i) : i \in 0..priv.rxq_count+priv.txq_count-1}
    <3>1. total - 1 = priv.rxq_count + priv.txq_count - 1
      BY <2>1
    <3> QED BY <2>6, <3>1
  <2> QED BY ONLY <2>7, <2>8, <2>9 DEF UpComplete
<1>2. ASSUME NetIInv, thread.pc = "idle", ~port_up
      PROVE  StoppedClean
  <2>1. \A q \in Queues : ~Open(q) /\ ring[q] = NoRing /\ ~cq[q].enabled
    BY <1>2 DEF NetIInv, NetRings, NetCqs, Half
  <2>2. \A q \in Queues : cq[q] = NoCq
    BY <1>2, <2>1 DEF NetIInv, NetCqs
  <2>3. \A e \in EQs, n \in Cqns : cq_table[e][n] \in Queues \cup {NoQueue}
    BY <1>2 DEF NetIInv, NetType, EventType
  <2>4. \A e \in EQs, n \in Cqns : cq_table[e][n] = NoQueue
    BY <1>2, <2>1, <2>3 DEF NetIInv, NetCqs, TableLive
  <2>5. ~timer /\ ~carrier /\ inflight = {} /\ pending = {}
    BY <1>2, <2>1 DEF NetIInv, NetPhases, NetType, DeviceType
  <2> QED BY <2>1, <2>2, <2>4, <2>5 DEF StoppedClean
<1>3. NetIInv => UpOrClean
  BY <1>1, <1>2 DEF UpOrClean, UpComplete, StoppedClean
<1> QED BY <1>3, NetInvariance, PTL

-----------------------------------------------------------------------------
(* No completion is left unnoticed. *)

\* A step that leaves completion queues, events and records alone.
LEMMA ArmedStill ==
    ASSUME NetArmed, UNCHANGED <<cq, events, irq, pending, eq_open>>,
           \A q \in Queues : Open(q)' => Open(q),
           thread'.pc # "start_ring" \/ UNCHANGED <<thread, priv>>,
           \/ \A q \in Queues : ~Open(q)
           \/ thread'.pc \notin Starting /\ ~(thread'.pc = "idle" /\ port_up')
           \/ thread.pc \in Starting \/ (thread.pc = "idle" /\ port_up)
    PROVE  NetArmed'
BY DEF NetArmed, Noticed, Current

\* While the port is being stopped only the first half of the invariant says anything.
LEMMA ArmedStopping ==
    ASSUME thread'.pc \in Stopping, eq_open' = EQs,
           \A q \in Queues : cq'[q].armed => q \notin pending' /\ cq'[q].enabled
    PROVE  NetArmed'
BY PhaseFacts DEF NetArmed

\* The event queue takes what it is sent.
LEMMA PostFacts ==
    ASSUME NetType, eq_open = EQs, NEW q \in Queues
    PROVE  /\ cq[q].cqn \in Post(q)[EqOf(q)]
           /\ \A e \in EQs : events[e] \subseteq Post(q)[e]
BY QueueFacts DEF NetType, EventType, Post

\* A request changes nothing that is noticed.
LEMMA ArmedRequest ==
    ASSUME NetIInv, NetArmed, Request
    PROVE  NetArmed'
<1>1. /\ thread.pc = "idle" /\ UNCHANGED <<cq, events, irq, pending, eq_open, ring, port_up>>
      /\ thread' = thread \/ thread'.pc = "stop_timer" \/ (~priv.running /\ thread'.pc = "start_cq")
  <2>1. CASE mqnic_open \/ mqnic_close \/ mqnic_set_ringparam
    BY <2>1 DEF mqnic_open, mqnic_close, mqnic_set_ringparam, Idle, Begin
  <2>2. CASE \E m \in MTUS : mqnic_change_mtu(m)
    BY <2>2 DEF mqnic_change_mtu, Idle, Begin
  <2>3. CASE \E r \in 1..RXQ_MAX, t \in 1..TXQ_MAX : mqnic_set_channels(r, t)
    BY <2>3 DEF mqnic_set_channels, Idle
  <2>4. CASE \E indir \in [0..RXQ_MAX-1 -> 0..RXQ_MAX-1] : mqnic_set_rxfh(indir)
    BY <2>4 DEF mqnic_set_rxfh, Idle
  <2> QED BY <2>1, <2>2, <2>3, <2>4 DEF Request
<1>2. \A q \in Queues : Open(q)' => Open(q)
  BY <1>1 DEF Open
<1>3. ~port_up => \A q \in Queues : ~Open(q)
  BY <1>1 DEF NetIInv, NetRings
<1>4. ~priv.running => ~port_up
  BY <1>1 DEF NetIInv, NetPhases
<1> QED BY <1>1, <1>2, <1>3, <1>4, ArmedStill, PhaseFacts

\* A new queue is not armed before its NAPI context is enabled.
LEMMA ArmedStartCq ==
    ASSUME NetIInv, NetArmed, StartCq, "cq_buf" \notin Faults
    PROVE  NetArmed'
<1>0. PICK q : q = Current
  OBVIOUS
<1>1. /\ thread.pc = "start_cq" /\ UNCHANGED <<ring, events, irq, priv, eq_open>>
      /\ \/ Fail /\ UNCHANGED <<cq, pending>>
         \/ /\ \E n : cq' = [cq EXCEPT ![q] = [NoCq EXCEPT !.cqn = n, !.enabled = TRUE]]
            /\ pending' = pending \ {q}
            /\ thread' = [thread EXCEPT !.pc = "start_napi"]
  BY <1>0, CurrentIs DEF StartCq, Goto
<1>2. q \in Queues /\ ~Open(q)
  BY <1>0, <1>1, CurrentFacts, PhaseFacts
<1>3. CASE Fail /\ UNCHANGED <<cq, pending>>
  <2>1. thread'.pc = "stop_timer"
    BY <1>3 DEF NetIInv, NetType, ThreadType, Fail
  <2> QED BY <1>1, <1>3, <2>1, ArmedStopping, PhaseFacts DEF NetArmed
<1>4. CASE /\ \E n : cq' = [cq EXCEPT ![q] = [NoCq EXCEPT !.cqn = n, !.enabled = TRUE]]
           /\ pending' = pending \ {q}
           /\ thread' = [thread EXCEPT !.pc = "start_napi"]
  <2>1. thread'.pc = "start_napi"
    BY <1>4 DEF NetIInv, NetType, ThreadType
  <2>2. \A p \in Queues : /\ p # q => cq'[p] = cq[p]
                          /\ ~cq'[q].armed
    BY <1>2, <1>4 DEF NetIInv, NetType, QueueType, NoCq
  <2>3. \A p \in Queues : Open(p)' <=> Open(p)
    BY <1>1 DEF Open
  <2> QED BY <1>1, <1>2, <1>4, <2>1, <2>2, <2>3, PhaseFacts DEF NetArmed, Noticed
<1> QED BY <1>1, <1>3, <1>4

\* The first mqnic_arm_cq finds no record and arms the queue.
LEMMA ArmedStartNapi ==
    ASSUME NetIInv, NetArmed, StartNapi
    PROVE  NetArmed'
<1>0. PICK q : q = Current
  OBVIOUS
<1> DEFINE c == [cq[q] EXCEPT !.napi = "idle"]
<1>1. /\ thread.pc = "start_napi" /\ ArmCq(q, c)
      /\ thread' = [thread EXCEPT !.pc = "start_ring"]
      /\ UNCHANGED <<priv, ring, eq_open, irq, pending>>
  BY <1>0, CurrentIs DEF StartNapi, Goto
<1>2. q \in Queues /\ ~Open(q) /\ cq[q].enabled /\ cq[q].cqn # NoneIdx /\ pending = {}
  <2>1. q \in Queues /\ ~Open(q) /\ Half(q)
    BY <1>0, <1>1, CurrentFacts, PhaseFacts DEF Half
  <2> QED BY <1>1, <2>1, PhaseFacts DEF NetIInv, NetCqs, NetPhases, NoCq
<1>3. c \in CqStates /\ c.enabled = cq[q].enabled /\ c.napi = "idle"
  BY <1>2 DEF NetIInv, NetType, QueueType, CqStates
<1> HIDE DEF c
<1>4. /\ \A p \in Queues : p # q => cq'[p] = cq[p]
      /\ cq'[q].enabled /\ cq'[q].armed /\ cq'[q].napi = "idle"
  BY <1>1, <1>2, <1>3, ArmFacts DEF NetIInv
<1>5. events' = events
  BY <1>1, <1>2 DEF ArmCq
<1>6. thread'.pc = "start_ring" /\ thread'.i = thread.i
  BY <1>1 DEF NetIInv, NetType, ThreadType
<1>7. Current' = q
  BY <1>0, <1>1, <1>6 DEF Current
<1>8. \A p \in Queues : Open(p)' <=> Open(p)
  BY <1>1 DEF Open
<1>9. \A p \in Queues : Open(p)' => /\ cq'[p].napi \in {"idle", "sched"}
                                    /\ cq'[p].armed \/ Noticed(p)'
  BY <1>1, <1>2, <1>4, <1>5, <1>8, PhaseFacts DEF NetArmed, Noticed
<1>10. \A p \in Queues : cq'[p].armed => p \notin pending' /\ cq'[p].enabled
  BY <1>1, <1>2, <1>4 DEF NetArmed
<1> QED BY <1>1, <1>4, <1>6, <1>7, <1>9, <1>10 DEF NetArmed

\* The queue is armed when its handler is installed, and no record came before.
LEMMA ArmedStartRing ==
    ASSUME NetIInv, NetArmed, StartRing
    PROVE  NetArmed'
<1>0. PICK q : q = Current
  OBVIOUS
<1>1. /\ thread.pc = "start_ring" /\ UNCHANGED <<eq_open, events, pending>>
      /\ \/ cq' = [cq EXCEPT ![q] = NoCq] /\ Fail
         \/ /\ \E new : ring' = [ring EXCEPT ![q] = new]
            /\ cq' = [cq EXCEPT ![q].handler = TRUE]
            /\ \/ thread' = [thread EXCEPT !.pc = "start_up"]
               \/ thread' = [thread EXCEPT !.pc = "start_cq", !.i = @ + 1]
            /\ UNCHANGED irq
  BY <1>0, CurrentIs DEF StartRing
<1>2. q \in Queues /\ ~Open(q) /\ cq[q].armed /\ cq[q].napi = "idle"
  BY <1>0, <1>1, CurrentFacts, PhaseFacts DEF NetArmed
<1>3. CASE cq' = [cq EXCEPT ![q] = NoCq] /\ Fail
  <2>1. thread'.pc = "stop_timer"
    BY <1>3 DEF NetIInv, NetType, ThreadType, Fail
  <2>2. \A p \in Queues : cq'[p] = cq[p] \/ ~cq'[p].armed
    BY <1>2, <1>3 DEF NetIInv, NetType, QueueType, NoCq
  <2> QED BY <1>1, <1>3, <2>1, <2>2, ArmedStopping, PhaseFacts DEF NetArmed
<1>4. CASE /\ \E new : ring' = [ring EXCEPT ![q] = new]
           /\ cq' = [cq EXCEPT ![q].handler = TRUE]
           /\ \/ thread' = [thread EXCEPT !.pc = "start_up"]
              \/ thread' = [thread EXCEPT !.pc = "start_cq", !.i = @ + 1]
           /\ UNCHANGED irq
  <2>1. thread'.pc \in {"start_up", "start_cq"}
    BY <1>4 DEF NetIInv, NetType, ThreadType
  <2>2. /\ \A p \in Queues : p # q => cq'[p] = cq[p]
        /\ cq'[q].armed = cq[q].armed /\ cq'[q].napi = cq[q].napi
        /\ cq'[q].enabled = cq[q].enabled
    BY <1>2, <1>4 DEF NetIInv, NetType, QueueType, CqStates
  <2>3. \A p \in Queues : p # q => (Open(p)' <=> Open(p))
    BY <1>2, <1>4 DEF NetIInv, NetType, QueueType, Open
  <2>4. \A p \in Queues : Open(p)' => /\ cq'[p].napi \in {"idle", "sched"}
                                      /\ cq'[p].armed \/ Noticed(p)'
    BY <1>1, <1>2, <1>4, <2>2, <2>3, PhaseFacts DEF NetArmed, Noticed
  <2>5. \A p \in Queues : cq'[p].armed => p \notin pending' /\ cq'[p].enabled
    BY <1>1, <2>2 DEF NetArmed
  <2> QED BY <1>1, <2>1, <2>4, <2>5 DEF NetArmed
<1> QED BY <1>1, <1>3, <1>4

\* The other steps of the thread.
LEMMA ArmedStep ==
    ASSUME NetIInv, NetArmed, Step, "cq_buf" \notin Faults
    PROVE  NetArmed'
<1>1. CASE StartCq \/ StartNapi \/ StartRing
  BY <1>1, ArmedStartCq, ArmedStartNapi, ArmedStartRing
<1>2. CASE StartUp \/ StartEnable \/ StartLink
  <2>1. /\ thread.pc \in Starting /\ UNCHANGED <<cq, events, irq, pending, eq_open>>
        /\ thread'.pc # "start_ring"
    <3>1. CASE StartUp
      BY <3>1, PhaseFacts DEF StartUp, Goto, NetIInv, NetType, ThreadType
    <3>2. CASE StartEnable
      BY <3>2, PhaseFacts DEF StartEnable, Goto, NetIInv, NetType, ThreadType
    <3>3. CASE StartLink
      BY <3>3, PhaseFacts DEF StartLink, Begin
    <3> QED BY <1>2, <3>1, <3>2, <3>3
  <2>2. \A q \in Queues : Open(q)' => Open(q)
    BY <1>2 DEF StartUp, StartEnable, StartLink, Open, NetIInv, NetType, QueueType, RingStates
  <2> QED BY <2>1, <2>2, ArmedStill
<1>3. CASE StopTimer \/ StopLink \/ StopDrain
  <2>1. /\ thread'.pc \in Stopping /\ UNCHANGED <<cq, pending, eq_open>>
    BY <1>3, PhaseFacts DEF StopTimer, StopLink, StopDrain, Goto, NetIInv, NetType, ThreadType
  <2> QED BY <2>1, ArmedStopping DEF NetArmed
<1>4. CASE StopNapi \/ StopRing
  <2> DEFINE q == StopNext
  <2>1. /\ thread'.pc \in Stopping /\ UNCHANGED <<pending, eq_open>>
        /\ \/ cq' = cq
           \/ cq' = [cq EXCEPT ![q].napi = IF @ = "idle" THEN "off" ELSE "disabling"]
           \/ cq' = [cq EXCEPT ![q].napi = "none", ![q].handler = FALSE]
    BY <1>4, PhaseFacts DEF StopNapi, StopRing, Goto, NetIInv, NetType, ThreadType
  <2> HIDE DEF q
  <2>2. \A p \in Queues : cq'[p].armed = cq[p].armed /\ cq'[p].enabled = cq[p].enabled
    BY <2>1 DEF NetIInv, NetType, QueueType, CqStates
  <2> QED BY <2>1, <2>2, ArmedStopping DEF NetArmed
<1>5. CASE StopCq
  <2> DEFINE q == QueueAt(thread.i)
  <2>1. /\ thread'.pc \in Stopping /\ UNCHANGED eq_open /\ pending' = pending \ {q}
        /\ cq' = [cq EXCEPT ![q] = NoCq]
    BY <1>5, PhaseFacts DEF StopCq, Goto, NetIInv, NetType, ThreadType
  <2> HIDE DEF q
  <2>2. \A p \in Queues : cq'[p] = cq[p] \/ ~cq'[p].armed
    BY <2>1 DEF NetIInv, NetType, QueueType, NoCq
  <2> QED BY <2>1, <2>2, ArmedStopping DEF NetArmed
<1>6. CASE StopDone
  <2>1. /\ \A q \in Queues : ~Open(q)
        /\ UNCHANGED <<ring, cq, events, irq, pending, eq_open>>
    BY <1>6 DEF StopDone
  <2>2. thread.then \in {"restart", "close", "done", "resize"}
    BY <1>6, PhaseFacts DEF StopDone, NetIInv, NetType, ThreadType, NetCounts
  <2>3. thread'.pc \in {"start_cq", "idle"}
    <3>1. CASE thread.then = "restart"
      BY <1>6, <3>1 DEF StopDone, Begin
    <3>2. CASE thread.then = "close"
      BY <1>6, <3>2 DEF StopDone, Begin
    <3>3. CASE thread.then = "done"
      BY <1>6, <3>3 DEF StopDone, Begin
    <3>4. CASE thread.then = "resize"
      BY <1>6, <3>4 DEF StopDone, Begin
    <3> QED BY <2>2, <3>1, <3>2, <3>3, <3>4
  <2>4. \A q \in Queues : Open(q)' => Open(q)
    BY <2>1 DEF Open
  <2> QED BY <2>1, <2>3, <2>4, ArmedStill
<1> QED BY <1>1, <1>2, <1>3, <1>4, <1>5, <1>6 DEF Step

\* An event is dispatched to the queue it came from: TableLive.
LEMMA ArmedIrqLookup ==
    ASSUME NetIInv, NetArmed, NEW e \in EQs, IrqLookup(e)
    PROVE  NetArmed'
<1>1. PICK n \in events[e] : /\ events' = [events EXCEPT ![e] = @ \ {n}]
                             /\ irq' = [irq EXCEPT ![e] = cq_table[e][n]]
  BY DEF IrqLookup
<1>2. /\ irq[e] = NoQueue
      /\ UNCHANGED <<priv, port_up, thread, cq, ring, eq_open, pending>>
  BY DEF IrqLookup
<1>3. /\ irq \in [EQs -> Queues \cup {NoQueue, Dangling}]
      /\ events \in [EQs -> SUBSET Cqns] /\ n \in Cqns
  BY <1>1 DEF NetIInv, NetType, EventType
<1>4. ASSUME NEW q \in Queues, Open(q), Noticed(q)
      PROVE  Noticed(q)'
  <2>1. CASE cq[q].cqn = n /\ EqOf(q) = e
    <3>1. cq[q].enabled
      BY <1>4 DEF NetIInv, NetCqs
    <3>2. cq_table[e][n] = q
      BY <1>3, <2>1, <3>1 DEF NetIInv, NetCqs, TableLive
    <3>3. irq'[e] = q
      BY <1>1, <1>3, <3>2
    <3> QED BY <2>1, <3>3 DEF Noticed
  <2>2. CASE EqOf(q) = e /\ cq[q].cqn # n
    <3>1. irq[EqOf(q)] # q
      BY <1>2, <2>2, QueueFacts
    <3>2. cq[q].cqn \in events[EqOf(q)] => cq[q].cqn \in events'[EqOf(q)]
      BY <1>1, <1>3, <2>2
    <3> QED BY <1>2, <1>4, <3>1, <3>2 DEF Noticed
  <2>3. CASE EqOf(q) # e
    <3>1. events'[EqOf(q)] = events[EqOf(q)] /\ irq'[EqOf(q)] = irq[EqOf(q)]
      BY <1>1, <1>3, <2>3, QueueFacts
    <3> QED BY <1>2, <1>4, <3>1 DEF Noticed
  <2> QED BY <2>1, <2>2, <2>3
<1> QED BY <1>2, <1>4 DEF NetArmed, Open, Current

\* The handler schedules the queue, unless it is scheduled already.
LEMMA ArmedIrqHandle ==
    ASSUME NetIInv, NetArmed, NEW e \in EQs, IrqHandle(e)
    PROVE  NetArmed'
<1> DEFINE fires == irq[e] # Dangling /\ cq[irq[e]].handler /\ cq[irq[e]].napi = "idle"
<1>1. /\ irq' = [irq EXCEPT ![e] = NoQueue] /\ irq[e] # NoQueue
      /\ cq' = IF fires THEN [cq EXCEPT ![irq[e]].napi = "sched"] ELSE cq
      /\ UNCHANGED <<priv, port_up, thread, ring, eq_open, events, pending>>
  BY DEF IrqHandle
<1>2. /\ irq \in [EQs -> Queues \cup {NoQueue, Dangling}] /\ cq \in [Queues -> CqStates]
  BY DEF NetIInv, NetType, EventType, QueueType
<1>3. \A q \in Queues :
        /\ cq'[q].armed = cq[q].armed /\ cq'[q].enabled = cq[q].enabled
        /\ cq'[q].cqn = cq[q].cqn /\ cq'[q].tail = cq[q].tail
        /\ cq'[q].napi = IF fires /\ q = irq[e] THEN "sched" ELSE cq[q].napi
  BY <1>1, <1>2 DEF CqStates
<1>4. ASSUME NEW q \in Queues, Open(q), Noticed(q), cq[q].napi \in {"idle", "sched"}
      PROVE  Noticed(q)'
  <2>1. cq[q].handler
    BY <1>4 DEF NetIInv, NetRings
  <2>2. irq[e] = q => cq'[q].napi = "sched"
    BY <1>3, <1>4, <2>1, QueueFacts
  <2>3. irq[EqOf(q)] = q /\ irq[e] # q => irq'[EqOf(q)] = q
    BY <1>1, <1>2, QueueFacts
  <2>4. cq[q].napi = "sched" => cq'[q].napi = "sched"
    BY <1>3
  <2> QED BY <1>1, <1>3, <1>4, <2>2, <2>3, <2>4 DEF Noticed
<1>5. thread.pc = "start_ring" => ~cq[Current].handler /\ Current \in Queues
  BY CurrentFacts, PhaseFacts DEF NetIInv, NetRings
<1>6. thread.pc = "start_ring" => cq'[Current].napi = cq[Current].napi
  BY <1>3, <1>5
<1>7. Current' = Current
  BY <1>1 DEF Current
<1> HIDE DEF fires
<1>8. \A q \in Queues : Open(q)' <=> Open(q)
  BY <1>1 DEF Open
<1>9. thread.pc \in Starting \/ (thread.pc = "idle" /\ port_up) =>
        \A q \in Queues : Open(q) => /\ cq'[q].napi \in {"idle", "sched"}
                                     /\ cq'[q].armed \/ Noticed(q)'
  BY <1>3, <1>4 DEF NetArmed
<1>10. thread.pc = "start_ring" => cq'[Current].armed /\ cq'[Current].napi = "idle"
  BY <1>3, <1>5, <1>6 DEF NetArmed
<1> QED BY <1>1, <1>3, <1>7, <1>8, <1>9, <1>10 DEF NetArmed

\* A step on one open queue, after which that queue is noticed or armed.
LEMMA ArmedOneQueue ==
    ASSUME NetIInv, NetArmed, NEW q \in Queues, Open(q), Noticed(q)' \/ cq'[q].armed,
           cq[q].napi \in {"idle", "sched"} => cq'[q].napi \in {"idle", "sched"},
           cq'[q].armed => q \notin pending' /\ cq'[q].enabled,
           \A p \in Queues : p # q => cq'[p] = cq[p] /\ (p \in pending' <=> p \in pending),
           \A e \in EQs : events[e] \subseteq events'[e],
           UNCHANGED <<priv, port_up, thread, ring, eq_open, irq>>
    PROVE  NetArmed'
<1>1. \A p \in Queues : Open(p)' <=> Open(p)
  BY DEF Open
<1>2. \A p \in Queues : p # q /\ Noticed(p) => Noticed(p)'
  BY QueueFacts DEF Noticed
<1>3. thread.pc = "start_ring" => Current \in Queues /\ Current # q
  BY CurrentFacts, PhaseFacts
<1>4. Current' = Current
  BY DEF Current
<1>5. thread.pc = "start_ring" => cq'[Current] = cq[Current]
  BY <1>3
<1>6. thread.pc \in Starting \/ (thread.pc = "idle" /\ port_up) =>
        \A p \in Queues : Open(p) => /\ cq'[p].napi \in {"idle", "sched"}
                                     /\ cq'[p].armed \/ Noticed(p)'
  BY <1>2 DEF NetArmed
<1>7. \A p \in Queues : cq'[p].armed => p \notin pending' /\ cq'[p].enabled
  BY DEF NetArmed
<1> QED BY <1>1, <1>4, <1>5, <1>6, <1>7 DEF NetArmed

\* napi_complete comes before the queue is armed: the poll function is still there.
LEMMA ArmedPoll ==
    ASSUME NetIInv, NetArmed, NEW q \in Queues, Poll(q)
    PROVE  NetArmed'
<1>1. /\ cq' = [cq EXCEPT ![q].napi = IF @ = "sched" THEN "idle" ELSE "off",
                          ![q].tail = TRUE]
      /\ cq[q].napi \in {"sched", "disabling"}
      /\ pending' = IF port_up THEN pending \ {q} ELSE pending
      /\ UNCHANGED <<priv, port_up, thread, ring, eq_open, events, irq>>
  BY DEF Poll
<1>2. Open(q)
  BY <1>1 DEF NetIInv, NetRings
<1>3. /\ \A p \in Queues : p # q => cq'[p] = cq[p]
      /\ cq'[q].enabled = cq[q].enabled /\ cq'[q].armed = cq[q].armed /\ cq'[q].tail
      /\ cq[q].napi = "sched" => cq'[q].napi = "idle"
  BY <1>1 DEF NetIInv, NetType, QueueType, CqStates
<1>4. cq'[q].armed => q \notin pending' /\ cq'[q].enabled
  BY <1>1, <1>3 DEF NetArmed
<1>5. Noticed(q)'
  BY <1>3 DEF Noticed
<1> QED BY <1>1, <1>2, <1>3, <1>4, <1>5, ArmedOneQueue

\* Arming a queue that holds a record raises its event at once.
LEMMA ArmedPollArm ==
    ASSUME NetIInv, NetArmed, NEW q \in Queues, PollArm(q)
    PROVE  NetArmed'
<1> DEFINE c == [cq[q] EXCEPT !.tail = FALSE]
<1>1. /\ ArmCq(q, c) /\ cq[q].tail
      /\ UNCHANGED <<priv, port_up, thread, ring, eq_open, irq, pending>>
  BY DEF PollArm
<1>2. Open(q) /\ cq[q].enabled /\ cq[q].cqn # NoneIdx
  BY <1>1 DEF NetIInv, NetRings, NetCqs, NoCq
<1>3. /\ c \in CqStates /\ c.cqn = cq[q].cqn /\ c.enabled = cq[q].enabled
      /\ c.napi = cq[q].napi
  BY DEF NetIInv, NetType, QueueType, CqStates
<1> HIDE DEF c
<1>4. /\ \A p \in Queues : p # q => cq'[p] = cq[p]
      /\ cq'[q].cqn = cq[q].cqn /\ cq'[q].enabled /\ cq'[q].napi = cq[q].napi
      /\ cq'[q].armed <=> q \notin pending
  BY <1>1, <1>2, <1>3, ArmFacts DEF NetIInv
<1>5. events' = IF q \in pending THEN Post(q) ELSE events
  BY <1>1, <1>2, <1>3 DEF ArmCq
<1>6. /\ q \in pending => cq[q].cqn \in events'[EqOf(q)]
      /\ \A e \in EQs : events[e] \subseteq events'[e]
  BY <1>5, PostFacts DEF NetIInv, NetArmed
<1>7. Noticed(q)' \/ cq'[q].armed
  BY <1>4, <1>6 DEF Noticed
<1> QED BY <1>1, <1>2, <1>4, <1>6, <1>7, ArmedOneQueue

\* A record that finds its queue armed raises the event.
LEMMA ArmedDeviceComplete ==
    ASSUME NetIInv, NetArmed, NEW q \in Queues, DeviceComplete(q)
    PROVE  NetArmed'
<1>1. /\ q \in inflight
      /\ pending' = IF cq[q].enabled THEN pending \cup {q} ELSE pending
      /\ events' = IF cq[q].armed THEN Post(q) ELSE events
      /\ cq' = [cq EXCEPT ![q].armed = FALSE]
      /\ UNCHANGED <<priv, port_up, thread, ring, eq_open, irq>>
  BY DEF DeviceComplete
<1>2. /\ \A p \in Queues : p # q => cq'[p] = cq[p]
      /\ cq'[q].cqn = cq[q].cqn /\ ~cq'[q].armed /\ cq'[q].napi = cq[q].napi
      /\ cq'[q].tail = cq[q].tail
  BY <1>1 DEF NetIInv, NetType, QueueType, CqStates
<1>3. /\ cq[q].armed => cq[q].cqn \in events'[EqOf(q)]
      /\ \A e \in EQs : events[e] \subseteq events'[e]
  BY <1>1, PostFacts DEF NetIInv, NetArmed
<1>4. CASE thread.pc \in Stopping
  BY <1>1, <1>2, <1>4, ArmedStopping DEF NetArmed
<1>5. CASE thread.pc \notin Stopping
  <2>1. thread.pc = "start_link" \/ (thread.pc = "idle" /\ port_up)
    BY <1>1, <1>5, PhaseFacts DEF NetIInv, NetPhases, NetType, ThreadType
  <2>2. CASE Open(q)
    <3>1. cq[q].armed \/ Noticed(q)
      BY <2>1, <2>2, PhaseFacts DEF NetArmed
    <3>2. Noticed(q)'
      BY <1>1, <1>2, <1>3, <3>1, QueueFacts DEF Noticed
    <3> QED BY <1>1, <1>2, <1>3, <2>2, <3>2, ArmedOneQueue
  <2>3. CASE ~Open(q)
    <3>1. ~cq[q].enabled
      BY <2>1, <2>3 DEF NetIInv, NetCqs, Half
    <3>2. \A p \in Queues : (Open(p)' <=> Open(p)) /\ (Noticed(p) /\ p # q => Noticed(p)')
      BY <1>1, <1>2, <1>3, QueueFacts DEF Open, Noticed
    <3>3. \A p \in Queues : Open(p) => p # q
      BY <2>3
    <3> QED BY <1>1, <1>2, <2>1, <3>1, <3>2, <3>3, PhaseFacts DEF NetArmed
  <2> QED BY <2>2, <2>3
<1> QED BY <1>4, <1>5

\* Every step keeps the events, provided no completion queue buffer allocation
\* fails: that closes the event queue other queues are attached to.
LEMMA ArmedInductive ==
    ASSUME "cq_buf" \notin Faults
    PROVE  NetIInv /\ NetArmed /\ [NetNext]_netVars => NetArmed'
<1> SUFFICES ASSUME NetIInv, NetArmed, [NetNext]_netVars PROVE NetArmed'
  OBVIOUS
<1>1. CASE Request
  BY <1>1, ArmedRequest
<1>2. CASE Step
  BY <1>2, ArmedStep
<1>3. CASE Interrupt
  BY <1>3, ArmedIrqLookup, ArmedIrqHandle DEF Interrupt
<1>4. CASE Napi
  BY <1>4, ArmedPoll, ArmedPollArm DEF Napi
<1>5. CASE Timer \/ (\E q \in Queues : DeviceStart(q)) \/ UNCHANGED netVars
  <2>1. UNCHANGED <<priv, port_up, thread, cq, ring, eq_open, events, irq, pending>>
    BY <1>5 DEF Timer, LinkTimeout, DeviceStart, netVars
  <2> QED BY <2>1 DEF NetArmed, Noticed, Open, Current
<1>6. CASE \E q \in Queues : DeviceComplete(q)
  BY <1>6, ArmedDeviceComplete
<1> QED BY <1>1, <1>2, <1>3, <1>4, <1>5, <1>6 DEF NetNext, Device

\* A completion never waits unnoticed on a port that is up, when no completion
\* queue buffer allocation fails (mqnic_open_cq then closes the event queue).
THEOREM NothingStalls ==
    ASSUME "cq_buf" \notin Faults
    PROVE  NetSpec => []NoStall
<1>1. NetInit => NetArmed
  BY PhaseFacts DEF NetInit, NetArmed, NoCq
<1>2. NetSpec => [](NetIInv /\ NetArmed)
  BY <1>1, NetInitInv, NetInductive, ArmedInductive, PTL DEF NetSpec
<1>3. NetIInv /\ NetArmed => NoStall
  <2> SUFFICES ASSUME NetIInv, NetArmed, NEW q \in Queues, port_up, thread.pc = "idle",
                      q \in pending
               PROVE  Noticed(q)
    BY DEF NoStall, Noticed
  <2>1. Open(q)
    BY DEF NetIInv, NetPhases, NetCqs, Half
  <2> QED BY <2>1 DEF NetArmed
<1> QED BY <1>2, <1>3, PTL
============================================================================
