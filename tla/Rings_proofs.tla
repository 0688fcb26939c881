---------------------------- MODULE Rings_proofs ----------------------------
(***************************************************************************)
(* Theorems about TxRing and RxRing, for every ring size and every number  *)
(* of laps (at least two) after which the pointers wrap.                   *)
(* At the end, the clock that stamps their completions.                    *)
(***************************************************************************)
EXTENDS TxRing, RxRing, PtpClock, PointerTheorems, TLAPS

-----------------------------------------------------------------------------
(* The transmit ring.                                                      *)

\* The sizes: the pointers wrap after two laps or more, and a ring counts as
\* full while there is room for one more packet.
LEMMA TxSizes ==
    /\ RING_SIZE \in Nat \ {0, 1}
    /\ PtrMod \in Nat /\ PtrMod >= 2 * RING_SIZE
    /\ FullSize \in Nat \ {0} /\ FullSize + 1 <= RING_SIZE
    /\ FullSize + 3 <= PtrMod
    /\ 0 \in Ptrs
<1>1. PtrMod \in Nat /\ PtrMod >= 2 * RING_SIZE
  BY TxRingAssumption DEF PtrMod
<1> QED BY <1>1, TxRingAssumption DEF FullSize, Ptrs

\* Distances, slots and steps of transmit ring pointers.
LEMMA TxDist ==
    ASSUME NEW a \in Ptrs, NEW b \in Ptrs
    PROVE  /\ Dist(a, b) \in Nat /\ Dist(a, b) < PtrMod
           /\ Dist(a, b) = 0 <=> a = b
           /\ Inc(a) \in Ptrs /\ Slot(a) \in Slots
           /\ Dist(a, b) + 1 < PtrMod => Dist(a, Inc(b)) = Dist(a, b) + 1
           /\ Dist(a, b) < RING_SIZE /\ Slot(a) = Slot(b) => a = b
<1>1. /\ PtrMod \in Nat \ {0} /\ Ptrs = 0 .. PtrMod - 1 /\ RING_SIZE \in Nat \ {0}
      /\ LAPS \in Nat \ {0} /\ a \in Int
  BY TxSizes, TxRingAssumption DEF Ptrs
<1>2. Dist(a, b) \in Nat /\ Dist(a, b) < PtrMod /\ (Dist(a, b) = 0 <=> a = b)
  BY <1>1, AheadRange DEF Dist, Ahead
<1>3. Inc(a) \in Ptrs /\ Slot(a) \in Slots
  BY <1>1, Remainder DEF Inc, Slot, Slots
<1>4. Dist(a, b) + 1 < PtrMod => Dist(a, Inc(b)) = Dist(a, b) + 1
  BY <1>1, AheadNext DEF Dist, Ahead, Inc
<1>5. Dist(a, b) < RING_SIZE /\ Slot(a) = Slot(b) => a = b
  BY <1>1, SlotsApart DEF Dist, Ahead, Slot, PtrMod
<1> QED BY <1>2, <1>3, <1>4, <1>5

\* Distances between three transmit ring pointers.
LEMMA TxDistSplit ==
    ASSUME NEW a \in Ptrs, NEW b \in Ptrs, NEW c \in Ptrs
    PROVE  /\ Dist(a, b) <= Dist(a, c) => Dist(b, c) = Dist(a, c) - Dist(a, b)
           /\ Dist(a, b) + Dist(b, c) < PtrMod => Dist(a, c) = Dist(a, b) + Dist(b, c)
           /\ Dist(a, b) = Dist(a, c) => b = c
<1>1. PtrMod \in Nat \ {0} /\ Ptrs = 0 .. PtrMod - 1
  BY TxSizes DEF Ptrs
<1> QED BY <1>1, AheadSplit, SMTT(20) DEF Dist, Ahead

-----------------------------------------------------------------------------
(* The inductive invariant of the transmit ring.  Offsets are counted from *)
(* cons_ptr as it is in memory, the oldest pointer anybody still acts on.  *)

TxType ==
    /\ port \in {"up", "stopping", "down", "closed"}
    /\ prod_ptr \in Ptrs /\ cons_ptr \in Ptrs
    /\ doorbell \in Ptrs /\ completed \in Ptrs /\ reaped \in Ptrs
    /\ store = {} \/ \E c \in Ptrs : store = {c}
    /\ tx_info \in [Slots -> Ptrs \cup {NONE}]
    /\ stopped \in BOOLEAN
    /\ xmit \in [pc : {"idle", "full", "stop", "ring", "recheck", "wake"},
                 more : BOOLEAN, stop : BOOLEAN]
    /\ napi \in [pc : {"idle", "cpl", "ring", "stopped", "full", "wake"},
                 done : BOOLEAN, ring : Ptrs]

Off(p) == Dist(cons_ptr, p)

\* The pointers of an open ring follow each other: consumer, reaped, completed,
\* doorbell, producer; and the loop over the ring stays behind what is reaped.
TxOrder ==
    port # "closed" =>
        /\ Off(NapiCons) <= Off(reaped)
        /\ Off(reaped) <= Off(completed)
        /\ Off(completed) <= Off(doorbell)
        /\ Off(doorbell) <= Off(prod_ptr)
        /\ napi.pc = "ring" => store = {} /\ Off(napi.ring) <= Off(reaped)

\* What start_xmit counts in the ring, what NAPI counts, and when the stack may
\* call start_xmit without the queue being woken first.
Seen  == Off(prod_ptr)
Held  == Dist(NapiCons, prod_ptr)
Ready == xmit.pc \in {"idle", "ring", "recheck"} /\ ~stopped

\* A wake-up of NAPI may be stale, and comes at most once for every store to
\* cons_ptr: the ring exceeds its limit by one packet, or by two as long as that
\* store is not visible.
TxBound ==
    port # "closed" =>
        /\ Held <= FullSize + 1
        /\ Seen <= FullSize + 2
        /\ Ready => Held <= FullSize /\ Seen <= FullSize + 1
        /\ napi.pc = "wake" => Held <= FullSize /\ (Ready => Held < FullSize)
        /\ napi.pc \in {"stopped", "full", "wake"} =>
               Seen <= FullSize + 1 /\ (Ready => Seen <= FullSize)
        /\ xmit.pc = "wake" => Seen < FullSize

\* Every skb of an open ring is in its own slot, between the reaped and the
\* producer pointer.
TxOwned ==
    port # "closed" =>
        \A s \in Slots : tx_info[s] # NONE =>
            /\ Slot(tx_info[s]) = s
            /\ Dist(reaped, tx_info[s]) < Dist(reaped, prod_ptr)

TxClosed ==
    port = "closed" => xmit.pc = "idle" /\ napi.pc = "idle" /\ store = {}

TxSlots == TxOwned /\ CompletionsMatch /\ NothingLeaked

TxIInv == TxType /\ TxOrder /\ TxBound /\ TxSlots /\ TxClosed

\* What NAPI reads from cons_ptr is the one buffered store, or memory.
LEMMA NapiConsValue ==
    /\ store = {} => NapiCons = cons_ptr
    /\ \A c : store = {c} => NapiCons = c
    /\ TxType => NapiCons \in Ptrs
<1>1. store = {} => NapiCons = cons_ptr
  BY DEF NapiCons
<1>2. ASSUME NEW c, store = {c} PROVE NapiCons = c
  BY <1>2 DEF NapiCons
<1>3. TxType => NapiCons \in Ptrs
  BY <1>1, <1>2 DEF TxType
<1> QED BY <1>1, <1>2, <1>3

\* The distances the invariant speaks of, as numbers.
LEMMA TxNumbers ==
    ASSUME TxIInv
    PROVE  /\ NapiCons \in Ptrs
           /\ Off(NapiCons) \in Nat /\ Off(reaped) \in Nat /\ Off(completed) \in Nat
           /\ Off(doorbell) \in Nat /\ Seen \in Nat /\ Held \in Nat
           /\ Off(napi.ring) \in Nat
           /\ port # "closed" => /\ Held = Seen - Off(NapiCons)
                                 /\ Dist(reaped, prod_ptr) = Seen - Off(reaped)
                                 /\ Dist(reaped, prod_ptr) <= Held
<1>1. /\ NapiCons \in Ptrs /\ prod_ptr \in Ptrs /\ cons_ptr \in Ptrs /\ doorbell \in Ptrs
      /\ completed \in Ptrs /\ reaped \in Ptrs /\ napi.ring \in Ptrs
  BY NapiConsValue DEF TxIInv, TxType
<1>2. /\ Off(NapiCons) \in Nat /\ Off(reaped) \in Nat /\ Off(completed) \in Nat
      /\ Off(doorbell) \in Nat /\ Seen \in Nat /\ Held \in Nat /\ Off(napi.ring) \in Nat
  BY <1>1, TxDist DEF Off, Seen, Held
<1>3. ASSUME port # "closed"
      PROVE  Off(NapiCons) <= Seen /\ Off(reaped) <= Seen /\ Off(NapiCons) <= Off(reaped)
  BY <1>2, <1>3 DEF TxIInv, TxOrder, Seen
<1>4. ASSUME port # "closed"
      PROVE  /\ Held = Seen - Off(NapiCons)
             /\ Dist(reaped, prod_ptr) = Seen - Off(reaped)
  BY <1>1, <1>2, <1>3, <1>4, TxDistSplit DEF Off, Seen, Held
<1> QED BY <1>1, <1>2, <1>3, <1>4

\* The invariant gives the property: a packet of the ring that had the slot at
\* the producer pointer would be a whole ring behind it.
LEMMA TxInvImplies == TxIInv => TxSlotsOwned
<1> SUFFICES ASSUME TxIInv PROVE TxSlotsOwned
  OBVIOUS
<1>1. CompletionsMatch /\ NothingLeaked
  BY DEF TxIInv, TxSlots
<1>2. ASSUME XmitCalled, PortUp, tx_info[Slot(prod_ptr)] # NONE
      PROVE  FALSE
  <2> DEFINE p == tx_info[Slot(prod_ptr)]
  <2>1. prod_ptr \in Ptrs /\ reaped \in Ptrs /\ Slot(prod_ptr) \in Slots /\ p \in Ptrs
    BY <1>2, TxDist DEF TxIInv, TxType
  <2>2. port # "closed"
    BY <1>2 DEF PortUp
  <2>3. Slot(p) = Slot(prod_ptr) /\ Dist(reaped, p) < Dist(reaped, prod_ptr)
    BY <1>2, <2>1, <2>2 DEF TxIInv, TxSlots, TxOwned
  <2>4. Dist(reaped, prod_ptr) <= FullSize
    BY <1>2, <2>2, TxNumbers, TxSizes DEF TxIInv, TxBound, Ready, XmitCalled
  <2> HIDE DEF p
  <2>5. Dist(reaped, p) \in Nat /\ Dist(reaped, prod_ptr) \in Nat
    BY <2>1, TxDist
  <2>6. Dist(p, prod_ptr) = Dist(reaped, prod_ptr) - Dist(reaped, p)
    BY <2>1, <2>3, <2>5, TxDistSplit
  <2>7. p = prod_ptr
    BY <2>1, <2>3, <2>4, <2>5, <2>6, TxDist, TxSizes
  <2> QED BY <2>3, <2>5, <2>7
<1> QED BY <1>1, <1>2 DEF TxSlotsOwned, SlotIsFree

\* The initial state: a closed ring without skbs.
LEMMA TxInit == Init => TxIInv
<1> SUFFICES ASSUME Init PROVE TxIInv
  OBVIOUS
<1>1. TxType
  BY TxSizes DEF Init, TxType, XmitIdle, NapiIdle
<1>2. TxOrder /\ TxBound /\ TxSlots /\ TxClosed
  BY DEF Init, TxOrder, TxBound, TxSlots, TxOwned, CompletionsMatch, NothingLeaked,
         TxClosed, XmitIdle, NapiIdle
<1> QED BY <1>1, <1>2 DEF TxIInv

\* A step that moves no pointer and no skb keeps the order and the slots.
LEMMA TxFrame ==
    ASSUME TxIInv, UNCHANGED <<ring_vars, hw_vars>>, port' = "closed" <=> port = "closed",
           napi' = napi \/ (napi'.pc # "ring") \/ (store = {} /\ napi'.ring = cons_ptr)
    PROVE  TxOrder' /\ TxSlots' /\ NapiCons' = NapiCons /\ Seen' = Seen /\ Held' = Held
<1>1. /\ cons_ptr \in Ptrs /\ Off(cons_ptr) = 0
  BY TxDist DEF TxIInv, TxType, Off
<1>2. NapiCons' = NapiCons /\ Seen' = Seen /\ Held' = Held
  BY DEF ring_vars, NapiCons, Seen, Held, Off
<1>3. TxSlots'
  BY DEF TxIInv, ring_vars, hw_vars, TxSlots, TxOwned, CompletionsMatch, NothingLeaked
<1>4. Off(reaped) \in Nat
  BY TxNumbers
<1>5. TxOrder'
  BY <1>1, <1>2, <1>4 DEF TxIInv, ring_vars, hw_vars, TxOrder, Off
<1> QED BY <1>2, <1>3, <1>5

\* The steps of start_xmit that move no pointer but the doorbell.
LEMMA TxXmitQuiet ==
    ASSUME TxIInv, (\E more \in BOOLEAN : XmitDrop(more)) \/ XmitFull \/ XmitStop
                   \/ XmitRecheck \/ XmitWake
    PROVE  TxIInv'
<1>1. TxType /\ TxBound /\ TxClosed
  BY DEF TxIInv
<1>2. /\ UNCHANGED <<ring_vars, hw_vars, port, napi>>
  BY DEF XmitDrop, XmitFull, XmitStop, XmitRecheck, XmitWake
<1>3. TxOrder' /\ TxSlots' /\ Seen' = Seen /\ Held' = Held
  BY <1>2, TxFrame
<1>4. Held \in Nat /\ Seen \in Nat /\ (port # "closed" => Held <= Seen)
  BY TxNumbers
<1>5. IsFull(cons_ptr) \in BOOLEAN /\ (IsFull(cons_ptr) <=> Seen >= FullSize)
  BY DEF IsFull, Seen, Off
<1>6. TxType'
  <2>1. xmit' \in [pc : {"idle", "full", "stop", "ring", "recheck", "wake"},
                   more : BOOLEAN, stop : BOOLEAN]
    BY <1>1, <1>5 DEF TxType, XmitDrop, XmitFull, XmitStop, XmitRecheck, XmitWake
  <2>2. stopped' \in BOOLEAN
    BY <1>1 DEF TxType, XmitDrop, XmitFull, XmitStop, XmitRecheck, XmitWake
  <2> QED BY <1>1, <1>2, <2>1, <2>2 DEF TxType, ring_vars, hw_vars
<1>7. TxBound'
  <2>1. CASE \E more \in BOOLEAN : XmitDrop(more)
    BY <1>1, <1>2, <1>3, <2>1 DEF XmitDrop, TxBound, Ready, TxType
  <2>2. CASE XmitFull
    BY <1>1, <1>2, <1>3, <1>4, <1>5, <2>2, TxSizes DEF XmitFull, TxBound, Ready, TxType
  <2>3. CASE XmitStop
    BY <1>1, <1>2, <1>3, <2>3 DEF XmitStop, TxBound, Ready, TxType
  <2>4. CASE XmitRecheck
    BY <1>1, <1>2, <1>3, <1>4, <1>5, <2>4, TxSizes DEF XmitRecheck, TxBound, Ready, TxType
  <2>5. CASE XmitWake
    BY <1>1, <1>2, <1>3, <1>4, <2>5, TxSizes DEF XmitWake, TxBound, Ready, TxType
  <2> QED BY <2>1, <2>2, <2>3, <2>4, <2>5
<1>8. TxClosed'
  BY <1>1, <1>2 DEF TxClosed, TxType, XmitDrop, XmitCalled, XmitFull, XmitStop, XmitRecheck,
                    XmitWake, ring_vars
<1> QED BY <1>3, <1>6, <1>7, <1>8 DEF TxIInv

\* The producer pointer moves: its slot was free, the new packet is the last.
LEMMA TxXmitPost ==
    ASSUME TxIInv, NEW more \in BOOLEAN, XmitPost(more)
    PROVE  TxIInv'
<1>1. TxType /\ TxBound /\ TxClosed /\ TxOrder /\ TxSlots
  BY DEF TxIInv
<1>2. /\ port # "closed" /\ xmit.pc = "idle" /\ ~stopped /\ Ready
      /\ tx_info' = [tx_info EXCEPT ![Slot(prod_ptr)] = prod_ptr]
      /\ prod_ptr' = Inc(prod_ptr)
      /\ xmit' = [xmit EXCEPT !.pc = "full", !.more = more]
      /\ UNCHANGED <<port, cons_ptr, store, stopped, doorbell, completed, reaped, napi>>
  BY DEF XmitPost, XmitCalled, PortUp, MapSkb, Ready, hw_vars
<1>3. /\ prod_ptr \in Ptrs /\ cons_ptr \in Ptrs /\ reaped \in Ptrs /\ NapiCons \in Ptrs
      /\ Slot(prod_ptr) \in Slots /\ Inc(prod_ptr) \in Ptrs
      /\ doorbell \in Ptrs /\ completed \in Ptrs
  BY <1>1, TxDist, TxNumbers DEF TxType
<1>4. NapiCons' = NapiCons
  BY <1>2 DEF NapiCons
<1>5. /\ Held \in Nat /\ Seen \in Nat /\ Held <= FullSize /\ Seen <= FullSize + 1
      /\ Dist(reaped, prod_ptr) \in Nat /\ Dist(reaped, prod_ptr) <= Held
  BY <1>1, <1>2, <1>3, TxNumbers, TxDist DEF TxBound
<1>6. Held' = Held + 1 /\ Seen' = Seen + 1
  BY <1>2, <1>3, <1>4, <1>5, TxDist, TxSizes DEF Held, Seen, Off
<1>7. Dist(reaped, prod_ptr') = Dist(reaped, prod_ptr) + 1
  BY <1>2, <1>3, <1>5, TxDist, TxSizes
<1>8. TxType'
  BY <1>1, <1>2, <1>3 DEF TxType
<1>9. TxOrder'
  <2>1. Off(doorbell) \in Nat /\ Off(doorbell)' = Off(doorbell) /\ Off(doorbell) <= Seen
    BY <1>1, <1>2, TxNumbers DEF TxOrder, Off, Seen
  <2>2. Off(doorbell)' <= Off(prod_ptr)'
    BY <1>5, <1>6, <2>1 DEF Seen
  <2> QED BY <1>1, <1>2, <1>4, <2>2 DEF TxOrder, Off
<1>10. TxBound'
  BY <1>1, <1>2, <1>5, <1>6, TxSizes DEF TxBound, Ready, TxType
<1>11. tx_info[Slot(prod_ptr)] = NONE
  BY <1>2, TxInvImplies DEF TxSlotsOwned, SlotIsFree, XmitCalled, XmitPost
<1>12. Dist(reaped, prod_ptr) < Dist(reaped, prod_ptr')
  BY <1>5, <1>7
<1>13. TxOwned'
  <2> SUFFICES ASSUME NEW s \in Slots, tx_info'[s] # NONE
               PROVE  /\ Slot(tx_info'[s]) = s
                      /\ Dist(reaped, tx_info'[s]) < Dist(reaped, prod_ptr')
    BY <1>2 DEF TxOwned
  <2>1. CASE s = Slot(prod_ptr)
    BY <1>1, <1>2, <1>3, <1>12, <2>1 DEF TxType
  <2>2. CASE s # Slot(prod_ptr)
    <3>1. tx_info'[s] = tx_info[s] /\ tx_info[s] \in Ptrs
      BY <1>1, <1>2, <2>2 DEF TxType
    <3>2. Slot(tx_info[s]) = s /\ Dist(reaped, tx_info[s]) < Dist(reaped, prod_ptr)
      BY <1>1, <1>2, <3>1 DEF TxSlots, TxOwned
    <3>3. Dist(reaped, tx_info[s]) \in Nat
      BY <1>3, <3>1, TxDist
    <3> QED BY <1>5, <1>7, <3>1, <3>2, <3>3
  <2> QED BY <2>1, <2>2
<1>14. CompletionsMatch'
  <2> SUFFICES ASSUME NEW p \in Ptrs, Dist(reaped, p) < Dist(reaped, prod_ptr')
               PROVE  tx_info'[Slot(p)] = p
    BY <1>2 DEF CompletionsMatch
  <2>1. Dist(reaped, p) \in Nat /\ Slot(p) \in Slots
    BY <1>3, TxDist
  <2>2. CASE p = prod_ptr
    BY <1>1, <1>2, <1>3, <2>2 DEF TxType
  <2>3. CASE p # prod_ptr
    <3>1. Dist(reaped, p) # Dist(reaped, prod_ptr)
      BY <1>3, <2>3, TxDistSplit
    <3>2. Dist(reaped, p) < Dist(reaped, prod_ptr)
      BY <1>5, <1>7, <2>1, <3>1
    <3>3. tx_info[Slot(p)] = p
      BY <1>1, <1>2, <3>2 DEF TxSlots, CompletionsMatch
    <3>4. p # NONE
      BY TxRingAssumption
    <3> QED BY <1>1, <1>2, <1>11, <2>1, <3>3, <3>4 DEF TxType
  <2> QED BY <2>2, <2>3
<1>15. NothingLeaked' /\ TxClosed'
  BY <1>2 DEF NothingLeaked, TxClosed
<1> QED BY <1>8, <1>9, <1>10, <1>13, <1>14, <1>15 DEF TxIInv, TxSlots

\* The doorbell moves to the producer pointer, or stays.
LEMMA TxXmitRing ==
    ASSUME TxIInv, XmitRing
    PROVE  TxIInv'
<1>1. TxType /\ TxBound /\ TxClosed /\ TxOrder /\ TxSlots
  BY DEF TxIInv
<1>2. /\ doorbell' = doorbell \/ doorbell' = prod_ptr
      /\ xmit.pc = "ring" /\ xmit'.pc \in {"idle", "recheck"}
      /\ UNCHANGED <<port, prod_ptr, cons_ptr, store, tx_info, stopped, completed, reaped, napi>>
  BY <1>1 DEF XmitRing, ring_vars, TxType
<1>3. NapiCons' = NapiCons /\ Held' = Held /\ Seen' = Seen
  BY <1>2 DEF NapiCons, Held, Seen, Off
<1>4. TxType'
  <2>1. xmit' \in [pc : {"idle", "full", "stop", "ring", "recheck", "wake"},
                   more : BOOLEAN, stop : BOOLEAN]
    BY <1>1 DEF TxType, XmitRing
  <2> QED BY <1>1, <1>2, <2>1 DEF TxType
<1>5. TxOrder'
  BY <1>1, <1>2, <1>3, TxNumbers DEF TxOrder, Off, Seen
<1>6. TxBound'
  BY <1>1, <1>2, <1>3 DEF TxBound, Ready
<1>7. TxSlots' /\ TxClosed'
  BY <1>1, <1>2 DEF TxSlots, TxOwned, CompletionsMatch, NothingLeaked, TxClosed
<1> QED BY <1>4, <1>5, <1>6, <1>7 DEF TxIInv

\* The steps of the poll, and of the port, that move no pointer.
LEMMA TxPollQuiet ==
    ASSUME TxIInv, PollStart \/ PollCplEnd \/ PollStopped \/ PollFull \/ PollWake
                   \/ StopPort \/ PortDown
    PROVE  TxIInv'
<1>1. TxType /\ TxBound /\ TxClosed
  BY DEF TxIInv
<1>2. /\ UNCHANGED <<ring_vars, hw_vars, xmit>>
      /\ port # "closed" /\ port' # "closed"
      /\ port' \in {"up", "stopping", "down", "closed"}
      /\ napi' = napi \/ napi'.pc # "ring" \/ (store = {} /\ napi'.ring = cons_ptr)
  BY <1>1 DEF PollStart, PollCplEnd, PollStopped, PollFull, PollWake, StopPort, PortDown,
              TxType, PortUp, TxClosed
<1>3. TxOrder' /\ TxSlots' /\ Seen' = Seen /\ Held' = Held
  BY <1>2, TxFrame
<1>4. Held \in Nat /\ Seen \in Nat
  BY TxNumbers
<1>5. IsFull(NapiCons) <=> Held >= FullSize
  BY DEF IsFull, Held
<1>6. TxType'
  <2>1. napi' \in [pc : {"idle", "cpl", "ring", "stopped", "full", "wake"},
                   done : BOOLEAN, ring : Ptrs]
    BY <1>1 DEF TxType, PollStart, PollCplEnd, PollStopped, PollFull, PollWake, StopPort,
                PortDown
  <2>2. stopped' \in BOOLEAN
    BY <1>1 DEF TxType, PollStart, PollCplEnd, PollStopped, PollFull, PollWake, StopPort,
                PortDown
  <2> QED BY <1>1, <1>2, <2>1, <2>2 DEF TxType, ring_vars, hw_vars
<1>7. TxBound'
  <2>1. CASE PollStart
    BY <1>1, <1>2, <1>3, <2>1 DEF PollStart, TxBound, Ready, TxType
  <2>2. CASE PollCplEnd
    BY <1>1, <1>2, <1>3, <2>2 DEF PollCplEnd, TxBound, Ready, TxType
  <2>3. CASE PollStopped
    BY <1>1, <1>2, <1>3, <2>3 DEF PollStopped, TxBound, Ready, TxType
  <2>4. CASE PollFull
    BY <1>1, <1>2, <1>3, <1>4, <1>5, <2>4, TxSizes DEF PollFull, TxBound, Ready, TxType
  <2>5. CASE PollWake
    BY <1>1, <1>2, <1>3, <2>5 DEF PollWake, TxBound, Ready, TxType
  <2>6. CASE StopPort
    BY <1>1, <1>2, <1>3, <2>6 DEF StopPort, TxBound, Ready
  <2>7. CASE PortDown
    BY <1>1, <1>2, <1>3, <2>7 DEF PortDown, TxBound, Ready
  <2> QED BY <2>1, <2>2, <2>3, <2>4, <2>5, <2>6, <2>7
<1>8. TxClosed'
  BY <1>2 DEF TxClosed
<1> QED BY <1>3, <1>6, <1>7, <1>8 DEF TxIInv

\* A completion: the oldest packet leaves its slot, the others keep theirs.
LEMMA TxPollCpl ==
    ASSUME TxIInv, PollCpl
    PROVE  TxIInv'
<1>1. TxType /\ TxBound /\ TxClosed /\ TxOrder /\ TxSlots
  BY DEF TxIInv
<1>2. /\ port # "closed" /\ napi.pc = "cpl" /\ reaped # completed
      /\ tx_info' = [tx_info EXCEPT ![Slot(reaped)] = NONE]
      /\ reaped' = Inc(reaped)
      /\ napi' = [napi EXCEPT !.done = TRUE]
      /\ UNCHANGED <<port, prod_ptr, cons_ptr, store, stopped, doorbell, completed, xmit>>
  BY <1>1 DEF PollCpl, FreeTxDesc, TxClosed
<1>3. /\ prod_ptr \in Ptrs /\ cons_ptr \in Ptrs /\ reaped \in Ptrs /\ completed \in Ptrs
      /\ NapiCons \in Ptrs /\ Slot(reaped) \in Slots /\ Inc(reaped) \in Ptrs
  BY <1>1, TxDist, TxNumbers DEF TxType
<1>4. NapiCons' = NapiCons /\ Held' = Held /\ Seen' = Seen
  BY <1>2 DEF NapiCons, Held, Seen, Off
<1>5. /\ Off(NapiCons) \in Nat /\ Off(reaped) \in Nat /\ Off(completed) \in Nat
      /\ Off(doorbell) \in Nat /\ Seen \in Nat /\ Held \in Nat
      /\ Off(NapiCons) <= Off(reaped) /\ Off(reaped) <= Off(completed)
      /\ Off(completed) <= Off(doorbell) /\ Off(doorbell) <= Seen
      /\ Held <= FullSize + 1 /\ Seen < PtrMod
      /\ Dist(reaped, prod_ptr) = Seen - Off(reaped) /\ Dist(reaped, prod_ptr) <= Held
  BY <1>1, <1>2, <1>3, TxNumbers, TxDist DEF TxOrder, TxBound, Seen, Off
<1>6. Off(reaped) # Off(completed)
  BY <1>2, <1>3, TxDistSplit DEF Off
<1>7. Off(reaped') = Off(reaped) + 1
  <2>1. Off(reaped) + 1 < PtrMod
    BY <1>5, <1>6, TxSizes
  <2> QED BY <1>2, <1>3, <2>1, TxDist DEF Off
<1>8. Dist(reaped', prod_ptr) = Dist(reaped, prod_ptr) - 1
  <2>1. Off(reaped') <= Seen
    BY <1>5, <1>6, <1>7
  <2>2. Dist(reaped', prod_ptr) = Seen - Off(reaped')
    BY <1>2, <1>3, <2>1, TxDistSplit DEF Off, Seen
  <2> QED BY <1>5, <1>7, <2>2
<1>9. TxType'
  BY <1>1, <1>2, <1>3 DEF TxType
<1>10. TxOrder'
  <2>1. /\ Off(reaped)' = Off(reaped) + 1 /\ Off(NapiCons)' = Off(NapiCons)
        /\ Off(completed)' = Off(completed) /\ Off(doorbell)' = Off(doorbell)
        /\ Off(prod_ptr)' = Seen
    BY <1>2, <1>4, <1>7 DEF Off, Seen
  <2>2. napi'.pc # "ring"
    BY <1>1, <1>2 DEF TxType
  <2> QED BY <1>2, <1>5, <1>6, <2>1, <2>2 DEF TxOrder
<1>11. TxBound'
  BY <1>1, <1>2, <1>4 DEF TxBound, Ready, TxType
<1>12. \A p \in Ptrs : p # reaped /\ Dist(reaped, p) < Dist(reaped, prod_ptr) =>
          /\ Slot(p) # Slot(reaped)
          /\ Dist(reaped', p) = Dist(reaped, p) - 1
  <2> SUFFICES ASSUME NEW p \in Ptrs, p # reaped, Dist(reaped, p) < Dist(reaped, prod_ptr)
               PROVE  Slot(p) # Slot(reaped) /\ Dist(reaped', p) = Dist(reaped, p) - 1
    OBVIOUS
  <2>1. Dist(reaped, p) \in Nat /\ Dist(reaped, p) # 0
    BY <1>3, TxDist
  <2>2. Slot(p) # Slot(reaped)
    BY <1>3, <1>5, <2>1, TxDist, TxSizes
  <2>3. Dist(reaped, reaped') = 1
    BY <1>2, <1>3, TxDist, TxSizes
  <2>4. Dist(reaped', p) = Dist(reaped, p) - 1
    BY <1>2, <1>3, <2>1, <2>3, TxDistSplit
  <2> QED BY <2>2, <2>4
<1>13. TxOwned'
  <2> SUFFICES ASSUME NEW s \in Slots, tx_info'[s] # NONE
               PROVE  /\ Slot(tx_info'[s]) = s
                      /\ Dist(reaped', tx_info'[s]) < Dist(reaped', prod_ptr)
    BY <1>2 DEF TxOwned
  <2>1. s # Slot(reaped) /\ tx_info'[s] = tx_info[s] /\ tx_info[s] \in Ptrs
    BY <1>1, <1>2 DEF TxType
  <2>2. Slot(tx_info[s]) = s /\ Dist(reaped, tx_info[s]) < Dist(reaped, prod_ptr)
    BY <1>1, <1>2, <2>1 DEF TxSlots, TxOwned
  <2>3. Dist(reaped', tx_info[s]) = Dist(reaped, tx_info[s]) - 1
    BY <1>12, <2>1, <2>2
  <2>4. Dist(reaped, tx_info[s]) \in Nat /\ Dist(reaped, prod_ptr) \in Nat
    BY <1>3, <2>1, TxDist
  <2> QED BY <1>8, <2>1, <2>2, <2>3, <2>4
<1>14. CompletionsMatch'
  <2> SUFFICES ASSUME NEW p \in Ptrs, Dist(reaped', p) < Dist(reaped', prod_ptr)
               PROVE  tx_info'[Slot(p)] = p
    BY <1>2 DEF CompletionsMatch
  <2>1. Dist(reaped', p) \in Nat /\ Slot(p) \in Slots /\ Dist(reaped, p) \in Nat
    BY <1>2, <1>3, TxDist
  <2>2. Dist(reaped, reaped') = 1
    BY <1>2, <1>3, TxDist, TxSizes
  <2>3. Dist(reaped, p) = Dist(reaped', p) + 1
    BY <1>2, <1>3, <1>5, <1>8, <2>1, <2>2, TxDistSplit, TxSizes
  <2>4. p # reaped /\ Dist(reaped, p) < Dist(reaped, prod_ptr)
    BY <1>3, <1>5, <1>8, <2>1, <2>3, TxDist
  <2>5. tx_info[Slot(p)] = p /\ Slot(p) # Slot(reaped)
    BY <1>1, <1>2, <1>12, <2>4 DEF TxSlots, CompletionsMatch
  <2> QED BY <1>1, <1>2, <2>1, <2>5 DEF TxType
<1>15. NothingLeaked' /\ TxClosed'
  BY <1>2 DEF NothingLeaked, TxClosed
<1> QED BY <1>9, <1>10, <1>11, <1>13, <1>14, <1>15 DEF TxIInv, TxSlots

\* The loop over the ring passes a free slot, and no packet that is not reaped.
LEMMA TxPollRing ==
    ASSUME TxIInv, PollRing
    PROVE  TxIInv'
<1>1. TxType /\ TxBound /\ TxClosed /\ TxOrder /\ TxSlots
  BY DEF TxIInv
<1>2. /\ port # "closed" /\ napi.pc = "ring" /\ store = {}
      /\ napi.ring # prod_ptr /\ tx_info[Slot(napi.ring)] = NONE
      /\ napi' = [napi EXCEPT !.ring = Inc(napi.ring)]
      /\ UNCHANGED <<port, prod_ptr, cons_ptr, store, tx_info, stopped, doorbell, completed,
                     reaped, xmit>>
  BY <1>1 DEF PollRing, SlotDone, TxClosed, TxOrder, ring_vars, hw_vars
<1>3. /\ prod_ptr \in Ptrs /\ cons_ptr \in Ptrs /\ reaped \in Ptrs /\ napi.ring \in Ptrs
      /\ Inc(napi.ring) \in Ptrs /\ napi'.ring = Inc(napi.ring) /\ napi'.pc = "ring"
  BY <1>1, <1>2, TxDist DEF TxType
<1>4. NapiCons' = NapiCons /\ Held' = Held /\ Seen' = Seen
  BY <1>2 DEF NapiCons, Held, Seen, Off
<1>5. /\ Off(napi.ring) \in Nat /\ Off(reaped) \in Nat /\ Off(napi.ring) <= Off(reaped)
      /\ Off(reaped) < PtrMod /\ PtrMod \in Nat
  BY <1>1, <1>2, <1>3, TxNumbers, TxDist, TxSizes DEF TxOrder, Off
<1>6. napi.ring # reaped
  <2> SUFFICES ASSUME napi.ring = reaped PROVE FALSE
    OBVIOUS
  <2>1. Dist(reaped, reaped) = 0 /\ Dist(reaped, prod_ptr) > 0
    BY <1>2, <1>3, TxDist
  <2>2. tx_info[Slot(reaped)] = reaped
    BY <1>1, <1>2, <1>3, <2>1 DEF TxSlots, CompletionsMatch
  <2> QED BY <1>2, <1>3, <2>2, TxRingAssumption
<1>7. Off(napi.ring) # Off(reaped)
  BY <1>3, <1>6, TxDistSplit DEF Off
<1>8. Off(Inc(napi.ring)) <= Off(reaped)
  BY <1>3, <1>5, <1>7, TxDist DEF Off
<1>9. TxType'
  BY <1>1, <1>2, <1>3 DEF TxType
<1>10. TxOrder'
  BY <1>1, <1>2, <1>3, <1>4, <1>8 DEF TxOrder, Off
<1>11. TxBound'
  BY <1>1, <1>2, <1>3, <1>4 DEF TxBound, Ready
<1>12. TxSlots' /\ TxClosed'
  BY <1>1, <1>2 DEF TxSlots, TxOwned, CompletionsMatch, NothingLeaked, TxClosed
<1> QED BY <1>9, <1>10, <1>11, <1>12 DEF TxIInv

\* The new consumer pointer enters the store buffer: NAPI sees less in the ring,
\* start_xmit what it saw before.
LEMMA TxPollStore ==
    ASSUME TxIInv, PollStore
    PROVE  TxIInv'
<1>1. TxType /\ TxBound /\ TxClosed /\ TxOrder /\ TxSlots
  BY DEF TxIInv
<1>2. /\ port # "closed" /\ napi.pc = "ring" /\ store = {}
      /\ store' = {napi.ring}
      /\ napi' = [napi EXCEPT !.pc = "stopped"]
      /\ UNCHANGED <<port, prod_ptr, cons_ptr, tx_info, stopped, doorbell, completed,
                     reaped, xmit>>
  BY <1>1 DEF PollStore, TxClosed, TxOrder, hw_vars
<1>3. /\ prod_ptr \in Ptrs /\ cons_ptr \in Ptrs /\ reaped \in Ptrs /\ napi.ring \in Ptrs
      /\ napi'.pc = "stopped"
  BY <1>1, <1>2 DEF TxType
<1>4. NapiCons = cons_ptr /\ NapiCons' = napi.ring /\ Held = Seen /\ Seen' = Seen
  <2>1. NapiCons = cons_ptr
    BY <1>2 DEF NapiCons
  <2>2. NapiCons' = napi.ring
    BY <1>2, <1>3 DEF NapiCons
  <2> QED BY <1>2, <2>1, <2>2 DEF Held, Seen, Off
<1>5. /\ Off(napi.ring) \in Nat /\ Off(reaped) \in Nat /\ Off(napi.ring) <= Off(reaped)
      /\ Seen \in Nat /\ Off(napi.ring) <= Seen
  BY <1>1, <1>2, TxNumbers DEF TxOrder, Seen
<1>6. Held' = Seen - Off(napi.ring)
  BY <1>2, <1>3, <1>4, <1>5, TxDistSplit DEF Held, Seen, Off
<1>7. TxType'
  BY <1>1, <1>2, <1>3 DEF TxType
<1>8. TxOrder'
  BY <1>1, <1>2, <1>3, <1>4, <1>5 DEF TxOrder, Off
<1>9. TxBound'
  BY <1>1, <1>2, <1>3, <1>4, <1>5, <1>6, TxSizes DEF TxBound, Ready
<1>10. TxSlots' /\ TxClosed'
  BY <1>1, <1>2 DEF TxSlots, TxOwned, CompletionsMatch, NothingLeaked, TxClosed
<1> QED BY <1>7, <1>8, <1>9, <1>10 DEF TxIInv

\* The store becomes visible: from here on start_xmit counts what NAPI counts.
LEMMA TxDrain ==
    ASSUME TxIInv, Drain
    PROVE  TxIInv'
<1>1. TxType /\ TxBound /\ TxClosed /\ TxOrder /\ TxSlots
  BY DEF TxIInv
<1>2. /\ port # "closed" /\ store # {} /\ store' = {} /\ cons_ptr' = NapiCons
      /\ UNCHANGED <<port, prod_ptr, tx_info, stopped, doorbell, completed, reaped, xmit, napi>>
  BY <1>1 DEF Drain, TxClosed, hw_vars
<1>3. /\ prod_ptr \in Ptrs /\ cons_ptr \in Ptrs /\ reaped \in Ptrs /\ completed \in Ptrs
      /\ doorbell \in Ptrs /\ NapiCons \in Ptrs
  BY <1>1, TxNumbers DEF TxType
<1>4. NapiCons' = NapiCons /\ Held' = Held /\ Seen' = Held
  BY <1>2 DEF NapiCons, Held, Seen, Off
<1>5. /\ Off(NapiCons) \in Nat /\ Off(reaped) \in Nat /\ Off(completed) \in Nat
      /\ Off(doorbell) \in Nat /\ Seen \in Nat /\ Held \in Nat
      /\ Off(NapiCons) <= Off(reaped) /\ Off(reaped) <= Off(completed)
      /\ Off(completed) <= Off(doorbell) /\ Off(doorbell) <= Seen
  BY <1>1, <1>2, TxNumbers DEF TxOrder, Seen
<1>6. ASSUME NEW p \in Ptrs, Off(NapiCons) <= Off(p)
      PROVE  Dist(NapiCons, p) = Off(p) - Off(NapiCons)
  BY <1>3, <1>6, TxDistSplit DEF Off
<1>7. /\ Off(reaped)' = Off(reaped) - Off(NapiCons)
      /\ Off(completed)' = Off(completed) - Off(NapiCons)
      /\ Off(doorbell)' = Off(doorbell) - Off(NapiCons)
      /\ Off(prod_ptr)' = Seen - Off(NapiCons)
      /\ Off(NapiCons)' = 0
  <2>1. /\ Dist(NapiCons, reaped) = Off(reaped) - Off(NapiCons)
        /\ Dist(NapiCons, completed) = Off(completed) - Off(NapiCons)
        /\ Dist(NapiCons, doorbell) = Off(doorbell) - Off(NapiCons)
        /\ Dist(NapiCons, prod_ptr) = Seen - Off(NapiCons)
    BY <1>3, <1>5, <1>6 DEF Seen
  <2>2. Dist(NapiCons, NapiCons) = 0
    BY <1>3, TxDist
  <2> QED BY <1>2, <1>4, <2>1, <2>2 DEF Off
<1>8. TxType'
  BY <1>1, <1>2, <1>3 DEF TxType
<1>9. TxOrder'
  BY <1>1, <1>2, <1>5, <1>7 DEF TxOrder
<1>10. TxBound'
  BY <1>1, <1>2, <1>4, <1>5, TxSizes, TxNumbers DEF TxBound, Ready
<1>11. TxSlots' /\ TxClosed'
  BY <1>1, <1>2 DEF TxSlots, TxOwned, CompletionsMatch, NothingLeaked, TxClosed
<1> QED BY <1>8, <1>9, <1>10, <1>11 DEF TxIInv

\* The hardware completes a packet the doorbell has passed.
LEMMA TxComplete ==
    ASSUME TxIInv, Complete
    PROVE  TxIInv'
<1>1. TxType /\ TxBound /\ TxClosed /\ TxOrder /\ TxSlots
  BY DEF TxIInv
<1>2. /\ port # "closed" /\ completed # doorbell /\ completed' = Inc(completed)
      /\ UNCHANGED <<port, prod_ptr, cons_ptr, store, tx_info, stopped, doorbell, reaped,
                     xmit, napi>>
  BY DEF Complete, PortUp, ring_vars
<1>3. completed \in Ptrs /\ cons_ptr \in Ptrs /\ doorbell \in Ptrs /\ Inc(completed) \in Ptrs
  BY <1>1, TxDist DEF TxType
<1>4. NapiCons' = NapiCons /\ Held' = Held /\ Seen' = Seen
  BY <1>2 DEF NapiCons, Held, Seen, Off
<1>5. /\ Off(reaped) \in Nat /\ Off(completed) \in Nat /\ Off(doorbell) \in Nat
      /\ Off(reaped) <= Off(completed) /\ Off(completed) <= Off(doorbell)
      /\ Off(doorbell) < PtrMod /\ PtrMod \in Nat
  BY <1>1, <1>2, <1>3, TxNumbers, TxDist, TxSizes DEF TxOrder, Off
<1>6. Off(completed) # Off(doorbell)
  BY <1>2, <1>3, TxDistSplit DEF Off
<1>7. Off(Inc(completed)) = Off(completed) + 1
  <2>1. Off(completed) + 1 < PtrMod
    BY <1>5, <1>6
  <2> QED BY <1>3, <2>1, TxDist DEF Off
<1>8. Off(reaped) <= Off(Inc(completed)) /\ Off(Inc(completed)) <= Off(doorbell)
  BY <1>5, <1>6, <1>7
<1>9. TxType'
  BY <1>1, <1>2, <1>3 DEF TxType
<1>10. TxOrder'
  BY <1>1, <1>2, <1>4, <1>8 DEF TxOrder, Off
<1>11. TxBound'
  BY <1>1, <1>2, <1>4 DEF TxBound, Ready
<1>12. TxSlots' /\ TxClosed'
  BY <1>1, <1>2 DEF TxSlots, TxOwned, CompletionsMatch, NothingLeaked, TxClosed
<1> QED BY <1>9, <1>10, <1>11, <1>12 DEF TxIInv

\* A new ring has all its pointers at 0 and no skb.
LEMMA TxStartPort ==
    ASSUME TxIInv, StartPort
    PROVE  TxIInv'
<1>1. TxType /\ TxClosed
  BY DEF TxIInv
<1>2. /\ port = "closed" /\ port' = "up" /\ xmit.pc = "idle" /\ napi.pc = "idle"
      /\ prod_ptr' = 0 /\ cons_ptr' = 0 /\ store' = {} /\ doorbell' = 0 /\ completed' = 0
      /\ reaped' = 0 /\ tx_info' = [s \in Slots |-> NONE] /\ stopped' = FALSE
      /\ UNCHANGED <<xmit, napi>>
  BY <1>1 DEF StartPort, TxClosed
<1>3. Dist(0, 0) = 0 /\ 0 \in Ptrs
  BY TxDist, TxSizes
<1>4. NapiCons' = 0 /\ Held' = 0 /\ Seen' = 0
  BY <1>2, <1>3 DEF NapiCons, Held, Seen, Off
<1>5. TxType'
  BY <1>1, <1>2, <1>3 DEF TxType
<1>6. TxOrder'
  BY <1>2, <1>3, <1>4 DEF TxOrder, Off
<1>7. TxBound'
  BY <1>2, <1>4, TxSizes DEF TxBound
<1>8. TxOwned' /\ NothingLeaked' /\ TxClosed'
  BY <1>2 DEF TxOwned, NothingLeaked, TxClosed
<1>9. CompletionsMatch'
  BY <1>2, <1>3, TxDist DEF CompletionsMatch
<1> QED BY <1>5, <1>6, <1>7, <1>8, <1>9 DEF TxIInv, TxSlots

\* mqnic_free_tx_buf reaches every skb: all are ahead of the consumer pointer.
LEMMA TxCloseRing ==
    ASSUME TxIInv, CloseRing
    PROVE  TxIInv'
<1>1. TxType /\ TxBound /\ TxClosed /\ TxOrder /\ TxSlots
  BY DEF TxIInv
<1>2. /\ port = "down" /\ xmit.pc = "idle" /\ napi.pc = "idle" /\ store = {}
      /\ port' = "closed" /\ tx_info' = FreeTxBuf /\ cons_ptr' = prod_ptr
      /\ UNCHANGED <<prod_ptr, store, stopped, doorbell, completed, reaped, xmit, napi>>
  BY DEF CloseRing, hw_vars
<1>3. /\ prod_ptr \in Ptrs /\ cons_ptr \in Ptrs /\ reaped \in Ptrs
  BY <1>1 DEF TxType
<1>4. /\ Off(reaped) \in Nat /\ Seen \in Nat /\ Off(reaped) <= Seen /\ Seen < PtrMod
      /\ Dist(reaped, prod_ptr) = Seen - Off(reaped) /\ PtrMod \in Nat
  <2>1. Seen < PtrMod /\ PtrMod \in Nat
    BY <1>3, TxDist, TxSizes DEF Seen, Off
  <2>2. port # "closed"
    BY <1>2
  <2>3. Off(reaped) <= Seen
    BY <1>1, <2>2, TxNumbers DEF TxOrder, Seen
  <2> QED BY <2>1, <2>2, <2>3, TxNumbers
<1>5. ASSUME NEW s \in Slots PROVE FreeTxBuf[s] = NONE
  <2>1. CASE tx_info[s] = NONE
    BY <2>1 DEF FreeTxBuf
  <2>2. CASE tx_info[s] # NONE
    <3> DEFINE p == tx_info[s]
    <3>1. p \in Ptrs /\ Slot(p) = s /\ Dist(reaped, p) < Dist(reaped, prod_ptr)
      BY <1>1, <1>2, <2>2 DEF TxType, TxSlots, TxOwned
    <3> HIDE DEF p
    <3>2. Dist(reaped, p) \in Nat
      BY <1>3, <3>1, TxDist
    <3>3. Off(reaped) + Dist(reaped, p) < Seen
      BY <1>4, <3>1, <3>2
    <3>4. Dist(cons_ptr, p) < Dist(cons_ptr, prod_ptr)
      BY <1>3, <1>4, <3>1, <3>2, <3>3, TxDistSplit DEF Off, Seen
    <3> QED BY <3>1, <3>4 DEF FreeTxBuf
  <2> QED BY <2>1, <2>2
<1>6. \A s \in Slots : tx_info'[s] = NONE
  BY <1>2, <1>5
<1>7. TxType'
  BY <1>1, <1>2, <1>3, <1>6 DEF TxType, FreeTxBuf
<1>8. TxOrder' /\ TxBound' /\ TxClosed' /\ TxSlots'
  BY <1>2, <1>6 DEF TxOrder, TxBound, TxClosed, TxSlots, TxOwned, CompletionsMatch, NothingLeaked
<1> QED BY <1>7, <1>8 DEF TxIInv

\* Every step of start_xmit, of the poll, of the hardware and of the port
\* preserves the inductive invariant.
LEMMA TxInductive == TxIInv /\ [Next]_vars => TxIInv'
<1> SUFFICES ASSUME TxIInv, [Next]_vars PROVE TxIInv'
  OBVIOUS
<1>1. CASE Xmit
  BY <1>1, TxXmitQuiet, TxXmitPost, TxXmitRing DEF Xmit
<1>2. CASE Poll
  BY <1>2, TxPollQuiet, TxPollCpl, TxPollRing, TxPollStore DEF Poll
<1>3. CASE Drain
  BY <1>3, TxDrain
<1>4. CASE Complete
  BY <1>4, TxComplete
<1>5. CASE StartPort
  BY <1>5, TxStartPort
<1>6. CASE StopPort \/ PortDown
  BY <1>6, TxPollQuiet
<1>7. CASE CloseRing
  BY <1>7, TxCloseRing
<1>8. CASE UNCHANGED vars
  <2>1. UNCHANGED <<ring_vars, hw_vars, port, napi, xmit, stopped>>
    BY <1>8 DEF vars, ring_vars, hw_vars
  <2>2. TxOrder' /\ TxSlots' /\ Seen' = Seen /\ Held' = Held
    BY <2>1, TxFrame
  <2> QED BY <2>1, <2>2 DEF TxIInv, TxType, TxBound, Ready, TxClosed, ring_vars, hw_vars
<1> QED BY <1>1, <1>2, <1>3, <1>4, <1>5, <1>6, <1>7, <1>8 DEF Next

\* A slot of tx_info belongs to one packet from its post until its completion or
\* the close of the ring, for every ring size: start_xmit, which does not test
\* for room, never overwrites an skb, whatever stale cons_ptr or stopped bit the
\* two sides act on; a completion finds its own skb; a closed ring leaks none
\* (mqnic_tx.c).
THEOREM TxSlotsAreOwned == Spec => []TxSlotsOwned
<1>1. Spec => []TxIInv
  BY TxInit, TxInductive, PTL DEF Spec
<1> QED BY <1>1, TxInvImplies, PTL

-----------------------------------------------------------------------------
(* The receive ring.                                                       *)

RxMod == RX_LAPS * RX_RING_SIZE

\* The sizes: the pointers wrap after two laps or more.
LEMMA RxSizes ==
    /\ RX_RING_SIZE \in Nat \ {0} /\ RX_LAPS \in Nat \ {0}
    /\ RxMod \in Nat \ {0} /\ RX_RING_SIZE < RxMod
    /\ RxPtrs = 0 .. RxMod - 1 /\ RxSlots = 0 .. RX_RING_SIZE - 1
    /\ RxPtrs \subseteq Nat
<1>1. RxMod \in Nat /\ RxMod >= 2 * RX_RING_SIZE
  BY RxRingAssumption DEF RxMod
<1> QED BY <1>1, RxRingAssumption DEF RxMod, RxPtrs, RxSlots

\* Distances and slots of receive ring pointers.
LEMMA RxDistance ==
    ASSUME NEW a \in RxPtrs, NEW b \in RxPtrs
    PROVE  /\ RxDist(a, b) \in Nat /\ RxDist(a, b) < RxMod
           /\ RxDist(a, b) = 0 <=> a = b
           /\ RxSlot(a) \in RxSlots
           /\ RxDist(a, b) < RX_RING_SIZE /\ RxSlot(a) = RxSlot(b) => a = b
           /\ (a + RxDist(a, b)) % RxMod = b
<1>1. RxDist(a, b) \in Nat /\ RxDist(a, b) < RxMod /\ (RxDist(a, b) = 0 <=> a = b)
  BY RxSizes, AheadRange DEF RxDist, Ahead, RxMod
<1>2. RxSlot(a) \in RxSlots
  <2>1. a \in Int
    BY RxSizes
  <2> QED BY <2>1, RxSizes, Remainder DEF RxSlot
<1>3. RxDist(a, b) < RX_RING_SIZE /\ RxSlot(a) = RxSlot(b) => a = b
  BY RxSizes, SlotsApart DEF RxDist, Ahead, RxSlot, RxMod
<1>4. (a + RxDist(a, b)) % RxMod = b
  BY RxSizes, AheadBack DEF RxDist, Ahead, RxMod
<1> QED BY <1>1, <1>2, <1>3, <1>4

\* Distances between three receive ring pointers.
LEMMA RxDistSplit ==
    ASSUME NEW a \in RxPtrs, NEW b \in RxPtrs, NEW c \in RxPtrs
    PROVE  /\ RxDist(a, b) <= RxDist(a, c) => RxDist(b, c) = RxDist(a, c) - RxDist(a, b)
           /\ RxDist(a, b) + RxDist(b, c) < RxMod =>
                RxDist(a, c) = RxDist(a, b) + RxDist(b, c)
           /\ RxDist(a, b) = RxDist(a, c) => b = c
<1>1. \A x, y : RxDist(x, y) = Ahead(RxMod, x, y)
  BY DEF RxDist, Ahead, RxMod
<1> QED BY <1>1, RxSizes, AheadSplit

\* A receive ring pointer that moves by n entries.
LEMMA RxPlus ==
    ASSUME NEW a \in RxPtrs, NEW b \in RxPtrs, NEW n \in Nat
    PROVE  /\ (b + n) % RxMod \in RxPtrs
           /\ RxSlot((b + n) % RxMod) = RxSlot(b + n) /\ RxSlot(b + n) \in RxSlots
           /\ RxDist(a, b) + n < RxMod =>
                RxDist(a, (b + n) % RxMod) = RxDist(a, b) + n
           /\ RxInc(b) = (b + 1) % RxMod
<1>1. b + n \in Int /\ b + n \in Nat
  BY RxSizes
<1>2. (b + n) % RxMod \in RxPtrs
  BY <1>1, RxSizes, Remainder
<1>3. RxSlot((b + n) % RxMod) = RxSlot(b + n)
  BY <1>1, RxSizes, SlotOfWrapped DEF RxSlot, RxMod
<1>4. RxSlot(b + n) \in RxSlots
  BY <1>1, RxSizes, Remainder DEF RxSlot
<1>5. RxDist(a, b) + n < RxMod => RxDist(a, (b + n) % RxMod) = RxDist(a, b) + n
  BY RxSizes, AheadPlus DEF RxDist, Ahead, RxMod
<1>6. RxInc(b) = (b + 1) % RxMod
  BY DEF RxInc, RxMod
<1> QED BY <1>2, <1>3, <1>4, <1>5, <1>6

-----------------------------------------------------------------------------
(* The inductive invariant of the receive ring.                            *)

RxType ==
    /\ rx_port \in {"closed", "up", "disabled", "down"}
    /\ rx_prod \in RxPtrs /\ rx_cons \in RxPtrs /\ hw_cons \in RxPtrs
    /\ rx_doorbell = rx_prod
    /\ rx_info \in [RxSlots -> {"none", "free", "packet"}]
    /\ writing \subseteq RxSlots
    /\ cpls \in Seq(RxSlots)
    /\ rx_napi \in [pc : {"idle", "sched", "cpl", "complete"}, done : Nat]

RxOff(p) == RxDist(rx_cons, p)

\* The hardware is between the consumer and the producer pointer, which are at
\* most a ring apart.
RxOrder ==
    rx_port # "closed" =>
        RxOff(hw_cons) <= RxOff(rx_prod) /\ RxOff(rx_prod) <= RX_RING_SIZE

\* A posted page is free and not yet being written.
RxPosted(p) == RxDist(hw_cons, p) < RxDist(hw_cons, rx_prod)
RxWriting ==
    /\ \A s \in writing : rx_info[s] = "free"
    /\ rx_port # "closed" =>
         \A p \in RxPtrs : RxPosted(p) => rx_info[RxSlot(p)] = "free"
                                          /\ RxSlot(p) \notin writing
    /\ rx_port \in {"down", "closed"} => writing = {}

RxCpls ==
    \A k \in 1 .. Len(cpls) :
        /\ rx_info[cpls[k]] = "packet"
        /\ \A j \in 1 .. Len(cpls) : cpls[j] = cpls[k] => j = k

\* Every page of an open ring is between the consumer and the producer pointer.
RxReach ==
    rx_port # "closed" =>
        \A s \in RxSlots : rx_info[s] # "none" =>
            \E p \in RxPtrs : RxSlot(p) = s /\ RxOff(p) < RxOff(rx_prod)

RxClosed ==
    rx_port = "closed" =>
        cpls = <<>> /\ rx_napi.pc = "idle" /\ \A s \in RxSlots : rx_info[s] = "none"

RxIInv == RxType /\ RxOrder /\ RxWriting /\ RxCpls /\ RxReach /\ RxClosed

\* The invariant gives the property.
LEMMA RxInvImplies == RxIInv => PagesOwned
BY DEF RxIInv, RxType, RxWriting, RxCpls, RxClosed, RxPosted, PagesOwned

\* The initial state: a closed ring without pages.
LEMMA RxInitInv == RxInit => RxIInv
<1> SUFFICES ASSUME RxInit PROVE RxIInv
  OBVIOUS
<1>1. RxType
  BY RxSizes DEF RxInit, RxType, RxNapiIdle
<1>2. RxOrder /\ RxWriting /\ RxCpls /\ RxReach /\ RxClosed
  BY DEF RxInit, RxOrder, RxWriting, RxCpls, RxReach, RxClosed, RxNapiIdle
<1> QED BY <1>1, <1>2 DEF RxIInv

\* The offsets of an open ring, as numbers.
LEMMA RxNumbers ==
    ASSUME RxIInv
    PROVE  /\ RxOff(hw_cons) \in Nat /\ RxOff(rx_prod) \in Nat
           /\ RxDist(hw_cons, rx_prod) \in Nat /\ RxOff(rx_prod) < RxMod
           /\ rx_port # "closed" =>
                RxDist(hw_cons, rx_prod) = RxOff(rx_prod) - RxOff(hw_cons)
<1>1. rx_prod \in RxPtrs /\ rx_cons \in RxPtrs /\ hw_cons \in RxPtrs
  BY DEF RxIInv, RxType
<1>2. /\ RxOff(hw_cons) \in Nat /\ RxOff(rx_prod) \in Nat
      /\ RxDist(hw_cons, rx_prod) \in Nat /\ RxOff(rx_prod) < RxMod
  BY <1>1, RxDistance DEF RxOff
<1>3. rx_port # "closed" => RxDist(hw_cons, rx_prod) = RxOff(rx_prod) - RxOff(hw_cons)
  BY <1>1, RxDistSplit DEF RxOff, RxIInv, RxOrder
<1> QED BY <1>2, <1>3

\* A new ring is filled.
LEMMA RxOpenInv ==
    ASSUME RxIInv, RxOpen
    PROVE  RxIInv'
<1>1. /\ rx_port' = "up" /\ rx_info' = [s \in RxSlots |-> "free"]
      /\ rx_prod' = RX_RING_SIZE /\ rx_doorbell' = RX_RING_SIZE
      /\ rx_cons' = 0 /\ hw_cons' = 0 /\ writing' = {} /\ cpls' = <<>>
      /\ rx_napi' = RxNapiIdle
  BY DEF RxOpen
<1>2. 0 \in RxPtrs /\ RX_RING_SIZE \in RxPtrs
  BY RxSizes
<1>3. /\ RxDist(0, 0) = 0
      /\ \A p \in RxPtrs : RxDist(0, p) = p
  <2>1. RxDist(0, 0) = 0
    BY <1>2, RxDistance
  <2>2. ASSUME NEW p \in RxPtrs PROVE RxDist(0, p) = p
    BY RxSizes, AheadValue, SMTT(20) DEF RxDist, Ahead, RxMod
  <2> QED BY <2>1, <2>2
<1>4. \A p \in RxPtrs : RxSlot(p) \in RxSlots
  BY RxDistance
<1>5. \A s \in RxSlots : s \in RxPtrs /\ RxSlot(s) = s /\ s < RX_RING_SIZE
  <2> SUFFICES ASSUME NEW s \in RxSlots
               PROVE  s \in RxPtrs /\ RxSlot(s) = s /\ s < RX_RING_SIZE
    OBVIOUS
  <2> QED BY RxSizes DEF RxSlot
<1>6. RxType'
  BY <1>1, <1>2 DEF RxType, RxNapiIdle
<1>7. RxOrder'
  BY <1>1, <1>2, <1>3, RxSizes DEF RxOrder, RxOff
<1>8. RxWriting'
  BY <1>1, <1>4 DEF RxWriting
<1>9. RxCpls' /\ RxClosed'
  BY <1>1 DEF RxCpls, RxClosed
<1>10. RxReach'
  <2> SUFFICES ASSUME NEW s \in RxSlots
               PROVE  \E p \in RxPtrs : RxSlot(p) = s /\ RxDist(0, p) < RxDist(0, RX_RING_SIZE)
    BY <1>1 DEF RxReach, RxOff
  <2> QED BY <1>2, <1>3, <1>5
<1> QED BY <1>6, <1>7, <1>8, <1>9, <1>10 DEF RxIInv

\* The hardware takes the next posted descriptor.
LEMMA RxHwTake ==
    ASSUME RxIInv, HwTake
    PROVE  RxIInv'
<1>1. RxType /\ RxOrder /\ RxWriting /\ RxCpls /\ RxReach /\ RxClosed
  BY DEF RxIInv
<1>2. /\ rx_port = "up" /\ hw_cons # rx_prod
      /\ writing' = writing \cup {RxSlot(hw_cons)}
      /\ hw_cons' = (hw_cons + 1) % RxMod
      /\ UNCHANGED <<rx_port, rx_prod, rx_cons, rx_info, rx_doorbell, cpls, rx_napi>>
  BY <1>1 DEF HwTake, RxType, RxInc, RxMod
<1>3. /\ rx_prod \in RxPtrs /\ rx_cons \in RxPtrs /\ hw_cons \in RxPtrs
      /\ hw_cons' \in RxPtrs /\ RxSlot(hw_cons) \in RxSlots
  BY <1>1, <1>2, RxPlus, RxDistance DEF RxType
<1>4. /\ RxOff(hw_cons) \in Nat /\ RxOff(rx_prod) \in Nat /\ RxOff(rx_prod) < RxMod
      /\ RxOff(hw_cons) <= RxOff(rx_prod) /\ RxOff(rx_prod) <= RX_RING_SIZE
      /\ RxDist(hw_cons, rx_prod) = RxOff(rx_prod) - RxOff(hw_cons)
      /\ RxMod \in Nat
  BY <1>1, <1>2, RxNumbers, RxSizes DEF RxOrder
<1>5. RxOff(hw_cons) # RxOff(rx_prod)
  BY <1>2, <1>3, RxDistSplit DEF RxOff
<1>6. RxOff(hw_cons') = RxOff(hw_cons) + 1
  <2>1. RxOff(hw_cons) + 1 < RxMod
    BY <1>4, <1>5
  <2> QED BY <1>2, <1>3, <2>1, RxPlus DEF RxOff
<1>7. RxDist(hw_cons', rx_prod) = RxDist(hw_cons, rx_prod) - 1
  <2>1. RxOff(hw_cons') <= RxOff(rx_prod)
    BY <1>4, <1>5, <1>6
  <2>2. RxDist(hw_cons', rx_prod) = RxOff(rx_prod) - RxOff(hw_cons')
    BY <1>3, <2>1, RxDistSplit DEF RxOff
  <2> QED BY <1>4, <1>6, <2>2
<1>8. RxType'
  BY <1>1, <1>2, <1>3 DEF RxType
<1>9. RxOrder'
  <2>1. RxOff(hw_cons)' = RxOff(hw_cons) + 1 /\ RxOff(rx_prod)' = RxOff(rx_prod)
    BY <1>2, <1>6 DEF RxOff
  <2> QED BY <1>4, <1>5, <2>1 DEF RxOrder
<1>10. RxPosted(hw_cons)
  <2>1. RxDist(hw_cons, hw_cons) = 0
    BY <1>3, RxDistance
  <2> QED BY <1>4, <1>5, <2>1 DEF RxPosted
<1>11. RxWriting'
  <2>1. ASSUME NEW s \in writing' PROVE rx_info'[s] = "free"
    BY <1>1, <1>2, <1>3, <1>10 DEF RxWriting
  <2>2. ASSUME NEW p \in RxPtrs, RxPosted(p)'
        PROVE  rx_info'[RxSlot(p)] = "free" /\ RxSlot(p) \notin writing'
    <3>1. /\ RxDist(hw_cons', p) \in Nat /\ RxDist(hw_cons, p) \in Nat
          /\ RxDist(hw_cons', p) < RxDist(hw_cons, rx_prod) - 1
      BY <1>2, <1>3, <1>7, <2>2, RxDistance DEF RxPosted
    <3>2. RxDist(hw_cons, hw_cons') = 1
      <4>1. RxDist(hw_cons, hw_cons) = 0 /\ 1 < RxMod
        BY <1>3, <1>4, <3>1, RxDistance
      <4>2. RxDist(hw_cons, hw_cons) + 1 < RxMod
        BY <4>1
      <4> QED BY <1>2, <1>3, <4>1, <4>2, RxPlus
    <3>3. RxDist(hw_cons, p) = RxDist(hw_cons', p) + 1
      BY <1>3, <1>4, <3>1, <3>2, RxDistSplit
    <3>4. RxPosted(p) /\ p # hw_cons
      BY <1>3, <1>4, <3>1, <3>3, RxDistance DEF RxPosted
    <3>5. RxDist(hw_cons, p) < RX_RING_SIZE
      BY <1>4, <3>1, <3>3, RxSizes
    <3>6. RxSlot(p) # RxSlot(hw_cons)
      BY <1>3, <3>4, <3>5, RxDistance
    <3> QED BY <1>1, <1>2, <3>4, <3>6 DEF RxWriting
  <2> QED BY <1>2, <2>1, <2>2 DEF RxWriting
<1>12. RxCpls' /\ RxReach' /\ RxClosed'
  BY <1>1, <1>2 DEF RxCpls, RxReach, RxClosed, RxOff
<1> QED BY <1>8, <1>9, <1>11, <1>12 DEF RxIInv

\* A packet is complete: its slot is neither posted nor named by a completion.
LEMMA RxHwComplete ==
    ASSUME RxIInv, NEW s \in RxSlots, HwComplete(s)
    PROVE  RxIInv'
<1>1. RxType /\ RxOrder /\ RxWriting /\ RxCpls /\ RxReach /\ RxClosed
  BY DEF RxIInv
<1>2. /\ s \in writing /\ writing' = writing \ {s} /\ rx_info[s] = "free"
      /\ rx_port \notin {"down", "closed"}
      /\ rx_info' = [rx_info EXCEPT ![s] = "packet"]
      /\ cpls' = Append(cpls, s)
      /\ UNCHANGED <<rx_port, rx_prod, rx_cons, rx_doorbell, hw_cons>>
  BY <1>1 DEF HwComplete, RxWriting
<1>3. rx_napi' \in [pc : {"idle", "sched", "cpl", "complete"}, done : Nat]
  BY <1>1 DEF HwComplete, RxType
<1>4. RxType'
  BY <1>1, <1>2, <1>3 DEF RxType
<1>5. RxOrder' /\ RxClosed'
  BY <1>1, <1>2 DEF RxOrder, RxOff, RxClosed
<1>6. \A t \in RxSlots : rx_info'[t] = IF t = s THEN "packet" ELSE rx_info[t]
  BY <1>1, <1>2 DEF RxType
<1>7. RxWriting'
  <2>1. \A t \in writing' : rx_info'[t] = "free"
    BY <1>1, <1>2, <1>6 DEF RxWriting, RxType
  <2>2. ASSUME NEW p \in RxPtrs, RxPosted(p)
        PROVE  rx_info'[RxSlot(p)] = "free" /\ RxSlot(p) \notin writing'
    BY <1>1, <1>2, <1>6, <2>2, RxDistance DEF RxWriting
  <2> QED BY <1>2, <2>1, <2>2 DEF RxWriting, RxPosted
<1>8. /\ Len(cpls') = Len(cpls) + 1 /\ Len(cpls) \in Nat /\ cpls'[Len(cpls) + 1] = s
      /\ \A k \in 1 .. Len(cpls) : cpls'[k] = cpls[k] /\ cpls[k] \in RxSlots
  BY <1>1, <1>2 DEF RxType
<1>9. \A k \in 1 .. Len(cpls) : rx_info[cpls[k]] = "packet" /\ cpls[k] # s
  BY <1>1, <1>2 DEF RxCpls
<1>10. RxCpls'
  <2> SUFFICES ASSUME NEW k \in 1 .. Len(cpls')
               PROVE  /\ rx_info'[cpls'[k]] = "packet"
                      /\ \A j \in 1 .. Len(cpls') : cpls'[j] = cpls'[k] => j = k
    BY DEF RxCpls
  <2>1. CASE k \in 1 .. Len(cpls)
    BY <1>1, <1>6, <1>8, <1>9, <2>1 DEF RxCpls
  <2>2. CASE k = Len(cpls) + 1
    BY <1>6, <1>8, <1>9, <2>2
  <2> QED BY <1>8, <2>1, <2>2
<1>11. RxReach'
  BY <1>1, <1>2, <1>6 DEF RxReach, RxOff
<1> QED BY <1>4, <1>5, <1>7, <1>10, <1>11 DEF RxIInv

\* A completion is consumed: the page leaves the slot, which is not posted.
LEMMA RxPollCplInv ==
    ASSUME RxIInv, RxPollCpl
    PROVE  RxIInv'
<1> DEFINE s == Head(cpls)
<1>1. RxType /\ RxOrder /\ RxWriting /\ RxCpls /\ RxReach /\ RxClosed
  BY DEF RxIInv
<1>2. /\ cpls # <<>> /\ rx_port # "closed"
      /\ rx_info' = [rx_info EXCEPT ![s] = "none"]
      /\ cpls' = Tail(cpls)
      /\ UNCHANGED <<rx_port, rx_prod, rx_cons, rx_doorbell, hw_cons, writing>>
  BY <1>1 DEF RxPollCpl, RxClosed
<1>3. /\ Len(cpls) \in Nat /\ Len(cpls) >= 1 /\ Len(cpls') = Len(cpls) - 1
      /\ s = cpls[1] /\ \A k \in 1 .. Len(cpls') : cpls'[k] = cpls[k + 1]
      /\ cpls' \in Seq(RxSlots) /\ \A k \in 1 .. Len(cpls) : cpls[k] \in RxSlots
  BY <1>1, <1>2 DEF RxType
<1>4. s \in RxSlots /\ rx_info[s] = "packet"
  BY <1>1, <1>3 DEF RxCpls
<1> HIDE DEF s
<1>5. rx_napi' \in [pc : {"idle", "sched", "cpl", "complete"}, done : Nat]
  BY <1>1 DEF RxPollCpl, RxType
<1>6. RxType'
  BY <1>1, <1>2, <1>3, <1>5 DEF RxType
<1>7. \A t \in RxSlots : rx_info'[t] = IF t = s THEN "none" ELSE rx_info[t]
  BY <1>1, <1>2 DEF RxType
<1>8. RxOrder' /\ RxClosed' /\ RxReach'
  BY <1>1, <1>2, <1>7 DEF RxOrder, RxOff, RxClosed, RxReach
<1>9. RxWriting'
  <2>1. \A t \in writing' : rx_info'[t] = "free"
    BY <1>1, <1>2, <1>4, <1>7 DEF RxWriting, RxType
  <2>2. ASSUME NEW p \in RxPtrs, RxPosted(p)
        PROVE  rx_info'[RxSlot(p)] = "free" /\ RxSlot(p) \notin writing'
    BY <1>1, <1>2, <1>4, <1>7, <2>2, RxDistance DEF RxWriting
  <2> QED BY <1>1, <1>2, <2>1, <2>2 DEF RxWriting, RxPosted
<1>10. RxCpls'
  <2> SUFFICES ASSUME NEW k \in 1 .. Len(cpls')
               PROVE  /\ rx_info'[cpls'[k]] = "packet"
                      /\ \A j \in 1 .. Len(cpls') : cpls'[j] = cpls'[k] => j = k
    BY DEF RxCpls
  <2>1. k + 1 \in 1 .. Len(cpls) /\ k + 1 # 1 /\ cpls'[k] = cpls[k + 1] /\ 1 \in 1 .. Len(cpls)
    BY <1>3
  <2>2. cpls[k + 1] # s /\ rx_info[cpls[k + 1]] = "packet"
    BY <1>1, <1>3, <2>1 DEF RxCpls
  <2>3. rx_info'[cpls'[k]] = "packet"
    BY <1>3, <1>7, <2>1, <2>2
  <2>4. ASSUME NEW j \in 1 .. Len(cpls'), cpls'[j] = cpls'[k] PROVE j = k
    <3>1. j + 1 \in 1 .. Len(cpls) /\ cpls'[j] = cpls[j + 1]
      BY <1>3
    <3>2. j + 1 = k + 1
      BY <1>1, <2>1, <2>4, <3>1 DEF RxCpls
    <3> QED BY <1>3, <3>2
  <2> QED BY <2>3, <2>4
<1> QED BY <1>6, <1>8, <1>9, <1>10 DEF RxIInv

\* The steps that move neither a pointer nor a page.
LEMMA RxQuiet ==
    ASSUME RxIInv, RxPollStart \/ RxComplete \/ RxDisable \/ RxDown
    PROVE  RxIInv'
<1>1. RxType /\ RxOrder /\ RxWriting /\ RxCpls /\ RxReach /\ RxClosed
  BY DEF RxIInv
<1>2. /\ rx_port # "closed" /\ rx_port' \in {"up", "disabled", "down"}
      /\ rx_port' = "down" => writing = {}
      /\ UNCHANGED <<rx_prod, rx_cons, rx_info, rx_doorbell, hw_cons, writing, cpls>>
  BY <1>1 DEF RxPollStart, RxComplete, RxDisable, RxDown, RxClosed, RxType, RxWriting
<1>3. rx_napi' \in [pc : {"idle", "sched", "cpl", "complete"}, done : Nat]
  BY <1>1 DEF RxPollStart, RxComplete, RxDisable, RxDown, RxType, RxNapiIdle
<1>4. RxType'
  BY <1>1, <1>2, <1>3 DEF RxType
<1>5. RxOrder' /\ RxWriting' /\ RxCpls' /\ RxReach' /\ RxClosed'
  BY <1>1, <1>2 DEF RxOrder, RxOff, RxWriting, RxPosted, RxCpls, RxReach, RxClosed
<1> QED BY <1>4, <1>5 DEF RxIInv

\* mqnic_free_rx_buf reaches every page.
LEMMA RxCloseInv ==
    ASSUME RxIInv, RxClose
    PROVE  RxIInv'
<1>1. RxType /\ RxOrder /\ RxWriting /\ RxReach
  BY DEF RxIInv
<1>2. /\ rx_port = "down" /\ writing = {} /\ rx_port' = "closed"
      /\ rx_info' = FreeRxBuf /\ rx_cons' = rx_prod /\ rx_napi' = RxNapiIdle /\ cpls' = <<>>
      /\ UNCHANGED <<rx_prod, rx_doorbell, hw_cons, writing>>
  BY <1>1 DEF RxClose, RxWriting
<1>3. \A s \in RxSlots : rx_info'[s] = "none"
  <2> SUFFICES ASSUME NEW s \in RxSlots PROVE FreeRxBuf[s] = "none"
    BY <1>2
  <2>1. rx_info[s] # "none" =>
          \E p \in RxPtrs : RxSlot(p) = s /\ RxDist(rx_cons, p) < RxDist(rx_cons, rx_prod)
    BY <1>1, <1>2 DEF RxReach, RxOff
  <2> QED BY <2>1 DEF FreeRxBuf
<1>4. RxType'
  BY <1>1, <1>2, <1>3 DEF RxType, RxNapiIdle, FreeRxBuf
<1>5. RxOrder' /\ RxWriting' /\ RxCpls' /\ RxReach' /\ RxClosed'
  BY <1>2, <1>3 DEF RxOrder, RxWriting, RxCpls, RxReach, RxClosed, RxNapiIdle
<1> QED BY <1>4, <1>5 DEF RxIInv

\* The consumer pointer moves past empty slots only, and not past the hardware.
LEMMA RxConsAfter ==
    ASSUME RxIInv, rx_port # "closed"
    PROVE  \E most \in Nat :
             /\ ConsAfter = (rx_cons + most) % RxMod
             /\ most <= RxOff(hw_cons)
             /\ \A k \in 0 .. most - 1 : rx_info[RxSlot(rx_cons + k)] = "none"
<1> DEFINE past == {n \in 0 .. RxDist(rx_cons, rx_prod) :
                      \A k \in 0 .. n-1 : rx_info[RxSlot(rx_cons + k)] = "none"}
           most == CHOOSE n \in past : \A x \in past : x <= n
<1>1. RxType /\ RxOrder /\ RxWriting
  BY DEF RxIInv
<1>2. /\ RxOff(hw_cons) \in Nat /\ RxOff(rx_prod) \in Nat
      /\ RxOff(hw_cons) <= RxOff(rx_prod)
      /\ RxDist(hw_cons, rx_prod) = RxOff(rx_prod) - RxOff(hw_cons)
      /\ hw_cons \in RxPtrs /\ rx_cons \in RxPtrs
  BY <1>1, RxNumbers DEF RxOrder, RxType
<1>3. past \in SUBSET (0 .. RxOff(rx_prod)) /\ 0 \in past
  BY <1>2 DEF RxOff
<1>4. \E n \in past : \A x \in past : x <= n
  BY <1>2, <1>3, GreatestExists
<1>5. most \in past
  BY <1>4
<1>6. /\ most \in 0 .. RxOff(rx_prod)
      /\ \A k \in 0 .. most - 1 : rx_info[RxSlot(rx_cons + k)] = "none"
  BY <1>5 DEF RxOff
<1>7. ConsAfter = (rx_cons + most) % RxMod
  BY DEF ConsAfter, RxMod
<1> HIDE DEF most
<1>8. most <= RxOff(hw_cons)
  <2> SUFFICES ASSUME ~(most <= RxOff(hw_cons)) PROVE FALSE
    OBVIOUS
  <2>1. RxOff(hw_cons) \in 0 .. most - 1 /\ RxDist(hw_cons, rx_prod) > 0
    BY <1>2, <1>6
  <2>2. rx_info[RxSlot(rx_cons + RxOff(hw_cons))] = "none"
    BY <1>6, <2>1
  <2>3. RxSlot(rx_cons + RxOff(hw_cons)) = RxSlot(hw_cons)
    BY <1>2, RxDistance, RxPlus DEF RxOff
  <2>4. RxDist(hw_cons, hw_cons) = 0
    BY <1>2, RxDistance
  <2>5. rx_info[RxSlot(hw_cons)] = "free"
    BY <1>1, <1>2, <2>1, <2>4 DEF RxWriting, RxPosted
  <2> QED BY <2>2, <2>3, <2>5
<1> QED BY <1>2, <1>6, <1>7, <1>8

\* The end of the poll: the consumer pointer moves, and the ring is refilled
\* into empty slots, at most as far as a ring from there.
LEMMA RxPollEndInv ==
    ASSUME RxIInv, NEW skb \in BOOLEAN, NEW n \in 0 .. RX_RING_SIZE, RxPollEnd(skb, n)
    PROVE  RxIInv'
<1>1. RxType /\ RxOrder /\ RxWriting /\ RxCpls /\ RxReach /\ RxClosed
  BY DEF RxIInv
<1>2. rx_port # "closed"
  BY <1>1 DEF RxPollEnd, RxClosed
<1>3. PICK most \in Nat :
        /\ ConsAfter = (rx_cons + most) % RxMod
        /\ most <= RxOff(hw_cons)
        /\ \A k \in 0 .. most - 1 : rx_info[RxSlot(rx_cons + k)] = "none"
  BY <1>2, RxConsAfter
<1>4. /\ rx_cons' = ConsAfter /\ Refillable(ConsAfter, n) /\ rx_info' = Refilled(n)
      /\ rx_prod' = (rx_prod + n) % RxMod /\ rx_doorbell' = rx_prod'
      /\ UNCHANGED <<rx_port, hw_cons, writing, cpls>>
      /\ n \in Nat
  BY RxSizes DEF RxPollEnd, RxMod
<1>5. /\ rx_prod \in RxPtrs /\ rx_cons \in RxPtrs /\ hw_cons \in RxPtrs
      /\ rx_cons' \in RxPtrs /\ rx_prod' \in RxPtrs
  BY <1>1, <1>3, <1>4, RxPlus DEF RxType
<1>6. /\ RxOff(hw_cons) \in Nat /\ RxOff(rx_prod) \in Nat /\ RxOff(rx_prod) < RxMod
      /\ RxOff(hw_cons) <= RxOff(rx_prod) /\ RxOff(rx_prod) <= RX_RING_SIZE
      /\ RxDist(hw_cons, rx_prod) = RxOff(rx_prod) - RxOff(hw_cons)
      /\ RX_RING_SIZE \in Nat /\ RxMod \in Nat /\ RX_RING_SIZE < RxMod
  BY <1>1, <1>2, RxNumbers, RxSizes DEF RxOrder
<1>7. RxOff(rx_cons') = most
  <2>1. RxOff(rx_cons) = 0
    BY <1>5, RxDistance DEF RxOff
  <2>2. RxOff(rx_cons) + most < RxMod
    BY <1>3, <1>6, <2>1
  <2> QED BY <1>3, <1>4, <1>5, <2>1, <2>2, RxPlus DEF RxOff
\* Offsets from the new consumer pointer.
<1>8. \A p \in RxPtrs : most <= RxOff(p) => RxDist(rx_cons', p) = RxOff(p) - most
  BY <1>5, <1>7, RxDistSplit DEF RxOff
<1>9. /\ RxDist(rx_cons', rx_prod) = RxOff(rx_prod) - most
      /\ RxDist(rx_cons', hw_cons) = RxOff(hw_cons) - most
  BY <1>3, <1>5, <1>6, <1>8
<1>10. /\ n <= RX_RING_SIZE - RxDist(rx_cons', rx_prod)
       /\ \A k \in 0 .. n - 1 : rx_info[RxSlot(rx_prod + k)] = "none"
  <2>1. Missing(ConsAfter) = RX_RING_SIZE - RxDist(rx_cons', rx_prod) /\ Missing(ConsAfter) >= 0
    BY <1>3, <1>4, <1>6, <1>9 DEF Missing
  <2>2. CASE Missing(ConsAfter) < REFILL
    BY <1>4, <2>1, <2>2 DEF Refillable
  <2>3. CASE ~(Missing(ConsAfter) < REFILL)
    BY <1>4, <2>1, <2>3 DEF Refillable
  <2> QED BY <2>2, <2>3
<1>11. RxDist(rx_cons', rx_prod') = RxDist(rx_cons', rx_prod) + n
  <2>1. RxDist(rx_cons', rx_prod) + n < RxMod
    BY <1>3, <1>4, <1>6, <1>9, <1>10
  <2> QED BY <1>4, <1>5, <2>1, RxPlus
<1>12. RxDist(hw_cons, rx_prod') = RxDist(hw_cons, rx_prod) + n
  <2>1. RxDist(hw_cons, rx_prod) + n < RxMod
    BY <1>3, <1>4, <1>6, <1>9, <1>10
  <2> QED BY <1>4, <1>5, <2>1, RxPlus
\* The pages after the refill.
<1>13. \A s \in RxSlots : rx_info'[s] = IF \E k \in 0 .. n-1 : RxSlot(rx_prod + k) = s
                                        THEN "free" ELSE rx_info[s]
  BY <1>4 DEF Refilled
<1>14. \A s \in RxSlots : rx_info[s] # "none" => rx_info'[s] = rx_info[s]
  BY <1>10, <1>13
<1>15. \A k \in 0 .. n - 1 : /\ (rx_prod + k) % RxMod \in RxPtrs
                             /\ RxSlot((rx_prod + k) % RxMod) = RxSlot(rx_prod + k)
                             /\ RxSlot(rx_prod + k) \in RxSlots
                             /\ rx_info'[RxSlot(rx_prod + k)] = "free"
  <2> SUFFICES ASSUME NEW k \in 0 .. n - 1
               PROVE  /\ (rx_prod + k) % RxMod \in RxPtrs
                      /\ RxSlot((rx_prod + k) % RxMod) = RxSlot(rx_prod + k)
                      /\ RxSlot(rx_prod + k) \in RxSlots
                      /\ rx_info'[RxSlot(rx_prod + k)] = "free"
    OBVIOUS
  <2>1. k \in Nat
    BY <1>4
  <2> QED BY <1>5, <1>13, <2>1, RxPlus
<1>16. RxType'
  <2>1. rx_info' \in [RxSlots -> {"none", "free", "packet"}]
    BY <1>1, <1>4, <1>13 DEF RxType, Refilled
  <2>2. rx_napi' \in [pc : {"idle", "sched", "cpl", "complete"}, done : Nat]
    BY <1>1 DEF RxType, RxPollEnd
  <2> QED BY <1>1, <1>4, <1>5, <2>1, <2>2 DEF RxType
<1>17. RxOrder'
  <2>1. RxOff(hw_cons)' = RxOff(hw_cons) - most
        /\ RxOff(rx_prod)' = RxOff(rx_prod) - most + n
    BY <1>4, <1>9, <1>11 DEF RxOff
  <2> QED BY <1>3, <1>4, <1>6, <1>9, <1>10, <2>1 DEF RxOrder
<1>18. RxWriting'
  <2>1. \A s \in writing' : rx_info'[s] = "free"
    BY <1>1, <1>4, <1>14 DEF RxWriting, RxType
  <2>2. ASSUME NEW p \in RxPtrs, RxPosted(p)'
        PROVE  rx_info'[RxSlot(p)] = "free" /\ RxSlot(p) \notin writing'
    <3>1. /\ RxDist(hw_cons, p) \in Nat /\ RxSlot(p) \in RxSlots
          /\ RxDist(hw_cons, p) < RxDist(hw_cons, rx_prod) + n
      BY <1>4, <1>5, <1>12, <2>2, RxDistance DEF RxPosted
    <3>2. CASE RxPosted(p)
      BY <1>1, <1>2, <1>4, <1>14, <3>1, <3>2 DEF RxWriting
    <3>3. CASE ~RxPosted(p)
      <4> DEFINE k == RxDist(rx_prod, p)
      <4>1. k = RxDist(hw_cons, p) - RxDist(hw_cons, rx_prod)
        BY <1>5, <1>6, <3>1, <3>3, RxDistSplit DEF RxPosted
      <4>2. k \in 0 .. n - 1
        BY <1>4, <1>6, <3>1, <3>3, <4>1 DEF RxPosted
      <4>3. (rx_prod + k) % RxMod = p
        BY <1>5, RxDistance
      <4> HIDE DEF k
      <4>4. RxSlot(p) = RxSlot(rx_prod + k)
        BY <1>15, <4>2, <4>3
      <4>5. rx_info'[RxSlot(p)] = "free" /\ rx_info[RxSlot(p)] = "none"
        BY <1>10, <1>15, <4>2, <4>4
      <4> QED BY <1>1, <1>4, <4>5 DEF RxWriting
    <3> QED BY <3>2, <3>3
  <2> QED BY <1>1, <1>2, <1>4, <2>1, <2>2 DEF RxWriting
<1>19. RxCpls'
  <2>1. \A k \in 1 .. Len(cpls) : cpls[k] \in RxSlots
    BY <1>1 DEF RxType
  <2> QED BY <1>1, <1>4, <1>14, <2>1 DEF RxCpls
<1>20. RxReach'
  <2> SUFFICES ASSUME NEW s \in RxSlots, rx_info'[s] # "none"
               PROVE  \E p \in RxPtrs : /\ RxSlot(p) = s
                                        /\ RxDist(rx_cons', p) < RxDist(rx_cons', rx_prod')
    BY DEF RxReach, RxOff
  <2>1. CASE \E k \in 0 .. n-1 : RxSlot(rx_prod + k) = s
    <3>1. PICK k \in 0 .. n-1 : RxSlot(rx_prod + k) = s
      BY <2>1
    <3> DEFINE p == (rx_prod + k) % RxMod
    <3>2. p \in RxPtrs /\ RxSlot(p) = s
      BY <1>15, <3>1
    <3>3. k \in Nat /\ k < n
      BY <1>4
    <3>4. RxDist(rx_cons', rx_prod) + k < RxMod
      BY <1>3, <1>4, <1>6, <1>9, <1>10, <3>3
    <3>5. RxDist(rx_cons', p) = RxDist(rx_cons', rx_prod) + k
      BY <1>5, <3>3, <3>4, RxPlus
    <3>6. RxDist(rx_cons', p) < RxDist(rx_cons', rx_prod')
      BY <1>3, <1>4, <1>6, <1>9, <1>11, <3>3, <3>5
    <3> QED BY <3>2, <3>6
  <2>2. CASE ~ \E k \in 0 .. n-1 : RxSlot(rx_prod + k) = s
    <3>1. rx_info[s] # "none"
      BY <1>13, <2>2
    <3>2. PICK p \in RxPtrs : RxSlot(p) = s /\ RxOff(p) < RxOff(rx_prod)
      BY <1>1, <1>2, <3>1 DEF RxReach
    <3>3. RxOff(p) \in Nat /\ (rx_cons + RxOff(p)) % RxMod = p
      BY <1>5, RxDistance DEF RxOff
    <3>4. RxSlot(rx_cons + RxOff(p)) = s
      BY <1>5, <3>2, <3>3, RxPlus
    <3>5. most <= RxOff(p)
      <4>1. RxOff(p) \notin 0 .. most - 1
        BY <1>3, <3>1, <3>4
      <4> QED BY <1>3, <3>3, <4>1
    <3>6. RxDist(rx_cons', p) = RxOff(p) - most
      BY <1>8, <3>5
    <3>7. RxDist(rx_cons', p) < RxDist(rx_cons', rx_prod')
      BY <1>3, <1>4, <1>6, <1>9, <1>11, <3>2, <3>3, <3>6
    <3> QED BY <3>2, <3>7
  <2> QED BY <2>1, <2>2
<1>21. RxClosed'
  BY <1>2, <1>4 DEF RxClosed
<1> QED BY <1>16, <1>17, <1>18, <1>19, <1>20, <1>21 DEF RxIInv

\* Every step of the hardware, the poll and the port preserves the invariant.
LEMMA RxInductive == RxIInv /\ [RxNext]_rxVars => RxIInv'
<1> SUFFICES ASSUME RxIInv, [RxNext]_rxVars PROVE RxIInv'
  OBVIOUS
<1>1. CASE RxOpen
  BY <1>1, RxOpenInv
<1>2. CASE HwTake
  BY <1>2, RxHwTake
<1>3. CASE RxPollStart \/ RxComplete \/ RxDisable \/ RxDown
  BY <1>3, RxQuiet
<1>4. CASE RxPollCpl
  BY <1>4, RxPollCplInv
<1>5. CASE \E skb \in BOOLEAN, n \in 0 .. RX_RING_SIZE : RxPollEnd(skb, n)
  BY <1>5, RxPollEndInv
<1>6. CASE RxClose
  BY <1>6, RxCloseInv
<1>7. CASE \E s \in RxSlots : HwComplete(s)
  BY <1>7, RxHwComplete
<1>8. CASE UNCHANGED rxVars
  BY <1>8 DEF rxVars, RxIInv, RxType, RxOrder, RxOff, RxWriting, RxPosted, RxCpls, RxReach,
              RxClosed
<1> QED BY <1>1, <1>2, <1>3, <1>4, <1>5, <1>6, <1>7, <1>8 DEF RxNext, RxPoll

\* Every page of the receive ring has one owner, for every ring size, refill
\* threshold and budget, although packets finish out of order and any number of
\* pages or skbs cannot be had: the hardware writes only into free pages, a
\* completion finds its packet, and a closed ring holds no page (mqnic_rx.c).
THEOREM PagesAreOwned == RxSpec => []PagesOwned
<1>1. RxSpec => []RxIInv
  BY RxInitInv, RxInductive, PTL DEF RxSpec
<1> QED BY <1>1, RxInvImplies, PTL

-----------------------------------------------------------------------------
(* The clock.  Quotients and remainders first.                             *)

\* A quotient and a remainder are the only ones.
LEMMA OnlyQuotient ==
    ASSUME NEW m \in Nat \ {0}, NEW q \in Int, NEW r \in 0 .. m - 1
    PROVE  (m * q + r) \div m = q /\ (m * q + r) % m = r
<1> DEFINE x == m * q + r
<1>1. x \in Int
  OBVIOUS
<1>2. x = m * (x \div m) + (x % m) /\ x \div m \in Int /\ x % m \in 0 .. m - 1
  BY <1>1
<1>3. x = m * q + r
  OBVIOUS
<1> HIDE DEF x
<1>4. m * (q - x \div m) = (x % m) - r
  BY <1>1, <1>2, <1>3
<1>5. \A n \in Int : -m < m * n /\ m * n < m => n = 0
  OBVIOUS
<1>6. q - x \div m = 0
  <2>1. PICK n \in Int : n = q - x \div m
    BY <1>2
  <2>2. -m < m * n /\ m * n < m
    BY <1>2, <1>4, <2>1
  <2> QED BY <1>5, <2>1, <2>2
<1>7. x \div m = q /\ x % m = r
  BY <1>1, <1>2, <1>4, <1>6
<1> QED BY <1>7 DEF x

\* A number cut into words of k pieces of b.
LEMMA Pieces ==
    ASSUME NEW k \in Nat \ {0}, NEW b \in Nat \ {0}, NEW x \in Nat
    PROVE  /\ (x % (b * k)) \div b = (x \div b) % k
           /\ (x \div b) \div k = x \div (b * k)
           /\ x \div b \in Nat
<1> DEFINE m == b * k
<1>1. m \in Nat \ {0}
  OBVIOUS
<1>0. m = b * k
  OBVIOUS
<1> HIDE DEF m
<1>2. PICK q \in Int, r \in 0 .. m - 1 : q = x \div m /\ r = x % m
  BY <1>1
<1>3. x = m * q + r
  <2>1. x = m * (x \div m) + (x % m)
    BY <1>1
  <2> QED BY <1>2, <2>1
<1>4. PICK s \in Int, u \in 0 .. b - 1 : s = r \div b /\ u = r % b
  BY <1>1, <1>2
<1>5. r = b * s + u
  BY <1>1, <1>2, <1>4
<1>6. s \in 0 .. k - 1
  <2>1. s >= 0
    BY <1>1, <1>2, <1>4
  <2>2. ~(s >= k)
    <3>1. ASSUME s >= k PROVE FALSE
      <4>1. b * s >= b * k
        BY <3>1, <1>4
      <4> QED BY <4>1, <1>0, <1>1, <1>2, <1>4, <1>5
    <3> QED BY <3>1
  <2> QED BY <2>1, <2>2, <1>4
<1>7. PICK w \in Int : w = k * q + s
  BY <1>2, <1>4
<1>8. x = b * w + u
  <2>1. m * q = b * (k * q)
    <3>1. (b * k) * q = b * (k * q)
      BY <1>2, SMTT(20)
    <3> QED BY <1>0, <3>1
  <2>2. b * w = b * (k * q) + b * s
    BY <1>7, <1>2, <1>4
  <2> QED BY <2>1, <2>2, <1>2, <1>3, <1>4, <1>5, <1>7
<1>9. x \div b = w /\ x % b = u
  BY <1>8, OnlyQuotient
<1>10. w \div k = q /\ w % k = s
  BY <1>2, <1>6, <1>7, OnlyQuotient
<1>11. w >= 0
  BY <1>9
<1> QED BY <1>0, <1>2, <1>4, <1>9, <1>10, <1>11

\* How the scaled widths divide each other.
LEMMA Widths ==
    /\ TPS \in Nat \ {0} /\ BYTE \in Nat \ {0}
    /\ \E k \in Nat \ {0} : FIELD = BYTE * k /\ FIELD \div BYTE = k
    /\ \E k \in Nat \ {0} : WORD = BYTE * k
    /\ WORD \in Nat \ {0}
<1>1. /\ TPS \in Nat \ {0} /\ BYTE \in Nat \ {0} /\ FIELD \in Nat \ {0} /\ WORD \in Nat \ {0}
      /\ FIELD % BYTE = 0 /\ WORD % FIELD = 0
  BY PtpAssumption
<1>2. PICK k \in Int : k = FIELD \div BYTE
  BY <1>1
<1>3. FIELD = BYTE * k
  BY <1>1, <1>2
<1>4. k \in Nat \ {0}
  <2>1. k > 0
    BY <1>1, <1>2, <1>3
  <2> QED BY <2>1
<1>5. PICK l \in Int : l = WORD \div FIELD
  BY <1>1
<1>6. WORD = FIELD * l
  BY <1>1, <1>5
<1>7. l > 0
  BY <1>1, <1>5, <1>6
<1>8. WORD = BYTE * (k * l) /\ k * l \in Nat \ {0}
  <2>1. (BYTE * k) * l = BYTE * (k * l)
    BY <1>1, <1>4
  <2>2. k * l \in Nat \ {0}
    BY <1>4, <1>7
  <2> QED BY <2>1, <2>2, <1>3, <1>6
<1> QED BY <1>1, <1>2, <1>3, <1>4, <1>8

\* Seconds and nanoseconds of a time.
LEMMA Times ==
    ASSUME NEW x \in Nat
    PROVE  Sec(x) \in Nat /\ Ns(x) \in 0 .. TPS - 1 /\ x = Sec(x) * TPS + Ns(x)
<1>1. TPS \in Nat \ {0}
  BY Widths
<1>2. x \div TPS \in Int /\ x \div TPS >= 0 /\ x % TPS \in 0 .. TPS - 1 /\ x = TPS * (x \div TPS) + (x % TPS)
  BY <1>1
<1> QED BY <1>1, <1>2 DEF Sec, Ns

\* Or-ing two times of the same block gives the seconds of the record.
LEMMA Mixed ==
    ASSUME NEW s \in Nat, NEW c \in Nat, Block(c) = Block(s)
    PROVE  LET bytes == FIELD \div BYTE IN
           (Block(c) \div bytes) * FIELD + OrBytes(Block(c) % bytes, Block(s % FIELD)) * BYTE
             + ((s % FIELD) % BYTE) = s
<1>1. PICK k \in Nat \ {0} : FIELD = BYTE * k /\ FIELD \div BYTE = k
  BY Widths
<1>2. BYTE \in Nat \ {0}
  BY Widths
<1>3. PICK w \in Nat : w = s \div BYTE
  BY <1>2
<1>4. PICK u \in 0 .. BYTE - 1 : u = s % BYTE
  BY <1>2
<1>5. s = BYTE * w + u
  BY <1>2, <1>3, <1>4
<1>6. (s % FIELD) \div BYTE = w % k /\ (s % FIELD) % BYTE = u
  <2>1. (s % FIELD) \div BYTE = w % k
    BY <1>1, <1>2, <1>3, Pieces
  <2>2. (s % FIELD) % BYTE = s % BYTE
    <3>1. FIELD = k * BYTE
      BY <1>1, <1>2
    <3>2. (s % (k * BYTE)) % BYTE = s % BYTE
      <4>1. s \in Int
        OBVIOUS
      <4> QED BY <1>2, <4>1, SlotOfWrapped, Zenon
    <3> QED BY <3>1, <3>2
  <2> QED BY <1>4, <2>1, <2>2
<1>7. OrBytes(w % k, w % k) = w % k
  <2>1. w % k \in 0 .. k - 1
    BY <1>3
  <2>2. \A x \in 0 .. k - 1 : OrBytes(x, x) = x
    BY <1>1, PtpAssumption
  <2> QED BY <2>1, <2>2
<1>8. (w \div k) * (BYTE * k) + (w % k) * BYTE + u = s
  <2>1. PICK q \in Int : q = w \div k
    BY <1>3
  <2>2. PICK r \in Int : r = w % k
    BY <1>3
  <2>3. w = k * q + r
    BY <1>3, <2>1, <2>2
  <2>4. BYTE * w = BYTE * (k * q) + BYTE * r
    BY <1>2, <2>1, <2>2, <2>3
  <2>5. BYTE * (k * q) = q * (BYTE * k) /\ BYTE * r = r * BYTE
    BY <1>2, <2>1, <2>2
  <2>6. q * (BYTE * k) + r * BYTE + u = s
    BY <1>2, <1>3, <1>4, <1>5, <2>4, <2>5
  <2> QED BY <2>1, <2>2, <2>6
<1>9. Block(c) = w /\ Block(s % FIELD) = w % k
  BY <1>3, <1>6 DEF Block
<1> QED BY <1>1, <1>6, <1>7, <1>8, <1>9

\* Seconds that agree in the second byte and are not too far apart are of one block.
LEMMA OneBlock ==
    ASSUME NEW s \in Nat, NEW c \in Nat, NEW p \in Nat, Block(p) = Block(c),
           Block(p % FIELD) = Block(s % FIELD), s - c \in BYTE - FIELD .. FIELD - BYTE
    PROVE  Block(s) = Block(c)
<1>1. PICK k \in Nat \ {0} : FIELD = BYTE * k /\ FIELD \div BYTE = k
  BY Widths
<1>2. BYTE \in Nat \ {0}
  BY Widths
<1>3. PICK w \in Nat, v \in Nat : w = s \div BYTE /\ v = c \div BYTE
  BY <1>2
<1>4. PICK x \in 0 .. BYTE - 1 : x = s % BYTE
  BY <1>2
<1>13. PICK y \in 0 .. BYTE - 1 : y = c % BYTE
  BY <1>2
<1>5. s = BYTE * w + x /\ c = BYTE * v + y
  BY <1>2, <1>3, <1>4, <1>13
<1>6. w % k = v % k
  <2>1. (s % FIELD) \div BYTE = w % k
    BY <1>1, <1>2, <1>3, Pieces
  <2>2. (p % FIELD) \div BYTE = (p \div BYTE) % k
    BY <1>1, <1>2, Pieces
  <2> QED BY <2>1, <2>2, <1>3 DEF Block
<1>7. s - c = BYTE * (w - v) + (x - y)
  <2>1. BYTE * (w - v) = BYTE * w - BYTE * v
    BY <1>2, <1>3
  <2> QED BY <1>2, <1>3, <1>4, <1>5, <1>13, <2>1
<1>8. PICK n \in Int : n = w - v
  BY <1>3
<1>9. ~(n >= k)
  <2>1. ASSUME n >= k PROVE FALSE
    <3>1. BYTE * n >= BYTE * k
      BY <2>1, <1>2, <1>8
    <3> QED BY <3>1, <1>1, <1>2, <1>4, <1>7, <1>8, <1>13
  <2> QED BY <2>1
<1>10. ~(n <= -k)
  <2>1. ASSUME n <= -k PROVE FALSE
    <3>1. BYTE * n <= BYTE * (-k) /\ BYTE * (-k) = -(BYTE * k)
      BY <2>1, <1>2, <1>8
    <3> QED BY <3>1, <1>1, <1>2, <1>4, <1>7, <1>8, <1>13
  <2> QED BY <2>1
<1>11. -k < v - w /\ v - w < k
  BY <1>3, <1>8, <1>9, <1>10
<1>12. w = v
  <2>1. w \in Int /\ v \in Int
    OBVIOUS
  <2> QED BY <2>1, <1>6, <1>11, SameRemainder
<1> QED BY <1>3, <1>12 DEF Block

\* Seconds of one block have the same upper word.
LEMMA OneWord ==
    ASSUME NEW s \in Nat, NEW c \in Nat, Block(s) = Block(c)
    PROVE  (c % WORD) + (s \div WORD) * WORD = c
<1>1. PICK k \in Nat \ {0} : WORD = BYTE * k
  BY Widths
<1>2. BYTE \in Nat \ {0} /\ WORD \in Nat \ {0}
  BY Widths
<1>3. s \div WORD = c \div WORD
  <2>1. (s \div BYTE) \div k = s \div WORD /\ (c \div BYTE) \div k = c \div WORD
    BY <1>1, <1>2, Pieces
  <2> QED BY <2>1 DEF Block
<1>4. c = WORD * (c \div WORD) + (c % WORD) /\ c \div WORD \in Int /\ c % WORD \in Int
  BY <1>2
<1> QED BY <1>2, <1>3, <1>4

-----------------------------------------------------------------------------
(* The inductive invariant of the clock, for any number of callers: they   *)
(* share the registers the time is read from and written to.               *)

Calls == [pc : {"idle", "get_fns", "get_ns", "get_sec_l", "get_sec_h", "adj", "set_ns", "set_sec_l",
                "set_sec_h"},
          op : {"none", "get", "set", "adj"}, arg : Int, from : Nat, ns : Nat, sec : Nat, ok : BOOLEAN]
Records == [at : Nat, ok : BOOLEAN]
Reading == {"get_ns", "get_sec_l", "get_sec_h"}

PtpShape ==
    /\ phc \in Nat /\ latch \in Nat /\ set_reg \in [ns : Nat, sec_l : Nat]
    /\ call \in [Callers -> Calls]
    /\ \A c \in Callers : call[c].pc \in {"set_ns", "set_sec_l", "set_sec_h"} => call[c].arg \in Nat
    /\ stamped \in Seq(Records)
    /\ ring_ts \in [valid : BOOLEAN, ts_s : Nat] /\ cached \in [sec : Nat, ok : BOOLEAN]
    /\ reader \in [pc : {"idle", "low", "high"}, lo : Nat]

\* What the ring caches is of the block of the time it was read at.
Cache ==
    /\ reader.pc = "idle" /\ ring_ts.valid /\ cached.ok => Block(ring_ts.ts_s) = Block(cached.sec)
    /\ reader.pc = "high" => reader.lo = cached.sec % WORD
    /\ reader.pc # "idle" => stamped # <<>>

\* What call k has read was latched since it began, by whoever; own says that it
\* was the last one to latch.
Fits(k, own, l, p) ==
    k.ok =>
        /\ k.pc = "get_fns" => k.from <= p
        /\ k.pc \in Reading => k.from <= l /\ l <= p
        /\ k.pc \in {"get_sec_l", "get_sec_h"} =>
             \E x \in Nat : k.from <= x /\ x <= l /\ k.ns = Ns(x) /\ (own => x = l)
        /\ k.pc = "get_sec_h" =>
             \E x \in Nat : k.from <= x /\ x <= l /\ k.sec = Sec(x) % WORD /\ (own => x = l)

Latched == \A c \in Callers : Fits(call[c], c \in latcher, latch, phc)

PtpInv == PtpShape /\ Cache /\ Latched /\ ClockTrue

\* Starting a call is the same for every operation.
LEMMA SetKeeps ==
    ASSUME NEW c \in Callers, PtpShape, Latched, phc' = phc, latch' = latch, latcher' = latcher,
           NEW r \in Calls, call' = [call EXCEPT ![c] = r],
           r.pc \in {"set_ns", "set_sec_l", "set_sec_h"} => r.arg \in Nat,
           Fits(r, c \in latcher, latch, phc)
    PROVE  /\ call' \in [Callers -> Calls]
           /\ \A d \in Callers : call'[d].pc \in {"set_ns", "set_sec_l", "set_sec_h"} => call'[d].arg \in Nat
           /\ Latched'
<1>1. call' \in [Callers -> Calls] /\ call'[c] = r /\ \A d \in Callers : d # c => call'[d] = call[d]
  BY DEF PtpShape
<1>2. \A d \in Callers : call'[d].pc \in {"set_ns", "set_sec_l", "set_sec_h"} => call'[d].arg \in Nat
  BY <1>1 DEF PtpShape
<1>3. ASSUME NEW d \in Callers PROVE Fits(call'[d], d \in latcher, latch, phc)
  <2>1. CASE d = c
    BY <1>1, <2>1
  <2>2. CASE d # c
    BY <1>1, <2>2 DEF Latched
  <2> QED BY <2>1, <2>2
<1>4. Latched'
  BY <1>3 DEF Latched
<1> QED BY <1>1, <1>2, <1>4

\* A call that has latched nothing yet, and one that time passes for.
LEMMA FitsNothing ==
    ASSUME NEW k, NEW own, NEW l, NEW p, k.pc \notin Reading, k.pc = "get_fns" => k.from <= p
    PROVE  Fits(k, own, l, p)
  BY DEF Fits, Reading

LEMMA FitsLater ==
    ASSUME NEW k \in Calls, NEW own, NEW l \in Nat, NEW p \in Nat, NEW q \in Nat, p <= q,
           Fits(k, own, l, p)
    PROVE  Fits(k, own, l, q)
<1>1. k.from \in Nat
  BY DEF Calls
<1>2. k.ok /\ k.pc = "get_fns" => k.from <= q
  BY <1>1 DEF Fits
<1>3. k.ok /\ k.pc \in Reading => k.from <= l /\ l <= q
  BY <1>1 DEF Fits
<1>4. k.ok /\ k.pc \in {"get_sec_l", "get_sec_h"} =>
         \E x \in Nat : k.from <= x /\ x <= l /\ k.ns = Ns(x) /\ (own => x = l)
  BY DEF Fits
<1>5. k.ok /\ k.pc = "get_sec_h" =>
         \E x \in Nat : k.from <= x /\ x <= l /\ k.sec = Sec(x) % WORD /\ (own => x = l)
  BY DEF Fits
<1> QED BY <1>2, <1>3, <1>4, <1>5 DEF Fits

\* Another caller latches: what was read before is no less of the call's time.
LEMMA FitsOther ==
    ASSUME NEW k \in Calls, NEW own, NEW l \in Nat, NEW p \in Nat, Fits(k, own, l, p)
    PROVE  Fits(k, FALSE, p, p)
<1>1. k.from \in Nat
  BY DEF Calls
<1>2. k.ok /\ k.pc = "get_fns" => k.from <= p
  BY <1>1 DEF Fits
<1>3. k.ok /\ k.pc \in Reading => k.from <= l /\ l <= p
  BY <1>1 DEF Fits
<1>4. ASSUME k.ok, k.pc \in {"get_sec_l", "get_sec_h"}
      PROVE  \E x \in Nat : k.from <= x /\ x <= p /\ k.ns = Ns(x)
  <2>1. PICK x \in Nat : k.from <= x /\ x <= l /\ k.ns = Ns(x)
    BY <1>4 DEF Fits
  <2>2. l <= p
    BY <1>3, <1>4 DEF Reading
  <2> QED BY <2>1, <2>2
<1>5. ASSUME k.ok, k.pc = "get_sec_h"
      PROVE  \E x \in Nat : k.from <= x /\ x <= p /\ k.sec = Sec(x) % WORD
  <2>1. PICK x \in Nat : k.from <= x /\ x <= l /\ k.sec = Sec(x) % WORD
    BY <1>5 DEF Fits
  <2>2. l <= p
    BY <1>3, <1>5 DEF Reading
  <2> QED BY <2>1, <2>2
<1>6. k.ok /\ k.pc \in Reading => k.from <= p /\ p <= p
  BY <1>1, <1>3
<1> QED BY <1>2, <1>4, <1>5, <1>6 DEF Fits

\* Widening with a cache of the record's own block gives the record's time.
LEMMA WidenTrue ==
    ASSUME stamped \in Seq(Records), stamped # <<>>, NEW c \in Nat, Block(c) = Block(Sec(Head(stamped).at))
    PROVE  Widen(c) = Head(stamped).at
<1>1. PICK a \in Nat : a = Head(stamped).at
  <2>1. PICK r \in Records : r = Head(stamped)
    OBVIOUS
  <2> QED BY <2>1 DEF Records
<1>2. Sec(a) \in Nat /\ a = Sec(a) * TPS + Ns(a)
  BY Times
<1>3. PICK s \in Nat : s = Sec(a)
  BY <1>2
<1>4. Block(c) = Block(s) /\ CplSec = s % FIELD
  BY <1>1, <1>3 DEF CplSec
<1>5. (Block(c) \div (FIELD \div BYTE)) * FIELD
        + OrBytes(Block(c) % (FIELD \div BYTE), Block(s % FIELD)) * BYTE + ((s % FIELD) % BYTE) = s
  BY <1>4, Mixed
<1>6. Widen(c) = s * TPS + Ns(a)
  BY <1>1, <1>4, <1>5 DEF Widen
<1> QED BY <1>1, <1>2, <1>3, <1>6

\* What the clock starts with.
LEMMA PtpStarts ==
    ASSUME PtpInit PROVE PtpInv
<1>1. START \in Nat /\ WORD \in Nat \ {0}
  BY PtpAssumption, Widths
<1>2. Sec(START) \in Nat /\ Ns(START) \in Nat
  BY <1>1, Times, Widths
<1>3. Sec(START) % WORD \in Nat
  BY <1>1, <1>2
<1>4. set_reg \in [ns : Nat, sec_l : Nat]
  BY <1>2, <1>3 DEF PtpInit
<1>5. Quiet \in Calls /\ Quiet.pc = "idle"
  BY DEF Quiet, Calls
<1>6. call \in [Callers -> Calls] /\ \A c \in Callers : call[c].pc = "idle"
  BY <1>5 DEF PtpInit
<1>7. stamped \in Seq(Records) /\ stamped = <<>>
  BY DEF PtpInit
<1>8. PtpShape
  BY <1>1, <1>4, <1>6, <1>7 DEF PtpInit, PtpShape
<1>9. Cache
  BY DEF PtpInit, Cache
<1>10. Latched
  BY <1>6, FitsNothing DEF Latched, Reading
<1>11. ClockTrue
  BY DEF PtpInit, ClockTrue, CplTimeTrue, GetTimeTrue, HalfPeriod
<1> QED BY <1>8, <1>9, <1>10, <1>11 DEF PtpInv

\* Time passes.
LEMMA TickKeeps ==
    ASSUME PtpInv, Tick PROVE PtpInv'
<1>1. /\ phc' = phc + 1
      /\ UNCHANGED <<latch, latcher, set_reg, call, stamped, ring_ts, cached, reader, report, answer, perout>>
  BY DEF Tick
<1>2. phc \in Nat /\ latch \in Nat /\ call \in [Callers -> Calls]
  BY DEF PtpInv, PtpShape
<1>3. PtpShape'
  BY <1>1, <1>2 DEF PtpInv, PtpShape
<1>4. Cache'
  BY <1>1 DEF PtpInv, Cache, Block
<1>5. Latched'
  <2>1. SUFFICES ASSUME NEW d \in Callers PROVE Fits(call[d], d \in latcher, latch, phc')
    BY <1>1 DEF Latched
  <2>2. call[d] \in Calls /\ phc' \in Nat /\ phc <= phc'
    BY <1>1, <1>2
  <2> QED BY <1>2, <2>2, FitsLater DEF PtpInv, Latched
<1>6. ClockTrue'
  BY <1>1 DEF PtpInv, ClockTrue, CplTimeTrue, GetTimeTrue, HalfPeriod
<1> QED BY <1>3, <1>4, <1>5, <1>6 DEF PtpInv

\* Records, the cache and the periodic output are nothing to the calls.
LEMMA CallsFrame ==
    ASSUME PtpInv, UNCHANGED <<phc, latch, latcher, set_reg, call>>
    PROVE  Latched'
  BY DEF PtpInv, Latched

\* A record is stamped.
LEMMA StampKeeps ==
    ASSUME PtpInv, Stamp PROVE PtpInv'
<1>1. /\ UNCHANGED <<phc, latch, latcher, set_reg, call, ring_ts, cached, reader, report, answer, perout>>
  BY DEF Stamp
<1>2. PICK x : x = [at |-> phc, ok |-> TRUE]
  OBVIOUS
<1>3. x \in Records
  BY <1>2 DEF Records, PtpInv, PtpShape
<1>4. stamped' = Append(stamped, x)
  BY <1>2 DEF Stamp
<1>5. stamped' \in Seq(Records) /\ stamped' # <<>>
  BY <1>3, <1>4 DEF PtpInv, PtpShape
<1>6. PtpShape'
  BY <1>1, <1>5 DEF PtpInv, PtpShape
<1>7. Cache'
  BY <1>1, <1>5 DEF PtpInv, Cache, Block
<1>8. ClockTrue'
  BY <1>1 DEF PtpInv, ClockTrue, CplTimeTrue, GetTimeTrue, HalfPeriod
<1> QED BY <1>1, <1>6, <1>7, <1>8, CallsFrame DEF PtpInv

\* A record is read: a cache that need not be refreshed is of its block.
LEMMA ReadKeeps ==
    ASSUME PtpInv, ReadCplTs PROVE PtpInv'
<1>1. /\ UNCHANGED <<phc, latch, latcher, set_reg, call, ring_ts, cached, answer, perout>>
      /\ stamped # <<>> /\ reader.pc = "idle"
  BY DEF ReadCplTs
<1>2. CASE NeedsRefresh
  <2>1. reader' = [reader EXCEPT !.pc = "low"] /\ UNCHANGED <<stamped, report>>
    BY <1>2 DEF ReadCplTs
  <2>2. reader' \in [pc : {"idle", "low", "high"}, lo : Nat] /\ reader'.pc = "low"
    BY <2>1 DEF PtpInv, PtpShape
  <2>3. PtpShape'
    BY <1>1, <2>1, <2>2 DEF PtpInv, PtpShape
  <2>4. Cache'
    BY <1>1, <2>1, <2>2 DEF PtpInv, Cache
  <2>5. ClockTrue'
    BY <1>1, <2>1 DEF PtpInv, ClockTrue, CplTimeTrue, GetTimeTrue, HalfPeriod
  <2> QED BY <1>1, <2>3, <2>4, <2>5, CallsFrame DEF PtpInv
<1>3. CASE ~NeedsRefresh
  <2>1. /\ report' = (Steady(cached, Head(stamped)) => Widen(ring_ts.ts_s) = Head(stamped).at)
        /\ stamped' = Tail(stamped) /\ UNCHANGED reader
    BY <1>3 DEF ReadCplTs
  <2>2. stamped' \in Seq(Records)
    BY <1>1, <2>1 DEF PtpInv, PtpShape
  <2>3. PtpShape'
    BY <1>1, <2>1, <2>2 DEF PtpInv, PtpShape
  <2>4. Cache'
    BY <1>1, <2>1 DEF PtpInv, Cache, Block
  <2>5. ring_ts.valid /\ Block(ring_ts.ts_s % FIELD) = Block(CplSec)
    BY <1>3 DEF NeedsRefresh
  <2>6. ASSUME Steady(cached, Head(stamped)) PROVE Widen(ring_ts.ts_s) = Head(stamped).at
    <3>1. PICK p \in Nat, c \in Nat : p = ring_ts.ts_s /\ c = cached.sec
      BY DEF PtpInv, PtpShape
    <3>2. PICK s \in Nat : s = Sec(Head(stamped).at)
      <4>1. Head(stamped).at \in Nat
        <5>1. PICK r \in Records : r = Head(stamped)
          BY <1>1 DEF PtpInv, PtpShape
        <5> QED BY <5>1 DEF Records
      <4> QED BY <4>1, Times
    <3>3. Block(p) = Block(c)
      BY <1>1, <2>5, <2>6, <3>1 DEF PtpInv, Cache, Steady
    <3>4. Block(p % FIELD) = Block(s % FIELD)
      BY <2>5, <3>1, <3>2 DEF CplSec
    <3>5. s - c \in BYTE - FIELD .. FIELD - BYTE
      BY <2>6, <3>1, <3>2 DEF Steady
    <3>6. Block(s) = Block(c)
      BY <3>3, <3>4, <3>5, OneBlock
    <3> QED BY <1>1, <3>1, <3>2, <3>3, <3>6, WidenTrue DEF PtpInv, PtpShape
  <2>7. ClockTrue'
    BY <1>1, <2>1, <2>6 DEF PtpInv, ClockTrue, CplTimeTrue, GetTimeTrue, HalfPeriod
  <2> QED BY <1>1, <2>3, <2>4, <2>7, CallsFrame DEF PtpInv
<1> QED BY <1>2, <1>3

\* The lower word of the seconds is read.
LEMMA ReadLowKeeps ==
    ASSUME PtpInv, ReadSecL PROVE PtpInv'
<1>1. /\ UNCHANGED <<phc, latch, latcher, set_reg, call, stamped, ring_ts, report, answer, perout>>
      /\ reader.pc = "low" /\ reader' = [pc |-> "high", lo |-> Sec(phc) % WORD]
      /\ cached' = [sec |-> Sec(phc), ok |-> TRUE]
  BY DEF ReadSecL
<1>2. PICK s \in Nat : s = Sec(phc)
  BY Times DEF PtpInv, PtpShape
<1>3. PICK l \in Nat : l = s % WORD
  BY Widths
<1>4. reader' = [pc |-> "high", lo |-> l] /\ cached' = [sec |-> s, ok |-> TRUE]
  BY <1>1, <1>2, <1>3
<1>5. PtpShape'
  BY <1>1, <1>4 DEF PtpInv, PtpShape
<1>6. Cache'
  BY <1>1, <1>3, <1>4 DEF PtpInv, Cache
<1>7. ClockTrue'
  BY <1>1 DEF PtpInv, ClockTrue, CplTimeTrue, GetTimeTrue, HalfPeriod
<1> QED BY <1>1, <1>5, <1>6, <1>7, CallsFrame DEF PtpInv

\* The upper word of the seconds is read: if the clock has not left the block in
\* between, the two words are of one time.
LEMMA ReadHighKeeps ==
    ASSUME PtpInv, ReadSecH PROVE PtpInv'
<1>1. PICK s \in Nat : s = Sec(phc)
  BY Times DEF PtpInv, PtpShape
<1>2. PICK c \in Nat : c = cached.sec
  BY DEF PtpInv, PtpShape
<1>3. PICK p \in Nat : p = reader.lo + (s \div WORD) * WORD
  <2>1. WORD \in Nat \ {0} /\ reader.lo \in Nat
    BY Widths DEF PtpInv, PtpShape
  <2>2. s \div WORD \in Nat
    BY <2>1
  <2>3. (s \div WORD) * WORD \in Nat
    BY <2>1, <2>2
  <2> QED BY <2>1, <2>3
<1>4. PICK k : k = [cached EXCEPT !.ok = @ /\ Block(cached.sec) = Block(Sec(phc))]
  OBVIOUS
<1>5. k \in [sec : Nat, ok : BOOLEAN] /\ k.sec = c /\ (k.ok => Block(c) = Block(s))
  BY <1>1, <1>2, <1>4 DEF PtpInv, PtpShape
<1>6. /\ UNCHANGED <<phc, latch, latcher, set_reg, call, answer, perout>>
      /\ reader.pc = "high" /\ reader' = [pc |-> "idle", lo |-> 0]
      /\ stamped' = Tail(stamped)
  BY DEF ReadSecH
<1>7. /\ ring_ts' = [valid |-> TRUE, ts_s |-> p] /\ cached' = k
      /\ report' = (Steady(k, Head(stamped)) /\ Block(Sec(Head(stamped).at)) = Block(k.sec)
                      => Widen(p) = Head(stamped).at)
  BY <1>1, <1>3, <1>4 DEF ReadSecH
<1>8. stamped # <<>> /\ reader.lo = c % WORD
  BY <1>2, <1>6 DEF PtpInv, Cache
<1>9. k.ok => p = c
  BY <1>1, <1>2, <1>3, <1>5, <1>8, OneWord
<1>10. PtpShape'
  <2>1. stamped' \in Seq(Records)
    BY <1>6, <1>8 DEF PtpInv, PtpShape
  <2> QED BY <1>5, <1>6, <1>7, <2>1 DEF PtpInv, PtpShape
<1>11. Cache'
  BY <1>5, <1>6, <1>7, <1>9 DEF Cache, Block
<1>12. ASSUME Steady(k, Head(stamped)), Block(Sec(Head(stamped).at)) = Block(k.sec)
       PROVE  Widen(p) = Head(stamped).at
  <2>1. p = c
    BY <1>9, <1>12 DEF Steady
  <2> QED BY <1>5, <1>8, <1>12, <2>1, WidenTrue DEF PtpInv, PtpShape
<1>13. ClockTrue'
  BY <1>6, <1>7, <1>12 DEF PtpInv, ClockTrue, CplTimeTrue, GetTimeTrue, HalfPeriod
<1> QED BY <1>6, <1>10, <1>11, <1>13, CallsFrame DEF PtpInv

\* A step of a call that leaves the records, the cache and the outputs alone.
LEMMA CallStep ==
    ASSUME PtpInv, NEW c \in Callers, NEW r \in Calls, call' = [call EXCEPT ![c] = r],
           UNCHANGED <<phc, latch, latcher, stamped, ring_ts, cached, reader, report, perout>>,
           set_reg' \in [ns : Nat, sec_l : Nat], answer',
           r.pc \in {"set_ns", "set_sec_l", "set_sec_h"} => r.arg \in Nat,
           Fits(r, c \in latcher, latch, phc)
    PROVE  PtpInv'
<1>1. PtpShape /\ Latched
  BY DEF PtpInv
<1>2. /\ call' \in [Callers -> Calls]
      /\ \A d \in Callers : call'[d].pc \in {"set_ns", "set_sec_l", "set_sec_h"} => call'[d].arg \in Nat
      /\ Latched'
  BY <1>1, SetKeeps
<1>3. PtpShape'
  BY <1>1, <1>2 DEF PtpShape
<1>4. Cache'
  BY DEF PtpInv, Cache, Block
<1>5. ClockTrue'
  BY DEF PtpInv, ClockTrue, CplTimeTrue, GetTimeTrue, HalfPeriod
<1> QED BY <1>2, <1>3, <1>4, <1>5 DEF PtpInv

\* A call begins.
LEMMA BeginKeeps ==
    ASSUME PtpInv, NEW c \in Callers,
           \/ mqnic_phc_gettime(c)
           \/ \E x \in Jumps : mqnic_phc_settime(c, x)
           \/ \E x \in Deltas : mqnic_phc_adjtime(c, x)
    PROVE  PtpInv'
<1>1. PICK pc, op, arg : /\ BeginCall(c, pc, op, arg)
                         /\ pc \in {"get_fns", "set_ns", "adj"} /\ op \in {"get", "set", "adj"}
                         /\ arg \in Int /\ (pc = "set_ns" => arg \in Nat)
  <2>1. 0 \in Int /\ Deltas \subseteq Int /\ \A x \in Jumps : x \in Int /\ x \in Nat
    BY PtpAssumption
  <2>2. CASE mqnic_phc_gettime(c)
    BY <2>1, <2>2 DEF mqnic_phc_gettime
  <2>3. CASE \E x \in Jumps : mqnic_phc_settime(c, x)
    BY <2>1, <2>3 DEF mqnic_phc_settime
  <2>4. CASE \E x \in Deltas : mqnic_phc_adjtime(c, x)
    <3>1. PICK x \in Deltas : mqnic_phc_adjtime(c, x)
      BY <2>4
    <3>2. PICK p \in {"get_fns", "adj"} : BeginCall(c, p, "adj", x)
      BY <3>1 DEF mqnic_phc_adjtime
    <3> QED BY <2>1, <3>2
  <2> QED BY <2>2, <2>3, <2>4
<1>2. PICK f \in Nat : f = (IF op = "get" THEN phc ELSE 0) /\ f <= phc
  BY DEF PtpInv, PtpShape
<1>3. PICK r : r = [Quiet EXCEPT !.pc = pc, !.op = op, !.arg = arg, !.from = f]
  OBVIOUS
<1>4. r = [pc |-> pc, op |-> op, arg |-> arg, from |-> f, ns |-> 0, sec |-> 0, ok |-> TRUE]
  BY <1>3 DEF Quiet
<1>5. r \in Calls /\ r.pc = pc /\ r.arg = arg /\ r.from = f
  BY <1>1, <1>4 DEF Calls
<1>6. /\ UNCHANGED <<phc, latch, latcher, set_reg, stamped, ring_ts, cached, reader, report, answer, perout>>
      /\ call' = [call EXCEPT ![c] = r]
  BY <1>1, <1>2, <1>3 DEF BeginCall
<1>7. set_reg' \in [ns : Nat, sec_l : Nat] /\ answer'
  BY <1>6 DEF PtpInv, PtpShape, ClockTrue, GetTimeTrue
<1>8. /\ r.pc \in {"set_ns", "set_sec_l", "set_sec_h"} => r.arg \in Nat
      /\ r.pc = "get_fns" => r.from <= phc
      /\ r.pc \notin Reading
  BY <1>1, <1>2, <1>5 DEF Reading
<1> QED BY <1>5, <1>6, <1>7, <1>8, CallStep, FitsNothing

\* The rest of a call's record, for the steps that change some of it.
LEMMA CallOf ==
    ASSUME PtpInv, NEW c \in Callers
    PROVE  /\ call[c] \in Calls /\ call \in [Callers -> Calls]
           /\ phc \in Nat /\ latch \in Nat /\ set_reg \in [ns : Nat, sec_l : Nat] /\ answer
           /\ Fits(call[c], c \in latcher, latch, phc)
           /\ call[c].pc \in {"set_ns", "set_sec_l", "set_sec_h"} => call[c].arg \in Nat
  BY DEF PtpInv, PtpShape, Latched, ClockTrue, GetTimeTrue

\* The time is latched, and whoever was reading goes on with it.
LEMMA GetFnsKeeps ==
    ASSUME PtpInv, NEW c \in Callers, GetFns(c) PROVE PtpInv'
<1>1. /\ UNCHANGED <<phc, set_reg, stamped, ring_ts, cached, reader, report, answer, perout>>
      /\ call[c].pc = "get_fns" /\ latch' = phc /\ latcher' = {c}
      /\ call' = [call EXCEPT ![c].pc = "get_ns"]
  BY DEF GetFns
<1>2. PICK a \in Calls : a = call[c]
  BY CallOf
<1>3. PICK r : r = [a EXCEPT !.pc = "get_ns"]
  OBVIOUS
<1>4. r \in Calls /\ r.pc = "get_ns" /\ r.from = a.from /\ r.ok = a.ok
  BY <1>3 DEF Calls
<1>5. call' = [call EXCEPT ![c] = r]
  BY <1>1, <1>2, <1>3, CallOf
<1>6. call' \in [Callers -> Calls] /\ call'[c] = r /\ \A d \in Callers : d # c => call'[d] = call[d]
  BY <1>4, <1>5, CallOf
<1>7. PtpShape'
  BY <1>1, <1>4, <1>6 DEF PtpInv, PtpShape
<1>8. Cache' /\ ClockTrue'
  BY <1>1 DEF PtpInv, Cache, Block, ClockTrue, CplTimeTrue, GetTimeTrue, HalfPeriod
<1>9. ASSUME NEW d \in Callers PROVE Fits(call'[d], d \in {c}, phc, phc)
  <2>1. CASE d = c
    <3>1. phc \in Nat /\ (a.ok => a.from <= phc)
      BY <1>1, <1>2, CallOf DEF Fits
    <3> QED BY <1>4, <1>6, <2>1, <3>1 DEF Fits, Reading
  <2>2. CASE d # c
    <3>1. Fits(call[d], FALSE, phc, phc)
      BY CallOf, FitsOther
    <3>2. (d \in {c}) = FALSE
      BY <2>2
    <3> QED BY <1>6, <2>2, <3>1, <3>2
  <2> QED BY <2>1, <2>2
<1>10. Latched'
  BY <1>1, <1>9 DEF Latched
<1> QED BY <1>7, <1>8, <1>10 DEF PtpInv

\* The nanoseconds, then the lower seconds of what was latched.
LEMMA GetLowKeeps ==
    ASSUME PtpInv, NEW c \in Callers, GetNs(c) \/ GetSecL(c) PROVE PtpInv'
<1>1. UNCHANGED <<phc, latch, latcher, set_reg, stamped, ring_ts, cached, reader, report, answer, perout>>
  BY DEF GetNs, GetSecL
<1>2. PICK a \in Calls : a = call[c]
  BY CallOf
<1>3. Ns(latch) \in Nat /\ Sec(latch) \in Nat
  BY CallOf, Times, Widths
<1>4. CASE GetNs(c)
  <2>1. PICK n \in Nat : n = Ns(latch)
    BY <1>3
  <2>2. PICK r : r = [a EXCEPT !.pc = "get_sec_l", !.ns = n]
    OBVIOUS
  <2>3. r \in Calls /\ r.pc = "get_sec_l" /\ r.from = a.from /\ r.ns = n /\ r.ok = a.ok
    BY <2>2 DEF Calls
  <2>4. call' = [call EXCEPT ![c].pc = "get_sec_l", ![c].ns = n] /\ a.pc = "get_ns"
    BY <1>2, <1>4, <2>1 DEF GetNs
  <2>5. call' = [call EXCEPT ![c] = r]
    BY <1>2, <2>2, <2>4, CallOf
  <2>6. r.ok => r.from <= latch /\ latch <= phc /\ latch \in Nat
    BY <1>2, <2>3, <2>4, CallOf DEF Reading, Fits
  <2>7. set_reg' \in [ns : Nat, sec_l : Nat] /\ answer'
    BY <1>1, CallOf
  <2>8. r.ok => \E x \in Nat : r.from <= x /\ x <= latch /\ r.ns = Ns(x) /\ x = latch
    BY <2>1, <2>3, <2>6
  <2>9. Fits(r, c \in latcher, latch, phc)
    BY <2>3, <2>6, <2>8 DEF Fits
  <2> QED BY <1>1, <2>3, <2>5, <2>7, <2>9, CallStep
<1>5. CASE GetSecL(c)
  <2>1. PICK s \in Nat : s = Sec(latch) % WORD
    BY <1>3, Widths
  <2>2. PICK r : r = [a EXCEPT !.pc = "get_sec_h", !.sec = s]
    OBVIOUS
  <2>3. r \in Calls /\ r.pc = "get_sec_h" /\ r.from = a.from /\ r.ns = a.ns /\ r.sec = s /\ r.ok = a.ok
    BY <2>2 DEF Calls
  <2>4. call' = [call EXCEPT ![c].pc = "get_sec_h", ![c].sec = s] /\ a.pc = "get_sec_l"
    BY <1>2, <1>5, <2>1 DEF GetSecL
  <2>5. call' = [call EXCEPT ![c] = r]
    BY <1>2, <2>2, <2>4, CallOf
  <2>6. /\ r.ok => r.from <= latch /\ latch <= phc /\ latch \in Nat
        /\ r.ok => \E x \in Nat : r.from <= x /\ x <= latch /\ r.ns = Ns(x) /\ (c \in latcher => x = latch)
    BY <1>2, <2>3, <2>4, CallOf DEF Reading, Fits
  <2>7. set_reg' \in [ns : Nat, sec_l : Nat] /\ answer'
    BY <1>1, CallOf
  <2>8. r.ok => \E x \in Nat : r.from <= x /\ x <= latch /\ r.sec = Sec(x) % WORD /\ x = latch
    BY <2>1, <2>3, <2>6
  <2>9. Fits(r, c \in latcher, latch, phc)
    BY <2>3, <2>6, <2>8 DEF Fits
  <2> QED BY <1>1, <2>3, <2>5, <2>7, <2>9, CallStep
<1> QED BY <1>4, <1>5

\* Later times have no fewer seconds, nor a smaller upper word of them.
LEMMA NoLess ==
    ASSUME NEW n \in Nat \ {0}, NEW x \in Nat, NEW y \in Nat, x <= y
    PROVE  x \div n \in Nat /\ y \div n \in Nat /\ x \div n <= y \div n
<1>1. PICK q \in Nat, u \in 0 .. n - 1 : q = x \div n /\ x = n * q + u
  <2>1. x \div n \in Nat /\ x % n \in 0 .. n - 1 /\ x = n * (x \div n) + (x % n)
    OBVIOUS
  <2> QED BY <2>1
<1>2. PICK w \in Nat, v \in 0 .. n - 1 : w = y \div n /\ y = n * w + v
  <2>1. y \div n \in Nat /\ y % n \in 0 .. n - 1 /\ y = n * (y \div n) + (y % n)
    OBVIOUS
  <2> QED BY <2>1
<1>3. ASSUME q >= w + 1 PROVE FALSE
  <2>1. n * q >= n * (w + 1) /\ n * (w + 1) = n * w + n
    BY <1>3
  <2>2. n * q \in Nat /\ n * w \in Nat
    OBVIOUS
  <2> QED BY <1>1, <1>2, <2>1, <2>2
<1> QED BY <1>1, <1>2, <1>3

\* Nanoseconds of x, lower seconds of y and upper seconds of z, all of them times
\* between the two ends f and p; and what they make.
Between(f, p, x, y, z, sec) ==
    /\ f <= x /\ x <= p /\ f <= y /\ y <= p /\ f <= z /\ z <= p
    /\ sec = (Sec(y) % WORD) + (Sec(z) \div WORD) * WORD
Make(f, p, x, y, z, sec) ==
    /\ x = z /\ y = z => sec * TPS + Ns(x) = z
    /\ Sec(f) = Sec(p) => sec * TPS + Ns(x) = x
    /\ Sec(f) \div WORD = Sec(p) \div WORD => Sec(f) <= sec /\ sec <= Sec(p)

LEMMA PartsTrue ==
    ASSUME NEW f \in Nat, NEW p \in Nat, NEW x \in Nat, NEW y \in Nat, NEW z \in Nat,
           NEW sec \in Nat, Between(f, p, x, y, z, sec)
    PROVE  Make(f, p, x, y, z, sec)
<1>0. /\ f <= x /\ x <= p /\ f <= y /\ y <= p /\ f <= z /\ z <= p
      /\ sec = (Sec(y) % WORD) + (Sec(z) \div WORD) * WORD
  BY DEF Between
<1>1. TPS \in Nat \ {0} /\ WORD \in Nat \ {0}
  BY Widths
<1>2. /\ Sec(f) \in Nat /\ Sec(p) \in Nat /\ Sec(x) \in Nat /\ Sec(y) \in Nat /\ Sec(z) \in Nat
      /\ x = Sec(x) * TPS + Ns(x) /\ z = Sec(z) * TPS + Ns(z)
  BY Times
<1>3. \A v \in {x, y, z} : Sec(f) <= Sec(v) /\ Sec(v) <= Sec(p)
  <2>1. \A v \in {x, y, z} : f \div TPS <= v \div TPS /\ v \div TPS <= p \div TPS
    BY <1>0, <1>1, NoLess
  <2> QED BY <2>1 DEF Sec
<1>4. PICK sf \in Nat, sp \in Nat, sx \in Nat, sy \in Nat, sz \in Nat :
        sf = Sec(f) /\ sp = Sec(p) /\ sx = Sec(x) /\ sy = Sec(y) /\ sz = Sec(z)
  BY <1>2
<1>5. sy % WORD \in Nat /\ sz \div WORD \in Nat /\ sy = WORD * (sy \div WORD) + (sy % WORD)
  BY <1>1
<1>7. sy \div WORD = sz \div WORD => sec = sy
  <2>1. ASSUME sy \div WORD = sz \div WORD PROVE sec = sy
    <3>1. sec = (sy % WORD) + (sy \div WORD) * WORD
      BY <1>0, <1>4, <2>1
    <3>2. (sy \div WORD) * WORD = WORD * (sy \div WORD) /\ sy \div WORD \in Nat
      BY <1>1
    <3> QED BY <1>1, <1>5, <3>1, <3>2
  <2> QED BY <2>1
<1>8. sf \div WORD = sp \div WORD => sec = sy
  <2>1. /\ sf \div WORD <= sy \div WORD /\ sy \div WORD <= sp \div WORD
        /\ sf \div WORD <= sz \div WORD /\ sz \div WORD <= sp \div WORD
        /\ sf \div WORD \in Nat /\ sp \div WORD \in Nat /\ sy \div WORD \in Nat /\ sz \div WORD \in Nat
    BY <1>1, <1>3, <1>4, NoLess
  <2> QED BY <1>7, <2>1
<1>9. x = z /\ y = z => sec * TPS + Ns(x) = z
  BY <1>2, <1>4, <1>7
<1>10. Sec(f) = Sec(p) => sec * TPS + Ns(x) = x
  <2>1. ASSUME sf = sp PROVE sec = sx
    BY <1>3, <1>4, <1>8, <2>1
  <2> QED BY <1>2, <1>4, <2>1
<1>11. Sec(f) \div WORD = Sec(p) \div WORD => Sec(f) <= sec /\ sec <= Sec(p)
  BY <1>3, <1>4, <1>8
<1> QED BY <1>9, <1>10, <1>11 DEF Make

\* The upper seconds: the call returns what it has read, or goes on to set the
\* sum.
LEMMA GetHighKeeps ==
    ASSUME PtpInv, NEW c \in Callers, GetSecH(c) PROVE PtpInv'
<1>1. /\ UNCHANGED <<phc, latch, latcher, set_reg, stamped, ring_ts, cached, reader, report, perout>>
      /\ call[c].pc = "get_sec_h"
  BY DEF GetSecH
<1>2. PICK a \in Calls : a = call[c]
  BY CallOf
<1>3. phc \in Nat /\ latch \in Nat /\ a.sec \in Nat /\ a.ns \in Nat /\ a.from \in Nat /\ a.arg \in Int
  BY CallOf DEF Calls
<1>4. PICK sec \in Nat : sec = a.sec + (Sec(latch) \div WORD) * WORD
  <2>1. PICK s \in Nat : s = Sec(latch)
    BY <1>3, Times
  <2>2. WORD \in Nat \ {0} /\ s \div WORD \in Nat
    BY Widths
  <2>3. (s \div WORD) * WORD \in Nat
    BY <2>2
  <2> QED BY <1>3, <2>1, <2>3
<1>5. set_reg' \in [ns : Nat, sec_l : Nat]
  BY <1>1, CallOf
<1>6. CASE a.op = "get"
  <2>1. call' = [call EXCEPT ![c] = Quiet] /\ answer' = Truthful(c, sec, a.ns)
    BY <1>2, <1>4, <1>6 DEF GetSecH
  <2>2. answer'
    <3>1. ASSUME a.ok
          PROVE  /\ c \in latcher \/ Sec(a.from) = Sec(phc) =>
                       a.from <= sec * TPS + a.ns /\ sec * TPS + a.ns <= phc
                 /\ Sec(a.from) \div WORD = Sec(phc) \div WORD => Sec(a.from) <= sec /\ sec <= Sec(phc)
      <4>1. Fits(a, c \in latcher, latch, phc) /\ a.pc = "get_sec_h"
        BY <1>1, <1>2, CallOf
      <4>2. a.from <= latch /\ latch <= phc
        BY <3>1, <4>1 DEF Fits, Reading
      <4>3. PICK x \in Nat : a.from <= x /\ x <= latch /\ a.ns = Ns(x) /\ (c \in latcher => x = latch)
        BY <3>1, <4>1 DEF Fits
      <4>4. PICK y \in Nat : a.from <= y /\ y <= latch /\ a.sec = Sec(y) % WORD /\ (c \in latcher => y = latch)
        BY <3>1, <4>1 DEF Fits
      <4>5. x <= phc /\ y <= phc
        BY <1>3, <4>2, <4>3, <4>4
      <4>6. sec = (Sec(y) % WORD) + (Sec(latch) \div WORD) * WORD
        BY <1>4, <4>4
      <4>7. /\ x = latch /\ y = latch => sec * TPS + Ns(x) = latch
            /\ Sec(a.from) = Sec(phc) => sec * TPS + Ns(x) = x
            /\ Sec(a.from) \div WORD = Sec(phc) \div WORD => Sec(a.from) <= sec /\ sec <= Sec(phc)
        <5>1. PICK f \in Nat, p \in Nat, z \in Nat : f = a.from /\ p = phc /\ z = latch
          BY <1>3
        <5>2. f <= x /\ x <= p /\ f <= y /\ y <= p /\ f <= z /\ z <= p
          BY <4>2, <4>3, <4>4, <4>5, <5>1
        <5>3. sec = (Sec(y) % WORD) + (Sec(z) \div WORD) * WORD
          BY <4>6, <5>1
        <5>4. Between(f, p, x, y, z, sec)
          BY <5>2, <5>3 DEF Between
        <5>5. Make(f, p, x, y, z, sec)
          BY <5>4, PartsTrue
        <5> QED BY <5>1, <5>5 DEF Make
      <4> QED BY <4>2, <4>3, <4>4, <4>5, <4>7
    <3> QED BY <1>2, <2>1, <3>1 DEF Truthful
  <2>3. Quiet \in Calls /\ Quiet.pc = "idle"
    BY DEF Quiet, Calls
  <2>4. /\ Quiet.pc \notin {"set_ns", "set_sec_l", "set_sec_h"} /\ Quiet.pc # "get_fns"
        /\ Quiet.pc \notin Reading
    BY <2>3 DEF Reading
  <2>5. Fits(Quiet, c \in latcher, latch, phc)
    BY <2>4, FitsNothing
  <2> QED BY <1>1, <1>5, <2>1, <2>2, <2>3, <2>4, <2>5, CallStep
<1>7. CASE a.op # "get"
  <2>1. PICK n \in Int : n = (sec * TPS + a.ns) + a.arg
    <3>1. sec * TPS \in Int
      BY Widths
    <3> QED BY <1>3, <3>1
  <2>2. /\ 0 <= n /\ call' = [call EXCEPT ![c].pc = "set_ns", ![c].arg = n] /\ answer' = answer
    BY <1>2, <1>4, <1>7, <2>1 DEF GetSecH
  <2>3. PICK r : r = [a EXCEPT !.pc = "set_ns", !.arg = n]
    OBVIOUS
  <2>4. r \in Calls /\ r.pc = "set_ns" /\ r.arg = n
    BY <2>1, <2>3 DEF Calls
  <2>5. call' = [call EXCEPT ![c] = r]
    BY <1>2, <2>2, <2>3, CallOf
  <2>6. n \in Nat /\ answer'
    BY <2>1, <2>2, CallOf
  <2>7. Fits(r, c \in latcher, latch, phc)
    BY <2>4, FitsNothing DEF Reading
  <2> QED BY <1>1, <1>5, <2>4, <2>5, <2>6, <2>7, CallStep
<1> QED BY <1>6, <1>7

\* The parts of a new time are written.
LEMMA SetLowKeeps ==
    ASSUME PtpInv, NEW c \in Callers, SetNs(c) \/ SetSecL(c) PROVE PtpInv'
<1>1. UNCHANGED <<phc, latch, latcher, stamped, ring_ts, cached, reader, report, answer, perout>>
  BY DEF SetNs, SetSecL
<1>2. PICK a \in Calls : a = call[c]
  BY CallOf
<1>3. a.arg \in Nat
  BY <1>2, CallOf DEF SetNs, SetSecL
<1>4. Ns(a.arg) \in Nat /\ Sec(a.arg) % WORD \in Nat
  <2>1. Ns(a.arg) \in 0 .. TPS - 1 /\ Sec(a.arg) \in Nat
    BY <1>3, Times
  <2> QED BY <2>1, Widths
<1>5. set_reg' \in [ns : Nat, sec_l : Nat]
  <2>1. PICK n \in Nat : n = Ns(a.arg)
    BY <1>4
  <2>2. PICK s \in Nat : s = Sec(a.arg) % WORD
    BY <1>4
  <2>3. set_reg' = [set_reg EXCEPT !.ns = n] \/ set_reg' = [set_reg EXCEPT !.sec_l = s]
    BY <1>2, <2>1, <2>2 DEF SetNs, SetSecL
  <2> QED BY <2>3, CallOf
<1>6. PICK p \in {"set_sec_l", "set_sec_h"} : call' = [call EXCEPT ![c].pc = p]
  BY DEF SetNs, SetSecL
<1>7. PICK r : r = [a EXCEPT !.pc = p]
  OBVIOUS
<1>8. r \in Calls /\ r.pc = p /\ r.arg = a.arg
  BY <1>7 DEF Calls
<1>9. call' = [call EXCEPT ![c] = r]
  BY <1>2, <1>6, <1>7, CallOf
<1>10. Fits(r, c \in latcher, latch, phc)
  BY <1>8, FitsNothing DEF Reading
<1>11. answer'
  BY <1>1, CallOf
<1> QED BY <1>1, <1>3, <1>5, <1>8, <1>9, <1>10, <1>11, CallStep

\* The clock steps: no record and no cache of before counts any more.
LEMMA StepKeeps ==
    ASSUME PtpInv, NEW c \in Callers, NEW x \in Nat, Step_(x, c) PROVE PtpInv'
<1>1. /\ UNCHANGED <<latch, latcher, set_reg, ring_ts, reader, report, answer, perout>> /\ phc' = x
      /\ stamped' = [k \in DOMAIN stamped |-> [stamped[k] EXCEPT !.ok = FALSE]]
      /\ cached' = [cached EXCEPT !.ok = FALSE]
      /\ call' = [d \in Callers |-> IF d = c THEN Quiet ELSE [call[d] EXCEPT !.ok = FALSE]]
  BY DEF Step_
<1>2. \A d \in Callers : call'[d] = IF d = c THEN Quiet ELSE [call[d] EXCEPT !.ok = FALSE]
  BY <1>1
<1>3. Quiet \in Calls /\ Quiet.pc = "idle"
  BY DEF Quiet, Calls
<1>4. ASSUME NEW d \in Callers
      PROVE  /\ call'[d] \in Calls
             /\ call'[d].pc \in {"set_ns", "set_sec_l", "set_sec_h"} => call'[d].arg \in Nat
             /\ call'[d].pc = "idle" \/ ~call'[d].ok
  <2>1. PICK a \in Calls : a = call[d]
    BY CallOf
  <2>2. PICK r : r = [a EXCEPT !.ok = FALSE]
    OBVIOUS
  <2>3. r \in Calls /\ r.pc = a.pc /\ r.arg = a.arg /\ r.ok = FALSE
    BY <2>2 DEF Calls
  <2>4. call'[d] = Quiet \/ call'[d] = r
    BY <1>2, <2>1, <2>2
  <2> QED BY <1>3, <2>1, <2>3, <2>4, CallOf
<1>5. cached' \in [sec : Nat, ok : BOOLEAN] /\ ~cached'.ok /\ cached'.sec = cached.sec
  BY <1>1 DEF PtpInv, PtpShape
<1>6. stamped' \in Seq(Records) /\ (stamped # <<>> => stamped' # <<>>)
  <2>1. stamped \in Seq(Records)
    BY DEF PtpInv, PtpShape
  <2>2. \A k \in DOMAIN stamped : [stamped[k] EXCEPT !.ok = FALSE] \in Records
    <3>1. SUFFICES ASSUME NEW k \in DOMAIN stamped PROVE [stamped[k] EXCEPT !.ok = FALSE] \in Records
      OBVIOUS
    <3>2. PICK r \in Records : r = stamped[k]
      BY <2>1
    <3>3. [r EXCEPT !.ok = FALSE] \in Records
      BY DEF Records
    <3> QED BY <3>2, <3>3
  <2>3. DOMAIN stamped = 1 .. Len(stamped) /\ Len(stamped) \in Nat
    BY <2>1
  <2>4. stamped' \in [1 .. Len(stamped) -> Records]
    BY <1>1, <2>2, <2>3
  <2>5. stamped' \in Seq(Records) /\ DOMAIN stamped' = DOMAIN stamped
    BY <2>3, <2>4
  <2> QED BY <2>1, <2>3, <2>5
<1>7. PtpShape'
  <2>1. call' \in [Callers -> Calls]
    BY <1>1, <1>4
  <2> QED BY <1>1, <1>4, <1>5, <1>6, <2>1 DEF PtpInv, PtpShape
<1>8. Cache'
  BY <1>1, <1>5, <1>6 DEF PtpInv, Cache
<1>9. Latched'
  BY <1>4 DEF Latched, Fits, Reading
<1>10. ClockTrue'
  BY <1>1 DEF PtpInv, ClockTrue, CplTimeTrue, GetTimeTrue, HalfPeriod
<1> QED BY <1>7, <1>8, <1>9, <1>10 DEF PtpInv

\* A new time, or an offset, takes effect.
LEMMA JumpKeeps ==
    ASSUME PtpInv, NEW c \in Callers, SetSecH(c) \/ AdjCount(c) PROVE PtpInv'
<1>1. PICK a \in Calls : a = call[c]
  BY CallOf
<1>2. CASE SetSecH(c)
  <2>1. a.arg \in Nat /\ set_reg.sec_l \in Nat /\ set_reg.ns \in Nat
    BY <1>1, <1>2, CallOf DEF SetSecH
  <2>2. PICK s \in Nat : s = Sec(a.arg)
    BY <2>1, Times
  <2>3. WORD \in Nat \ {0} /\ TPS \in Nat \ {0}
    BY Widths
  <2>4. s \div WORD \in Nat
    BY <2>3
  <2>5. (s \div WORD) * WORD \in Nat
    BY <2>3, <2>4
  <2>6. set_reg.sec_l + (s \div WORD) * WORD \in Nat
    BY <2>1, <2>5
  <2>7. (set_reg.sec_l + (s \div WORD) * WORD) * TPS \in Nat
    BY <2>3, <2>6
  <2>8. PICK x \in Nat : x = (set_reg.sec_l + (s \div WORD) * WORD) * TPS + set_reg.ns
    BY <2>1, <2>7
  <2>9. Step_(x, c)
    BY <1>1, <1>2, <2>2, <2>8 DEF SetSecH
  <2> QED BY <2>9, StepKeeps
<1>3. CASE AdjCount(c)
  <2>1. PICK x \in Nat : x = phc + call[c].arg
    BY <1>3 DEF AdjCount
  <2>2. Step_(x, c)
    BY <1>3, <2>1 DEF AdjCount
  <2> QED BY <2>2, StepKeeps
<1> QED BY <1>2, <1>3

\* Half of a period of seconds and nanoseconds.
LEMMA Halved ==
    ASSUME NEW s \in Nat, NEW n \in 0 .. TPS - 1
    PROVE  LET m == (n + (IF s % 2 = 1 THEN TPS ELSE 0)) \div 2 IN
           (s \div 2) * TPS + m = (s * TPS + n) \div 2 /\ m \in 0 .. TPS - 1
<1>1. TPS \in Nat \ {0}
  BY Widths
<1>2. PICK q \in Nat : q = s \div 2
  OBVIOUS
<1>3. PICK y \in Nat : y = q * TPS
  BY <1>1
<1>4. CASE s % 2 = 1
  <2>1. s = 2 * q + 1
    BY <1>2, <1>4
  <2>2. s * TPS = 2 * y + TPS
    BY <1>1, <1>3, <2>1
  <2> QED BY <1>1, <1>2, <1>3, <1>4, <2>2
<1>5. CASE s % 2 # 1
  <2>1. s = 2 * q
    BY <1>2, <1>5
  <2>2. s * TPS = 2 * y
    BY <1>1, <1>3, <2>1
  <2> QED BY <1>1, <1>2, <1>3, <1>5, <2>2
<1> QED BY <1>4, <1>5

\* The periodic output is set up.
LEMMA PeroutKeeps ==
    ASSUME PtpInv, mqnic_phc_enable PROVE PtpInv'
<1>1. UNCHANGED <<phc, latch, latcher, set_reg, call, stamped, ring_ts, cached, reader, report, answer>>
  BY DEF mqnic_phc_enable, PeroutOff, mqnic_phc_perout
<1>2. PtpShape' /\ Cache'
  BY <1>1 DEF PtpInv, PtpShape, Cache, Block
<1>3. HalfPeriod'
  <2>1. CASE PeroutOff
    <3>1. perout' = [perout EXCEPT !.on = FALSE]
      BY <2>1 DEF PeroutOff
    <3> QED BY <3>1 DEF PtpInv, ClockTrue, HalfPeriod
  <2>2. CASE \E p \in Periods : mqnic_phc_perout(p)
    <3>1. PICK p \in Periods : mqnic_phc_perout(p)
      BY <2>2
    <3>2. p[1] \in Nat /\ p[2] \in Nat /\ TPS \in Nat \ {0}
      BY PtpAssumption, Widths
    <3>3. PICK s \in Nat : s = p[1] + p[2] \div TPS
      BY <3>2
    <3>4. PICK n \in 0 .. TPS - 1 : n = p[2] % TPS
      BY <3>2
    <3>5. PICK m : m = (n + (IF s % 2 = 1 THEN TPS ELSE 0)) \div 2
      OBVIOUS
    <3>6. perout' = [on |-> TRUE, period |-> <<s, n>>, width |-> <<s \div 2, m>>]
      BY <3>1, <3>3, <3>4, <3>5 DEF mqnic_phc_perout
    <3>7. (s \div 2) * TPS + m = (s * TPS + n) \div 2 /\ m \in 0 .. TPS - 1
      BY <3>5, Halved
    <3>8. m < TPS /\ n < TPS
      BY <3>2, <3>7
    <3> QED BY <3>6, <3>7, <3>8 DEF HalfPeriod
  <2> QED BY <2>1, <2>2 DEF mqnic_phc_enable
<1>4. ClockTrue'
  BY <1>1, <1>3 DEF PtpInv, ClockTrue, CplTimeTrue, GetTimeTrue
<1> QED BY <1>1, <1>2, <1>4, CallsFrame DEF PtpInv

\* Every step keeps the invariant.
LEMMA PtpStep ==
    ASSUME PtpInv, [PtpNext]_ptpVars PROVE PtpInv'
<1>1. CASE \E c \in Callers : PtpCall(c)
  <2>1. PICK c \in Callers : PtpCall(c)
    BY <1>1
  <2> QED BY <2>1, BeginKeeps, GetFnsKeeps, GetLowKeeps, GetHighKeeps, SetLowKeeps, JumpKeeps DEF PtpCall
<1>2. CASE UNCHANGED ptpVars
  BY <1>2 DEF ptpVars, PtpInv, PtpShape, Cache, Block, Latched, ClockTrue, CplTimeTrue, GetTimeTrue,
              HalfPeriod
<1> QED BY <1>1, <1>2, TickKeeps, StampKeeps, ReadKeeps, ReadLowKeeps, ReadHighKeeps, PeroutKeeps DEF PtpNext

\* For any number of callers, a completion's time stamp is widened to the time it
\* was stamped at wherever 16 bits of the seconds can tell (mqnic_read_cpl_ts);
\* mqnic_phc_gettime returns a time the clock had during the call unless another
\* call latched in between and a second began, and is right to the second even
\* then; and a periodic output is on for half of its period.
THEOREM TimesTrue == PtpSpec => []ClockTrue
<1>1. PtpInit => PtpInv
  BY PtpStarts
<1>2. PtpInv /\ [PtpNext]_ptpVars => PtpInv'
  BY PtpStep
<1>3. PtpInv => ClockTrue
  BY DEF PtpInv
<1> QED BY <1>1, <1>2, <1>3, PTL DEF PtpSpec
=============================================================================
