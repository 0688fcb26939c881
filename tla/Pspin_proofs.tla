---------------------------- MODULE Pspin_proofs ----------------------------
(***************************************************************************)
(* Theorems about PsPIN: its driver and library, and the sender of its     *)
(* message protocol.  Each part begins with its inductive invariant; one   *)
(* lemma per action shows that the action keeps it.                        *)
(***************************************************************************)
EXTENDS Pspin, Slmp, SequenceTheorems, FiniteSetTheorems, PointerTheorems, TLAPS

---------------------------------------------------------------------------
(* PsPIN.                                                                  *)

\* Neither of the two failures after which a process loses its mapping while
\* its handlers run.
Orderly == PspinFaults \cap {"nm", "kill"} = {}

\* What an application does from its mapping to its unmapping: the load (places
\* 1 to 14), the requests (15), the unload (16 to 22).
Loading == <<"query">> \o Load
Ops == {"query", "fetch_off", "rst_on", "rst_off", "section", "fetch_on", "her_off", "her_set",
        "her_on", "me_off", "me_rules", "me_on", "nm", "flags", "run", "me_bypass", "unmap"}
Todo(n) == IF n = 0 THEN <<>> ELSE IF n <= 14 THEN SubSeq(Loading, n, 14)
           ELSE IF n = 15 THEN <<"run">> ELSE SubSeq(Unload, n - 15, 7)

\* The operation at each place.
OpAt(n, x) ==
  \/ (n = 0 /\ x = "none") \/ (n = 1 /\ x = "query") \/ (n \in {2, 16} /\ x = "fetch_off")
  \/ (n \in {3, 17} /\ x = "rst_on") \/ (n \in {4, 18} /\ x = "rst_off") \/ (n = 5 /\ x = "section")
  \/ (n = 6 /\ x = "fetch_on") \/ (n = 7 /\ x = "her_off") \/ (n = 8 /\ x = "her_set")
  \/ (n = 9 /\ x = "her_on") \/ (n \in {10, 19} /\ x = "me_off") \/ (n = 11 /\ x = "me_rules")
  \/ (n \in {12, 21} /\ x = "me_on") \/ (n = 13 /\ x = "nm") \/ (n = 14 /\ x = "flags")
  \/ (n = 15 /\ x = "run") \/ (n = 20 /\ x = "me_bypass") \/ (n = 22 /\ x = "unmap")

\* An operation in front of a sequence of them.
LEMMA InFront ==
  ASSUME NEW s \in Seq(Ops), NEW x \in Ops
  PROVE  /\ <<x>> \o s \in Seq(Ops) /\ Len(<<x>> \o s) = Len(s) + 1
         /\ (<<x>> \o s)[1] = x /\ \A i \in 1 .. Len(s) : (<<x>> \o s)[i + 1] = s[i]
<1>1. <<x>> \in Seq(Ops) /\ Len(<<x>>) = 1 /\ <<x>>[1] = x
  OBVIOUS
<1> QED BY <1>1, ConcatProperties

\* The load, with the query before it, and the unload are sequences of operations.
LEMMA Programs ==
  /\ Loading \in Seq(Ops) /\ Len(Loading) = 14
  /\ Loading[1] = "query" /\ \A i \in 1 .. 13 : Loading[i + 1] = Load[i]
  /\ Unload \in Seq(Ops) /\ Len(Unload) = 7
<1>1. Load \in Seq(Ops) /\ Unload \in Seq(Ops)
  BY DEF Load, Unload, Ops
<1>2. Len(Load) = 13 /\ Len(Unload) = 7
  BY DEF Load, Unload
<1>3. "query" \in Ops
  BY DEF Ops
<1>4. PICK s \in Seq(Ops), x \in Ops : s = Load /\ x = "query"
  BY <1>1, <1>3
<1>5. /\ Loading \in Seq(Ops) /\ Len(Loading) = Len(s) + 1
      /\ Loading[1] = x /\ \A i \in 1 .. Len(s) : Loading[i + 1] = s[i]
  BY <1>4, InFront DEF Loading
<1> QED BY <1>1, <1>2, <1>4, <1>5

\* The operations of the load and of the unload are those of their places.
LEMMA LoadOps == \A n \in 1 .. 14 : OpAt(n, Loading[n])
<1>1. \A i \in 1 .. 13 : OpAt(i + 1, Load[i])
  <2>1. /\ OpAt(2, Load[1]) /\ OpAt(3, Load[2]) /\ OpAt(4, Load[3]) /\ OpAt(5, Load[4])
        /\ OpAt(6, Load[5]) /\ OpAt(7, Load[6]) /\ OpAt(8, Load[7]) /\ OpAt(9, Load[8])
        /\ OpAt(10, Load[9]) /\ OpAt(11, Load[10]) /\ OpAt(12, Load[11])
        /\ OpAt(13, Load[12]) /\ OpAt(14, Load[13])
    BY DEF OpAt, Load
  <2> QED BY <2>1
<1>2. OpAt(1, "query")
  BY DEF OpAt
<1>3. \A n \in 1 .. 14 : n = 1 \/ \E i \in 1 .. 13 : n = i + 1
  <2> SUFFICES ASSUME NEW n \in 1 .. 14, n # 1
               PROVE  \E i \in 1 .. 13 : n = i + 1
    OBVIOUS
  <2> WITNESS n - 1 \in 1 .. 13
  <2> QED OBVIOUS
<1> QED BY <1>1, <1>2, <1>3, Programs

\* The operations that unload a context, place by place.
LEMMA UnloadOps == \A i \in 1 .. 7 : OpAt(i + 15, Unload[i])
<1>1. /\ OpAt(16, Unload[1]) /\ OpAt(17, Unload[2]) /\ OpAt(18, Unload[3])
      /\ OpAt(19, Unload[4]) /\ OpAt(20, Unload[5]) /\ OpAt(21, Unload[6]) /\ OpAt(22, Unload[7])
  BY DEF OpAt, Unload
<1> QED BY <1>1

\* The end of a sequence of operations.
LEMMA Ends ==
  ASSUME NEW s \in Seq(Ops), NEW k \in 1 .. Len(s)
  PROVE  /\ SubSeq(s, k, Len(s)) # <<>> /\ Head(SubSeq(s, k, Len(s))) = s[k]
         /\ Tail(SubSeq(s, k, Len(s))) = SubSeq(s, k + 1, Len(s))
<1>1. Len(SubSeq(s, k, Len(s))) > 0
  OBVIOUS
<1>2. SubSeq(s, k, Len(s)) # <<>>
  BY <1>1, SMTT(20)
<1>3. /\ Head(SubSeq(s, k, Len(s))) = s[k]
      /\ Tail(SubSeq(s, k, Len(s))) = SubSeq(s, k + 1, Len(s))
  BY HeadTailOfSubSeq
<1> QED BY <1>2, <1>3

\* The first of the operations at a place is the one there, and behind it come
\* those of the next place.
LEMMA Places ==
  ASSUME NEW n \in 1 .. 22
  PROVE  /\ Todo(n) # <<>> /\ OpAt(n, Head(Todo(n)))
         /\ n \notin {14, 15, 22} => Tail(Todo(n)) = Todo(n + 1)
<1>1. CASE n \in 1 .. 14
  <2>1. Todo(n) = SubSeq(Loading, n, 14) /\ (n # 14 => Todo(n + 1) = SubSeq(Loading, n + 1, 14))
    BY <1>1 DEF Todo
  <2>2. /\ SubSeq(Loading, n, 14) # <<>> /\ Head(SubSeq(Loading, n, 14)) = Loading[n]
        /\ Tail(SubSeq(Loading, n, 14)) = SubSeq(Loading, n + 1, 14)
    <3>1. PICK s \in Seq(Ops) : s = Loading /\ Len(s) = 14
      BY Programs
    <3> QED BY <1>1, <3>1, Ends
  <2> QED BY <1>1, <2>1, <2>2, LoadOps
<1>2. CASE n = 15
  <2>1. Todo(n) = <<"run">>
    BY <1>2 DEF Todo
  <2>2. OpAt(15, "run")
    BY DEF OpAt
  <2>3. Todo(n) # <<>> /\ Head(Todo(n)) = "run"
    BY <2>1
  <2> QED BY <1>2, <2>2, <2>3
<1>3. CASE n \in 16 .. 22
  <2>1. PICK i \in 1 .. 7 : i = n - 15 /\ n = i + 15
    BY <1>3
  <2>2. Todo(n) = SubSeq(Unload, i, 7) /\ (i # 7 => Todo(n + 1) = SubSeq(Unload, i + 1, 7))
    BY <2>1 DEF Todo
  <2>3. /\ SubSeq(Unload, i, 7) # <<>> /\ Head(SubSeq(Unload, i, 7)) = Unload[i]
        /\ Tail(SubSeq(Unload, i, 7)) = SubSeq(Unload, i + 1, 7)
    <3>1. PICK s \in Seq(Ops) : s = Unload /\ Len(s) = 7
      BY Programs
    <3> QED BY <3>1, Ends
  <2>4. OpAt(n, Unload[i])
    BY <2>1, UnloadOps
  <2>5. Todo(n) # <<>> /\ Head(Todo(n)) = Unload[i]
    BY <2>2, <2>3
  <2>6. n # 22 => Tail(Todo(n)) = Todo(n + 1)
    <3>1. n # 22 => i # 7
      BY <2>1
    <3> QED BY <2>2, <2>3, <3>1
  <2> QED BY <2>4, <2>5, <2>6
<1> QED BY <1>1, <1>2, <1>3

\* Where a load, the requests and an unload begin.
LEMMA Beginnings ==
  Todo(0) = <<>> /\ Todo(1) = Loading /\ Todo(15) = <<"run">> /\ Todo(16) = Unload
  /\ Todo(22) = <<"unmap">>
<1>1. Todo(0) = <<>> /\ Todo(15) = <<"run">>
  BY DEF Todo
<1>2. Todo(1) = SubSeq(Loading, 1, 14) /\ Todo(16) = SubSeq(Unload, 1, 7)
      /\ Todo(22) = SubSeq(Unload, 7, 7)
  BY DEF Todo
<1>3. SubSeq(Loading, 1, 14) = Loading /\ SubSeq(Unload, 1, 7) = Unload
  BY Programs, SubSeqFull
<1>4. SubSeq(Unload, 7, 7) = <<"unmap">>
  <2>1. PICK s \in Seq(Ops) : s = Unload /\ Len(s) = 7
    BY Programs
  <2>2. s[7] = "unmap"
    BY <2>1 DEF Unload
  <2>3. /\ SubSeq(s, 7, 7) \in Seq(Ops) /\ Len(SubSeq(s, 7, 7)) = 1 /\ SubSeq(s, 7, 7)[1] = s[7]
    <3>1. s[7] \in Ops
      BY <2>2 DEF Ops
    <3>2. \A i \in 7 .. 7 : s[i] \in Ops
      BY <3>1
    <3> QED BY <3>2, SubSeqProperties
  <2>4. PICK u \in Seq(Ops) : u = SubSeq(s, 7, 7)
    BY <2>3
  <2>5. PICK w : w = <<"unmap">>
    OBVIOUS
  <2>6. w \in Seq(Ops) /\ Len(w) = 1 /\ w[1] = "unmap"
    BY <2>5 DEF Ops
  <2>7. Len(u) = Len(w) /\ \A i \in 1 .. Len(u) : u[i] = w[i]
    BY <2>2, <2>3, <2>4, <2>6
  <2>8. u = w
    BY <2>6, <2>7, SeqEqual
  <2> QED BY <2>1, <2>4, <2>5, <2>8
<1> QED BY <1>1, <1>2, <1>3, <1>4

Ids == 0 .. DMA_IDS - 1
Mems == Handles \cup {"none"}

\* The parts of the state that the argument reads.
Applications == [todo : Seq(Ops), dma_idx : [Hpus -> Ids], cur : [Hpus -> Ids \cup {-1}], left : Int]
Registers == [reset : BOOLEAN, fetch : BOOLEAN, me_valid : BOOLEAN, rule : {"bypass", "match"},
              her_valid : BOOLEAN, ctx_enabled : BOOLEAN, her_mem : Mems, stored : Mems,
              pending : SUBSET Mems]
Areas == [enabled : BOOLEAN, mem : Mems, ref_count : Nat]
Cores == [st : {"idle", "start", "wait"}, id : Ids, mem : Mems, early : BOOLEAN]
DrvShape == drv = [pc |-> drv.pc, res |-> drv.res, exiting |-> drv.exiting, holder |-> drv.holder]
Shapes ==
  /\ DrvShape /\ hw \in Registers /\ area \in Areas /\ proc \in [Procs -> Applications]
  /\ page \in [Hpus -> Ids] /\ flag \in [Hpus -> Ids] /\ handled \in [Hpus -> Nat]
  /\ hpu \in [Hpus -> Cores]

\* One process has the area and is at place n; without one n is 0.
At1(n, o) ==
  /\ n \in 0 .. 22 /\ (n # 0 => o \in Procs)
  /\ \A p \in Procs : p # o \/ n = 0 => proc[p] = NoProc
  /\ n # 0 => /\ proc[o].todo = Todo(n) /\ drv.pc = "bound"
              /\ area.enabled = TRUE /\ area.ref_count = 1
              /\ n # 15 => proc[o].cur = [h \in Hpus |-> -1]

\* The handlers run with the area of that process, and not before it has pointed the NIC at it
\* nor after the reset: until the next reset the cores have nothing to fetch.
Quiet(h) == hpu[h].st = "idle"
NicAt(n) ==
  /\ n \in 0 .. 3 \cup 17 .. 22 => hw.fetch = FALSE
  /\ n \in 0 .. 11 \cup 18 .. 22 => \A h \in Hpus : Quiet(h)
  /\ n \in 0 .. 11 \cup 21 .. 22 => hw.rule = "bypass"
  /\ n \in 4 .. 11 => hw.pending = {}
  /\ n \in 9 .. 17 => hw.her_mem = area.mem
  /\ n \in 10 .. 17 => hw.stored \in {"none", area.mem}
  /\ n \in 12 .. 17 => /\ hw.pending \subseteq {area.mem}
                       /\ \A h \in Hpus : Quiet(h) \/ hpu[h].mem = area.mem

\* The flags of a core: before the host polls, while it does, and after.
Before(h) ==
  /\ flag[h] = 0
  /\ hpu[h].st = "idle" => hpu[h].id = 0 /\ page[h] = 0
  /\ hpu[h].st = "start" => hpu[h].id = 1 /\ page[h] = 0
  /\ hpu[h].st = "wait" => hpu[h].id = 1 /\ page[h] = 1 /\ handled[h] = 0
Polled(o, h) ==
  /\ hpu[h].st # "wait" => page[h] = flag[h] /\ proc[o].dma_idx[h] = flag[h] /\ proc[o].cur[h] = -1
  /\ hpu[h].st = "wait" =>
       /\ page[h] = hpu[h].id
       /\ \/ /\ proc[o].dma_idx[h] = page[h] /\ flag[h] # page[h]
             /\ proc[o].cur[h] = -1 /\ handled[h] = 0
          \/ /\ proc[o].dma_idx[h] # page[h] /\ proc[o].dma_idx[h] = flag[h]
             /\ proc[o].cur[h] = -1 /\ handled[h] = 0
          \/ /\ proc[o].dma_idx[h] = page[h] /\ flag[h] # page[h]
             /\ proc[o].cur[h] = page[h] /\ handled[h] = 1
          \/ /\ proc[o].dma_idx[h] = page[h] /\ flag[h] = page[h]
             /\ proc[o].cur[h] = -1 /\ handled[h] = 1
Answers(h) ==
  /\ hpu[h].st = "idle" => flag[h] = hpu[h].id
  /\ hpu[h].st = "start" => hpu[h].id = (flag[h] + 1) % DMA_IDS
  /\ hpu[h].st = "wait" => handled[h] \in {0, 1} /\ (flag[h] = hpu[h].id => handled[h] = 1)
FlagsAt(n, o) ==
  /\ n \in 1 .. 11 => \A h \in Hpus : page[h] = 0
  /\ n \in 6 .. 11 => \A h \in Hpus : flag[h] = 0 /\ hpu[h].id = 0
  /\ n \in 12 .. 14 => \A h \in Hpus : Before(h)
  /\ n = 15 => \A h \in Hpus : Polled(o, h)
  /\ n \in 12 .. 17 => \A h \in Hpus : Answers(h)

PspinAt(n, o) == Shapes /\ At1(n, o) /\ NicAt(n) /\ FlagsAt(n, o)
PspinInv == \E n, o : PspinAt(n, o)

\* What taking a context over changes, and what it leaves.
LEMMA LatchedShape ==
  ASSUME NEW r \in Registers
  PROVE  /\ Latched(r) \in Registers /\ Latched(r).fetch = r.fetch /\ Latched(r).rule = r.rule
         /\ Latched(r).her_mem = r.her_mem /\ Latched(r).pending = r.pending
         /\ Latched(r).stored \in {"none", r.her_mem, r.stored}
         /\ r.her_valid => Latched(r).stored \in {"none", r.her_mem}
<1>1. PICK m \in Mems : /\ m = (IF r.reset THEN "none"
                                ELSE IF r.her_valid THEN (IF r.ctx_enabled THEN r.her_mem ELSE "none")
                                ELSE r.stored)
                        /\ m \in {"none", r.her_mem, r.stored} /\ (r.her_valid => m \in {"none", r.her_mem})
  BY DEF Registers, Mems
<1>2. Latched(r) = [r EXCEPT !.stored = m]
  BY <1>1 DEF Latched
<1> QED BY <1>1, <1>2 DEF Registers

\* The operation a process is at: the owner's is that of its place, and the
\* others have none.
LEMMA WhoActs ==
  ASSUME NEW n, NEW o, At1(n, o), NEW p \in Procs
  PROVE  /\ Op(p) # "none" => p = o /\ n \in 1 .. 22 /\ OpAt(n, Op(p))
         /\ proc[p] = NoProc => p # o \/ n = 0
<1>1. proc[p] = NoProc => proc[p].todo = <<>>
  BY DEF NoProc
<1>2. CASE p # o \/ n = 0
  BY <1>1, <1>2 DEF At1, Op
<1>3. CASE p = o /\ n # 0
  <2>1. n \in 1 .. 22 /\ proc[p].todo = Todo(n)
    BY <1>3 DEF At1
  <2>2. Todo(n) # <<>> /\ OpAt(n, Head(Todo(n)))
    BY <2>1, Places
  <2> QED BY <1>1, <1>3, <2>1, <2>2 DEF Op
<1> QED BY <1>2, <1>3

\* An operation that is done leaves its process at the next place.
LEMMA Advances ==
  ASSUME NEW n \in 1 .. 22, NEW o, PspinAt(n, o), NextOp(o), n \notin {14, 15, 22},
         UNCHANGED <<drv, area>>, hw' \in Registers, hpu' \in [Hpus -> Cores],
         page' \in [Hpus -> Ids], flag' \in [Hpus -> Ids], handled' \in [Hpus -> Nat]
  PROVE  Shapes' /\ At1(n + 1, o)'
<1>1. o \in Procs /\ proc[o].todo = Todo(n) /\ proc \in [Procs -> Applications]
  BY DEF PspinAt, At1, Shapes
<1>2. Tail(Todo(n)) = Todo(n + 1) /\ Todo(n) # <<>>
  BY Places
<1>3. Todo(n) \in Seq(Ops)
  BY <1>1 DEF Applications
<1>4. Todo(n + 1) \in Seq(Ops)
  BY <1>2, <1>3, HeadTailProperties
<1>5. proc' = [proc EXCEPT ![o].todo = Todo(n + 1)]
  BY <1>1, <1>2 DEF NextOp
<1>6. /\ proc' \in [Procs -> Applications] /\ proc'[o].cur = proc[o].cur
      /\ proc'[o].todo = Todo(n + 1) /\ \A p \in Procs : p # o => proc'[p] = proc[p]
  BY <1>1, <1>4, <1>5 DEF Applications
<1>7. Shapes'
  BY <1>6 DEF PspinAt, Shapes, DrvShape
<1>8. At1(n + 1, o)'
  BY <1>6 DEF PspinAt, At1
<1> QED BY <1>7, <1>8

\* Nobody's application.
LEMMA NoProcShape ==
  ASSUME PspinAssumption
  PROVE  NoProc \in Applications /\ 0 \in Ids
BY DEF NoProc, Applications, PspinAssumption, Ids

\* Initially there is no application.
LEMMA PspinStarts ==
  ASSUME PspinAssumption, PspinInit
  PROVE  PspinAt(0, 0)
<1>1. 0 \in Ids /\ NoProc \in Applications
  BY NoProcShape
<1>2. area \in Areas /\ hw \in Registers /\ hpu \in [Hpus -> Cores] /\ DrvShape
  BY <1>1 DEF PspinInit, Areas, Registers, Cores, DrvShape, NoArea, Mems
<1>3. Shapes
  BY <1>1, <1>2 DEF PspinInit, Shapes
<1>4. At1(0, 0) /\ NicAt(0)
  BY DEF PspinInit, At1, NicAt, Quiet
<1>5. FlagsAt(0, 0)
  BY DEF FlagsAt
<1> QED BY <1>3, <1>4, <1>5 DEF PspinAt

\* Steps that touch neither the applications nor the NIC, nor the driver while
\* there is an application.
LEMMA PspinFrame ==
  ASSUME NEW n, NEW o, PspinAt(n, o), DrvShape', drv'.pc = drv.pc \/ n = 0,
         UNCHANGED <<area, proc, hw, page, flag, hpu, handled>>
  PROVE  PspinAt(n, o)'
<1>1. Shapes' /\ At1(n, o)'
  BY DEF PspinAt, Shapes, At1
<1>2. NicAt(n)' /\ FlagsAt(n, o)'
  BY DEF PspinAt, NicAt, Quiet, FlagsAt, Before, Polled, Answers
<1> QED BY <1>1, <1>2 DEF PspinAt

\* Probing brings no application to another place.
LEMMA ProbeKeeps ==
  ASSUME NEW n, NEW o, PspinAt(n, o), NEW f, mqnic_app_pspin_probe(f)
  PROVE  PspinAt(n, o)'
<1>1. drv.pc = "unbound" /\ n = 0
  BY DEF mqnic_app_pspin_probe, PspinAt, At1
<1>2. /\ hw' = Latched([hw EXCEPT !.reset = FALSE, !.rule = "bypass", !.me_valid = TRUE]) \/ hw' = hw
      /\ area' = NoArea /\ UNCHANGED <<proc, page, flag, hpu, handled>>
  BY DEF mqnic_app_pspin_probe
<1>3. DrvShape'
  <2>1. PICK s : \/ drv' = [pc |-> "bound", res |-> s, exiting |-> FALSE, holder |-> "none"]
                 \/ drv' = [drv EXCEPT !.res = s]
    BY DEF mqnic_app_pspin_probe
  <2> QED BY <2>1 DEF PspinAt, Shapes, DrvShape
<1>4. /\ hw' \in Registers /\ area' \in Areas
      /\ hw'.fetch = hw.fetch /\ (hw.rule = "bypass" => hw'.rule = "bypass")
  <2>1. PICK r : r = [hw EXCEPT !.reset = FALSE, !.rule = "bypass", !.me_valid = TRUE]
    OBVIOUS
  <2>2. r \in Registers /\ r.fetch = hw.fetch /\ r.rule = "bypass" /\ hw \in Registers
    BY <2>1 DEF PspinAt, Shapes, Registers
  <2>3. area' \in Areas
    BY <1>2 DEF Areas, NoArea, Mems
  <2> QED BY <1>2, <2>1, <2>2, <2>3, LatchedShape
<1>5. Shapes' /\ At1(n, o)' /\ FlagsAt(n, o)'
  BY <1>1, <1>2, <1>3, <1>4 DEF PspinAt, Shapes, At1, FlagsAt
<1>6. NicAt(n)'
  BY <1>1, <1>2, <1>4 DEF PspinAt, NicAt, Quiet
<1> QED BY <1>5, <1>6 DEF PspinAt

\* Removing the driver waits for the one that has the device open.
LEMMA RemovalKeeps ==
  ASSUME NEW n, NEW o, PspinAt(n, o), RemoveBegin \/ RemoveEnd
  PROVE  PspinAt(n, o)'
<1>1. UNCHANGED <<area, proc, hw, page, flag, hpu, handled>>
  BY DEF RemoveBegin, RemoveEnd, nicVars
<1>2. n = 0
  <2>1. CASE RemoveBegin
    <3>1. ~(n # 0 /\ o \in Procs)
      BY <2>1, WhoActs DEF RemoveBegin, PspinAt
    <3> QED BY <3>1 DEF PspinAt, At1
  <2>2. CASE RemoveEnd
    BY <2>2 DEF RemoveEnd, PspinAt, At1
  <2> QED BY <2>1, <2>2
<1>3. DrvShape'
  BY DEF RemoveBegin, RemoveEnd, PspinAt, Shapes, DrvShape
<1> QED BY <1>1, <1>2, <1>3, PspinFrame

\* A reader of the standard output stays outside the host memory.
LEMMA ReadKeeps ==
  ASSUME NEW n, NEW o, PspinAt(n, o), NEW r, ReadBegin(r) \/ ReadStep(r) \/ ReadSignal(r)
  PROVE  PspinAt(n, o)'
<1>1. UNCHANGED <<area, proc, hw, page, flag, hpu, handled>>
  BY DEF ReadBegin, ReadStep, ReadLock, ReadLoop, ReadOut, ReadSignal, nicVars
<1>2. \E x : drv' = [drv EXCEPT !.holder = x] \/ drv' = drv
  BY DEF ReadBegin, ReadStep, ReadLock, ReadLoop, ReadOut, ReadSignal
<1>3. DrvShape' /\ drv'.pc = drv.pc
  BY <1>2 DEF PspinAt, Shapes, DrvShape
<1> QED BY <1>1, <1>3, PspinFrame

\* A mapping that fails leaves an area without an owner.
LEMMA MapFailsKeeps ==
  ASSUME NEW n, NEW o, PspinAt(n, o), NEW p \in Procs, MapFails(p)
  PROVE  PspinAt(n, o)'
<1>1. /\ ~area.enabled /\ UNCHANGED <<drv, proc, hw, page, flag, hpu, handled>>
      /\ \E m \in Handles : area' = [enabled |-> TRUE, mem |-> m, ref_count |-> 0]
  BY DEF MapFails, nicVars
<1>2. n = 0
  BY <1>1 DEF PspinAt, At1
<1>3. Shapes'
  BY <1>1 DEF PspinAt, Shapes, DrvShape, Areas, Mems
<1>4. At1(n, o)' /\ NicAt(n)' /\ FlagsAt(n, o)'
  BY <1>1, <1>2 DEF PspinAt, At1, NicAt, Quiet, FlagsAt
<1> QED BY <1>3, <1>4 DEF PspinAt

\* A new mapping: the process is at the beginning of its load.
LEMMA InitBegins ==
  ASSUME PspinAssumption, NEW n, NEW o, PspinAt(n, o), NEW p \in Procs, fpspin_init(p)
  PROVE  PspinAt(1, p)'
<1>1. PICK m \in Handles, l \in SectionLens :
        /\ area' = [enabled |-> TRUE, mem |-> m, ref_count |-> 1]
        /\ proc' = [proc EXCEPT ![p].todo = <<"query">> \o Load, ![p].left = l]
  BY DEF fpspin_init
<1>2. /\ drv.pc = "bound" /\ ~area.enabled /\ proc[p] = NoProc
      /\ page' = [h \in Hpus |-> 0] /\ UNCHANGED <<drv, hw, flag, hpu, handled>>
  BY DEF fpspin_init
<1>3. n = 0
  BY <1>2 DEF PspinAt, At1
<1>4. Todo(1) = Loading /\ Loading \in Seq(Ops) /\ l \in Int /\ 0 \in Ids
  <2>1. Todo(1) = Loading /\ Loading \in Seq(Ops)
    BY Beginnings, Programs
  <2>2. l \in Int /\ 0 \in Ids
    BY DEF PspinAssumption, Ids
  <2> QED BY <2>1, <2>2
<1>5. proc' = [proc EXCEPT ![p].todo = Loading, ![p].left = l]
  BY <1>1 DEF Loading
<1>6. /\ proc' \in [Procs -> Applications] /\ proc'[p].todo = Loading
      /\ proc'[p].cur = proc[p].cur /\ \A q \in Procs : q # p => proc'[q] = proc[q]
  <2>1. PICK r : r = [proc[p] EXCEPT !.todo = Loading, !.left = l]
    OBVIOUS
  <2>4. proc[p] \in Applications
    BY DEF PspinAt, Shapes
  <2>2. r \in Applications /\ r.todo = Loading /\ r.cur = proc[p].cur
    <3>1. PICK s \in Seq(Ops) : s = Loading
      BY <1>4
    <3> QED BY <1>4, <2>1, <2>4, <3>1 DEF Applications
  <2>3. proc' = [proc EXCEPT ![p] = r]
    BY <1>5, <2>1, ZenonT(30) DEF PspinAt, Shapes
  <2> QED BY <2>2, <2>3 DEF PspinAt, Shapes
<1>7. Shapes'
  BY <1>1, <1>2, <1>4, <1>6 DEF PspinAt, Shapes, DrvShape, Areas, Mems
<1>8. At1(1, p)'
  <2>1. proc[p].cur = [h \in Hpus |-> -1] /\ \A q \in Procs : proc[q] = NoProc
    BY <1>2, <1>3 DEF PspinAt, At1, NoProc
  <2> QED BY <1>1, <1>2, <1>4, <1>6, <2>1 DEF At1
<1>9. NicAt(1)' /\ FlagsAt(1, p)'
  BY <1>2, <1>3 DEF PspinAt, NicAt, Quiet, FlagsAt
<1> QED BY <1>7, <1>8, <1>9 DEF PspinAt

\* Steps of the owner that change nothing but its place.
LEMMA WaitsKeep ==
  ASSUME NEW n, NEW o, PspinAt(n, o), NEW p \in Procs, Query(p) \/ Nm(p)
  PROVE  PspinAt(n + 1, o)'
<1>1. UNCHANGED <<drv, area, hw, page, flag, hpu, handled>> /\ NextOp(p) /\ Op(p) \in {"query", "nm"}
  BY DEF Query, Nm, nicVars
<1>2. p = o /\ n \in {1, 13} /\ At1(n, o)
  BY <1>1, WhoActs DEF PspinAt, OpAt
<1>3. Shapes' /\ At1(n + 1, o)'
  BY <1>1, <1>2, Advances DEF PspinAt, Shapes
<1>4. NicAt(n + 1)'
  BY <1>1, <1>2 DEF PspinAt, NicAt, Quiet
<1>5. FlagsAt(n + 1, o)'
  BY <1>1, <1>2 DEF PspinAt, FlagsAt, Before, Answers
<1> QED BY <1>3, <1>4, <1>5 DEF PspinAt

\* A load that fails early goes to the unmapping.
LEMMA FailureKeeps ==
  ASSUME Orderly, NEW n, NEW o, PspinAt(n, o), NEW p \in Procs, InitFails(p)
  PROVE  PspinAt(22, o)'
<1>1. /\ UNCHANGED <<drv, area, hw, page, flag, hpu, handled>> /\ Op(p) = "query"
      /\ proc' = [proc EXCEPT ![p].todo = <<"unmap">>]
  BY DEF InitFails, Stopped, Jump, nicVars, Orderly
<1>2. p = o /\ n = 1
  BY <1>1, WhoActs DEF PspinAt, OpAt
<1>3. PICK s \in Seq(Ops) : s = <<"unmap">> /\ s = Todo(22)
  <2>1. <<"unmap">> \in Seq(Ops)
    BY DEF Ops
  <2> QED BY <2>1, Beginnings
<1>4. /\ proc' \in [Procs -> Applications] /\ proc'[o].todo = Todo(22)
      /\ proc'[o].cur = proc[o].cur /\ \A q \in Procs : q # o => proc'[q] = proc[q]
  <2>1. proc' = [proc EXCEPT ![o].todo = s]
    BY <1>1, <1>2, <1>3
  <2> QED BY <1>2, <1>3, <2>1 DEF PspinAt, Shapes, Applications
<1>5. Shapes'
  BY <1>1, <1>4 DEF PspinAt, Shapes, DrvShape
<1>6. At1(22, o)'
  BY <1>1, <1>2, <1>4 DEF PspinAt, At1
<1>7. NicAt(22)' /\ FlagsAt(22, o)'
  BY <1>1, <1>2 DEF PspinAt, NicAt, Quiet, FlagsAt
<1> QED BY <1>5, <1>6, <1>7 DEF PspinAt

\* The last operation of the owner leaves the area closed.
LEMMA UnmapEnds ==
  ASSUME PspinAssumption, NEW n, NEW o, PspinAt(n, o), NEW p \in Procs, Unmap(p)
  PROVE  PspinAt(0, o)'
<1>1. /\ UNCHANGED <<drv, hw, page, flag, hpu, handled>> /\ Op(p) = "unmap"
      /\ area' = Closed /\ proc' = [proc EXCEPT ![p] = NoProc]
  BY DEF Unmap, nicVars
<1>2. p = o /\ n = 22
  BY <1>1, WhoActs DEF PspinAt, OpAt
<1>3. area' \in Areas
  <2>1. area \in Areas /\ area.ref_count = 1
    BY <1>2 DEF PspinAt, At1, Shapes
  <2>2. (area.enabled /\ area.ref_count > 1) \in BOOLEAN /\ area.ref_count - 1 \in Nat
    BY <2>1
  <2>3. area' = [area EXCEPT !.ref_count = area.ref_count - 1,
                             !.enabled = area.enabled /\ area.ref_count > 1]
    BY <1>1, <2>1 DEF Closed
  <2> QED BY <2>1, <2>2, <2>3 DEF Areas
<1>4. proc' \in [Procs -> Applications] /\ \A q \in Procs : proc'[q] = NoProc
  BY <1>1, <1>2, NoProcShape DEF PspinAt, Shapes, At1
<1>5. Shapes' /\ At1(0, o)'
  BY <1>1, <1>3, <1>4 DEF PspinAt, Shapes, DrvShape, At1
<1>6. NicAt(0)' /\ FlagsAt(0, o)'
  BY <1>1, <1>2 DEF PspinAt, NicAt, Quiet, FlagsAt
<1> QED BY <1>5, <1>6 DEF PspinAt

\* The registers that decide when a handler may start.
LEMMA FetchKeeps ==
  ASSUME NEW n, NEW o, PspinAt(n, o), NEW p \in Procs, Fetch(p)
  PROVE  PspinAt(n + 1, o)'
<1>1. /\ UNCHANGED <<drv, area, page, flag, hpu, handled>> /\ Op(p) \in {"fetch_on", "fetch_off"}
      /\ hw' = Latched([hw EXCEPT !.fetch = Op(p) = "fetch_on"]) /\ NextOp(p)
  BY DEF Fetch, SetHw
<1>2. p = o /\ n \in {2, 6, 16} /\ (n # 6 => Op(p) = "fetch_off")
  BY <1>1, WhoActs DEF PspinAt, OpAt
<1>3. PICK b \in BOOLEAN : b = (Op(p) = "fetch_on")
  OBVIOUS
<1>4. /\ hw' \in Registers /\ hw'.fetch = b /\ hw'.rule = hw.rule
      /\ hw'.her_mem = hw.her_mem /\ hw'.pending = hw.pending
      /\ hw'.stored \in {"none", hw.her_mem, hw.stored}
  <2>1. PICK r : r = [hw EXCEPT !.fetch = b]
    OBVIOUS
  <2>2. /\ r \in Registers /\ r.fetch = b /\ r.rule = hw.rule
        /\ r.her_mem = hw.her_mem /\ r.pending = hw.pending /\ r.stored = hw.stored
    BY <2>1 DEF PspinAt, Shapes, Registers
  <2> QED BY <1>1, <1>3, <2>1, <2>2, LatchedShape
<1>5. Shapes' /\ At1(n + 1, o)'
  BY <1>1, <1>2, <1>4, Advances DEF PspinAt, Shapes
<1>6. n # 6 => hw'.fetch = FALSE
  BY <1>2, <1>3, <1>4
<1>7. NicAt(n + 1)'
  BY <1>1, <1>2, <1>4, <1>6 DEF PspinAt, NicAt, Quiet
<1>8. FlagsAt(n + 1, o)'
  BY <1>1, <1>2 DEF PspinAt, FlagsAt, Before, Answers
<1> QED BY <1>5, <1>7, <1>8 DEF PspinAt

\* A reset of the cluster is an operation of the owner.
LEMMA ResetKeeps ==
  ASSUME NEW n, NEW o, PspinAt(n, o), NEW p \in Procs, Reset(p)
  PROVE  PspinAt(n + 1, o)'
<1>1. /\ UNCHANGED <<drv, area, page, flag, handled>> /\ Op(p) \in {"rst_on", "rst_off"}
      /\ hw' = Latched([hw EXCEPT !.reset = Op(p) = "rst_on", !.pending = IF Op(p) = "rst_on" THEN {} ELSE @])
      /\ hpu' = IF Op(p) = "rst_on"
                THEN [h \in Hpus |-> [hpu[h] EXCEPT !.st = "idle", !.mem = "none"]] ELSE hpu
  BY DEF Reset
<1>10. UNCHANGED <<drv, area, page, flag, handled>> /\ NextOp(p)
  BY DEF Reset
<1>2. p = o /\ n \in {3, 4, 17, 18} /\ n \in 1 .. 22
  BY <1>1, WhoActs DEF PspinAt, OpAt
<1>3. (n \in {3, 17} /\ Op(p) = "rst_on") \/ (n \in {4, 18} /\ Op(p) = "rst_off")
  <2>1. OpAt(n, Op(p))
    BY <1>1, WhoActs DEF PspinAt
  <2> QED BY <1>1, <1>2, <2>1 DEF OpAt
<1>4. PICK b \in BOOLEAN : b = (Op(p) = "rst_on")
  OBVIOUS
<1>5. /\ hw' \in Registers /\ hw'.fetch = hw.fetch /\ hw'.rule = hw.rule
      /\ hw'.her_mem = hw.her_mem /\ hw'.pending = IF Op(p) = "rst_on" THEN {} ELSE hw.pending
  <2>1. PICK r : r = [hw EXCEPT !.reset = b, !.pending = IF Op(p) = "rst_on" THEN {} ELSE @]
    OBVIOUS
  <2>2. /\ r \in Registers /\ r.fetch = hw.fetch /\ r.rule = hw.rule /\ r.her_mem = hw.her_mem
        /\ r.pending = IF Op(p) = "rst_on" THEN {} ELSE hw.pending
    BY <2>1 DEF PspinAt, Shapes, Registers
  <2> QED BY <1>1, <1>4, <2>1, <2>2, LatchedShape
<1>6. hpu' \in [Hpus -> Cores] /\ \A h \in Hpus : hpu'[h].st = "idle"
  <2>1. CASE Op(p) = "rst_on"
    BY <1>1, <2>1 DEF PspinAt, Shapes, Cores, Mems
  <2>2. CASE Op(p) # "rst_on"
    BY <1>1, <1>2, <1>3, <2>2 DEF PspinAt, Shapes, NicAt, Quiet
  <2> QED BY <2>1, <2>2
<1>7. Shapes' /\ At1(n + 1, o)'
  BY <1>2, <1>5, <1>6, <1>10, Advances DEF PspinAt, Shapes
<1>8. NicAt(n + 1)'
  BY <1>2, <1>3, <1>5, <1>6, <1>10 DEF PspinAt, NicAt, Quiet
<1>9. FlagsAt(n + 1, o)'
  <2>1. n \in 1 .. 11 => \A h \in Hpus : page'[h] = 0
    BY <1>1 DEF PspinAt, FlagsAt
  <2> QED BY <1>2, <2>1 DEF FlagsAt
<1> QED BY <1>7, <1>8, <1>9 DEF PspinAt

\* The context is taken over, or packets match again.
LEMMA ValidKeeps ==
  ASSUME NEW n, NEW o, PspinAt(n, o), NEW p \in Procs, HerValid(p) \/ MeValid(p)
  PROVE  PspinAt(n + 1, o)'
<1>1. /\ UNCHANGED <<drv, area, page, flag, hpu, handled>> /\ NextOp(p)
      /\ Op(p) \in {"her_on", "her_off", "me_on", "me_off"}
  BY DEF HerValid, MeValid, SetHw
<1>2. PICK b \in BOOLEAN : \/ hw' = Latched([hw EXCEPT !.her_valid = b]) /\ b = (Op(p) = "her_on")
                           \/ hw' = Latched([hw EXCEPT !.me_valid = b]) /\ Op(p) \in {"me_on", "me_off"}
  BY DEF HerValid, MeValid, SetHw
<1>3. p = o /\ n \in {7, 9, 10, 12, 19, 21} /\ (n = 9 => Op(p) = "her_on")
  BY <1>1, WhoActs DEF PspinAt, OpAt
<1>4. /\ hw' \in Registers /\ hw'.fetch = hw.fetch /\ hw'.rule = hw.rule
      /\ hw'.her_mem = hw.her_mem /\ hw'.pending = hw.pending
      /\ hw'.stored \in {"none", hw.her_mem, hw.stored}
      /\ n = 9 => hw'.stored \in {"none", hw.her_mem}
  <2>1. CASE hw' = Latched([hw EXCEPT !.her_valid = b]) /\ b = (Op(p) = "her_on")
    <3>1. PICK r : r = [hw EXCEPT !.her_valid = b]
      OBVIOUS
    <3>2. /\ r \in Registers /\ r.fetch = hw.fetch /\ r.rule = hw.rule /\ r.her_valid = b
          /\ r.her_mem = hw.her_mem /\ r.pending = hw.pending /\ r.stored = hw.stored
      BY <3>1 DEF PspinAt, Shapes, Registers
    <3> QED BY <1>3, <2>1, <3>1, <3>2, LatchedShape
  <2>2. CASE hw' = Latched([hw EXCEPT !.me_valid = b]) /\ Op(p) \in {"me_on", "me_off"}
    <3>1. PICK r : r = [hw EXCEPT !.me_valid = b]
      OBVIOUS
    <3>2. /\ r \in Registers /\ r.fetch = hw.fetch /\ r.rule = hw.rule
          /\ r.her_mem = hw.her_mem /\ r.pending = hw.pending /\ r.stored = hw.stored
      BY <3>1 DEF PspinAt, Shapes, Registers
    <3> QED BY <1>3, <2>2, <3>1, <3>2, LatchedShape
  <2> QED BY <1>2, <2>1, <2>2
<1>5. Shapes' /\ At1(n + 1, o)'
  BY <1>1, <1>3, <1>4, Advances DEF PspinAt, Shapes
<1>6. NicAt(n + 1)'
  BY <1>1, <1>3, <1>4 DEF PspinAt, NicAt, Quiet
<1>7. FlagsAt(n + 1, o)'
  BY <1>1, <1>3 DEF PspinAt, FlagsAt, Before, Answers
<1> QED BY <1>5, <1>6, <1>7 DEF PspinAt

\* The area is made known to the NIC.
LEMMA HerSetKeeps ==
  ASSUME NEW n, NEW o, PspinAt(n, o), NEW p \in Procs, HerSet(p)
  PROVE  PspinAt(n + 1, o)'
<1>1. /\ UNCHANGED <<drv, area, page, flag, hpu, handled>> /\ NextOp(p) /\ Op(p) = "her_set"
      /\ hw' = Latched([hw EXCEPT !.her_mem = area.mem, !.ctx_enabled = TRUE])
  BY DEF HerSet, SetHw
<1>2. p = o /\ n = 8
  BY <1>1, WhoActs DEF PspinAt, OpAt
<1>3. /\ hw' \in Registers /\ hw'.fetch = hw.fetch /\ hw'.rule = hw.rule
      /\ hw'.her_mem = area.mem /\ hw'.pending = hw.pending
  <2>1. PICK r : r = [hw EXCEPT !.her_mem = area.mem, !.ctx_enabled = TRUE]
    OBVIOUS
  <2>2. /\ r \in Registers /\ r.fetch = hw.fetch /\ r.rule = hw.rule
        /\ r.her_mem = area.mem /\ r.pending = hw.pending
    BY <2>1 DEF PspinAt, Shapes, Registers, Areas
  <2> QED BY <1>1, <2>1, <2>2, LatchedShape
<1>4. Shapes' /\ At1(n + 1, o)'
  BY <1>1, <1>2, <1>3, Advances DEF PspinAt, Shapes
<1>5. NicAt(n + 1)' /\ FlagsAt(n + 1, o)'
  BY <1>1, <1>2, <1>3 DEF PspinAt, NicAt, Quiet, FlagsAt
<1> QED BY <1>4, <1>5 DEF PspinAt

\* From here on packets reach the handlers, or they no longer do.
LEMMA MeRulesKeeps ==
  ASSUME PspinAssumption, NEW n, NEW o, PspinAt(n, o), NEW p \in Procs, MeRules(p)
  PROVE  PspinAt(n + 1, o)'
<1>1. /\ UNCHANGED <<drv, area, page, flag, hpu, handled>> /\ NextOp(p)
      /\ Op(p) \in {"me_rules", "me_bypass"}
      /\ hw' = Latched([hw EXCEPT !.rule = IF Op(p) = "me_rules" THEN "match" ELSE "bypass"])
  BY DEF MeRules, SetHw
<1>2. p = o /\ n \in {11, 20} /\ (n = 20 => Op(p) = "me_bypass")
  BY <1>1, WhoActs DEF PspinAt, OpAt
<1>3. /\ hw' \in Registers /\ hw'.fetch = hw.fetch
      /\ hw'.rule = IF Op(p) = "me_rules" THEN "match" ELSE "bypass"
      /\ hw'.her_mem = hw.her_mem /\ hw'.pending = hw.pending
      /\ hw'.stored \in {"none", hw.her_mem, hw.stored}
  <2>1. PICK r : r = [hw EXCEPT !.rule = IF Op(p) = "me_rules" THEN "match" ELSE "bypass"]
    OBVIOUS
  <2>2. /\ r \in Registers /\ r.fetch = hw.fetch /\ r.her_mem = hw.her_mem /\ r.pending = hw.pending
        /\ r.rule = (IF Op(p) = "me_rules" THEN "match" ELSE "bypass") /\ r.stored = hw.stored
    BY <2>1 DEF PspinAt, Shapes, Registers
  <2> QED BY <1>1, <2>1, <2>2, LatchedShape
<1>4. Shapes' /\ At1(n + 1, o)'
  BY <1>1, <1>2, <1>3, Advances DEF PspinAt, Shapes
<1>5. NicAt(n + 1)'
  BY <1>1, <1>2, <1>3 DEF PspinAt, NicAt, Quiet
<1>6. FlagsAt(n + 1, o)'
  <2>1. CASE n = 11
    <3>1. \A h \in Hpus : page[h] = 0 /\ flag[h] = 0 /\ hpu[h].id = 0 /\ hpu[h].st = "idle"
      BY <2>1 DEF PspinAt, NicAt, Quiet, FlagsAt
    <3>2. \A h \in Hpus : Before(h)' /\ Answers(h)'
      BY <1>1, <3>1 DEF Before, Answers
    <3> QED BY <2>1, <3>2 DEF FlagsAt
  <2>2. CASE n = 20
    BY <2>2 DEF FlagsAt
  <2> QED BY <1>2, <2>1, <2>2
<1> QED BY <1>4, <1>5, <1>6 DEF PspinAt

\* A write of the image; after the last one the handlers' data are zero.
LEMMA SectionKeeps ==
  ASSUME PspinAssumption, NEW n, NEW o, PspinAt(n, o), NEW p \in Procs, Section(p)
  PROVE  PspinAt(n, o)' \/ PspinAt(n + 1, o)'
<1>1. UNCHANGED <<drv, area, hw, page>> /\ Op(p) = "section"
  BY DEF Section
<1>2. p = o /\ n = 5
  BY <1>1, WhoActs DEF PspinAt, OpAt
<1>3. CASE proc[p].left > 0
  <2>1. UNCHANGED <<flag, hpu, handled>>
        /\ proc' = [proc EXCEPT ![p].left = proc[p].left - Transferred(proc[p].left)]
    BY <1>3 DEF Section, PspinAt, Shapes
  <2>2. o \in Procs /\ proc \in [Procs -> Applications] /\ proc[o].left \in Int
    BY <1>2 DEF PspinAt, At1, Shapes, Applications
  <2>3. proc[p].left - Transferred(proc[p].left) \in Int
    <3>1. PICK l \in Int : l = proc[p].left
      BY <1>2, <2>2
    <3>2. BLOCK \in Int
      BY DEF PspinAssumption
    <3>3. l - Transferred(l) \in Int
      BY <3>2 DEF Transferred
    <3> QED BY <3>1, <3>3
  <2>4. PICK r \in Int : proc' = [proc EXCEPT ![o].left = r]
    BY <1>2, <2>1, <2>3
  <2>5. /\ proc' \in [Procs -> Applications] /\ proc'[o].cur = proc[o].cur
        /\ proc'[o].todo = proc[o].todo /\ \A q \in Procs : q # o => proc'[q] = proc[q]
    <3>1. PICK a : a = [proc[o] EXCEPT !.left = r]
      OBVIOUS
    <3>4. PICK b \in Applications : b = proc[o]
      BY <2>2
    <3>5. a = [b EXCEPT !.left = r]
      BY <3>1, <3>4
    <3>6. a \in Applications /\ a.cur = b.cur /\ a.todo = b.todo
      BY <3>5 DEF Applications
    <3>2. a \in Applications /\ a.cur = proc[o].cur /\ a.todo = proc[o].todo
      BY <3>4, <3>6
    <3>3. proc' = [proc EXCEPT ![o] = a]
      BY <2>2, <2>4, <3>1
    <3> QED BY <2>2, <3>2, <3>3
  <2>6. Shapes' /\ At1(n, o)'
    BY <1>1, <1>2, <2>1, <2>5 DEF PspinAt, Shapes, DrvShape, At1
  <2>7. NicAt(n)' /\ FlagsAt(n, o)'
    BY <1>1, <1>2, <2>1 DEF PspinAt, NicAt, Quiet, FlagsAt
  <2> QED BY <2>6, <2>7 DEF PspinAt
<1>4. CASE ~(proc[p].left > 0)
  <2>1. /\ NextOp(p) /\ flag' = [h \in Hpus |-> 0] /\ handled' = [h \in Hpus |-> 0]
        /\ hpu' = [h \in Hpus |-> [hpu[h] EXCEPT !.id = 0]]
    BY <1>4 DEF Section
  <2>2. 0 \in Ids
    BY NoProcShape
  <2>3. /\ hpu' \in [Hpus -> Cores] /\ flag' \in [Hpus -> Ids] /\ handled' \in [Hpus -> Nat]
        /\ \A h \in Hpus : hpu'[h].st = hpu[h].st /\ hpu'[h].id = 0 /\ flag'[h] = 0
    <3>3. flag' \in [Hpus -> Ids] /\ handled' \in [Hpus -> Nat] /\ \A h \in Hpus : flag'[h] = 0
      BY <2>1, <2>2
    <3>4. \A h \in Hpus : hpu[h] \in Cores /\ hpu'[h] = [hpu[h] EXCEPT !.id = 0]
      BY <2>1 DEF PspinAt, Shapes
    <3>5. ASSUME NEW h \in Hpus
          PROVE  hpu'[h] \in Cores /\ hpu'[h].st = hpu[h].st /\ hpu'[h].id = 0
      <4>1. PICK c \in Cores : c = hpu[h] /\ hpu'[h] = [c EXCEPT !.id = 0]
        BY <3>4
      <4> QED BY <2>2, <4>1 DEF Cores
    <3>6. hpu' \in [Hpus -> Cores]
      BY <2>1, <3>5
    <3> QED BY <3>3, <3>5, <3>6
  <2>4. Shapes' /\ At1(n + 1, o)'
    BY <1>1, <1>2, <2>1, <2>3, Advances DEF PspinAt, Shapes
  <2>5. NicAt(n + 1)'
    BY <1>1, <1>2, <2>3 DEF PspinAt, NicAt, Quiet
  <2>6. FlagsAt(n + 1, o)'
    BY <1>1, <1>2, <2>3 DEF PspinAt, FlagsAt
  <2> QED BY <2>4, <2>5, <2>6 DEF PspinAt
<1> QED BY <1>3, <1>4

\* The number after the one in use is another one.
LEMMA NextId ==
  ASSUME PspinAssumption, NEW i \in Ids
  PROVE  (i + 1) % DMA_IDS \in Ids /\ (i + 1) % DMA_IDS # i /\ ((0 + 1) % DMA_IDS = 1)
<1>1. DMA_IDS \in Nat /\ DMA_IDS >= 2 /\ i \in 0 .. DMA_IDS - 1
  BY DEF PspinAssumption, Ids
<1>2. (i + 1) % DMA_IDS = IF i = DMA_IDS - 1 THEN 0 ELSE i + 1
  BY <1>1
<1>3. (0 + 1) % DMA_IDS = 1
  BY <1>1
<1> QED BY <1>1, <1>2, <1>3 DEF Ids

\* The host starts to poll with the flags it finds.
LEMMA FlagsKeeps ==
  ASSUME PspinAssumption, NEW n, NEW o, PspinAt(n, o), NEW p \in Procs, Flags(p)
  PROVE  PspinAt(15, o)'
<1>1. /\ UNCHANGED <<drv, area, hw, page, flag, hpu, handled>> /\ Op(p) = "flags"
      /\ proc' = [proc EXCEPT ![p].dma_idx = page, ![p].todo = <<"run">>]
  BY DEF Flags, nicVars
<1>2. p = o /\ n = 14 /\ o \in Procs
  BY <1>1, WhoActs DEF PspinAt, OpAt
<1>3. PICK b \in Applications : b = proc[o]
  BY <1>2 DEF PspinAt, Shapes
<1>4. PICK s \in Seq(Ops) : s = <<"run">> /\ s = Todo(15)
  <2>1. <<"run">> \in Seq(Ops)
    BY DEF Ops
  <2> QED BY <2>1, Beginnings
<1>5. PICK a : a = [b EXCEPT !.dma_idx = page, !.todo = s]
  OBVIOUS
<1>6. a \in Applications /\ a.todo = Todo(15) /\ a.cur = b.cur /\ a.dma_idx = page
  <2>1. page \in [Hpus -> Ids]
    BY DEF PspinAt, Shapes
  <2> QED BY <1>4, <1>5, <2>1 DEF Applications
<1>7. proc' = [proc EXCEPT ![o] = a]
  <2>1. proc \in [Procs -> Applications]
    BY DEF PspinAt, Shapes
  <2>2. proc' = [proc EXCEPT ![o].dma_idx = page, ![o].todo = s]
    BY <1>1, <1>2, <1>4
  <2>3. proc' = [proc EXCEPT ![o] = [proc[o] EXCEPT !.dma_idx = page, !.todo = s]]
    BY <1>2, <2>1, <2>2
  <2> QED BY <1>3, <1>5, <2>3
<1>8. /\ proc' \in [Procs -> Applications] /\ proc'[o] = a
      /\ \A q \in Procs : q # o => proc'[q] = proc[q]
  BY <1>2, <1>6, <1>7 DEF PspinAt, Shapes
<1>12. UNCHANGED <<drv, area, hw, page, flag, hpu, handled>>
  BY <1>1
<1>13. Shapes'
  BY <1>8, <1>12 DEF PspinAt, Shapes, DrvShape
<1>9. At1(15, o)'
  BY <1>2, <1>6, <1>8, <1>12 DEF PspinAt, At1
<1>10. NicAt(15)'
  BY <1>1, <1>2 DEF PspinAt, NicAt, Quiet
<1>11. FlagsAt(15, o)'
  <2>1. \A h \in Hpus : Before(h) /\ Answers(h) /\ proc[o].cur[h] = -1
    BY <1>2 DEF PspinAt, FlagsAt, At1
  <2>2. \A h \in Hpus : hpu[h] \in Cores
    BY DEF PspinAt, Shapes
  <2>3. ASSUME NEW h \in Hpus
        PROVE  Polled(o, h)'
    <3>1. proc'[o].cur[h] = -1 /\ proc'[o].dma_idx[h] = page[h] /\ Before(h)
          /\ (hpu[h].st # "wait" => hpu[h].st = "idle" \/ hpu[h].st = "start")
      BY <1>3, <1>6, <1>8, <2>1, <2>2 DEF Cores
    <3> QED BY <1>12, <3>1 DEF Before, Polled
  <2>4. \A h \in Hpus : Answers(h)'
    BY <1>1, <2>1 DEF Answers
  <2> QED BY <2>3, <2>4 DEF FlagsAt
<1> QED BY <1>9, <1>10, <1>11, <1>13 DEF PspinAt

\* What is between the host and one core changes.
LEMMA CoreServed ==
  ASSUME NEW o \in Procs, PspinAt(15, o), NEW h \in Hpus, NEW a \in Applications,
         proc' = [proc EXCEPT ![o] = a], a.todo = proc[o].todo,
         \A g \in Hpus : g # h => a.dma_idx[g] = proc[o].dma_idx[g] /\ a.cur[g] = proc[o].cur[g],
         flag' \in [Hpus -> Ids], handled' \in [Hpus -> Nat],
         \A g \in Hpus : g # h => flag'[g] = flag[g] /\ handled'[g] = handled[g],
         UNCHANGED <<drv, area, hw, page, hpu>>,
         Polled(o, h)', Answers(h)'
  PROVE  PspinAt(15, o)'
<1>1. /\ proc' \in [Procs -> Applications] /\ proc'[o] = a
      /\ \A q \in Procs : q # o => proc'[q] = proc[q]
  BY DEF PspinAt, Shapes
<1>2. Shapes'
  BY <1>1 DEF PspinAt, Shapes, DrvShape
<1>3. At1(15, o)'
  BY <1>1 DEF PspinAt, At1
<1>4. NicAt(15)'
  BY DEF PspinAt, NicAt, Quiet
<1>5. \A g \in Hpus : g # h => Polled(o, g)' /\ Answers(g)'
  BY <1>1 DEF PspinAt, FlagsAt, Polled, Answers
<1>6. FlagsAt(15, o)'
  BY <1>5 DEF FlagsAt
<1> QED BY <1>2, <1>3, <1>4, <1>6 DEF PspinAt

\* The owner takes a request: the page it saw is the one it answers.
LEMMA PopKeeps ==
  ASSUME PspinAssumption, NEW n, NEW o, PspinAt(n, o), NEW p \in Procs, NEW h \in Hpus,
         fpspin_pop_req(p, h)
  PROVE  PspinAt(n, o)'
<1>1. /\ UNCHANGED <<drv, area, hw, page, flag, hpu>> /\ Op(p) = "run" /\ proc[p].cur[h] = -1
      /\ page[h] # proc[p].dma_idx[h] /\ handled' = [handled EXCEPT ![h] = @ + 1]
      /\ proc' = [proc EXCEPT ![p].dma_idx[h] = page[h], ![p].cur[h] = page[h]]
  BY DEF fpspin_pop_req, Running, Unseen, Processed
<1>2. p = o /\ n = 15
  BY <1>1, WhoActs DEF PspinAt, OpAt
<1>3. /\ proc \in [Procs -> Applications] /\ page \in [Hpus -> Ids] /\ flag \in [Hpus -> Ids]
      /\ handled \in [Hpus -> Nat]
  BY DEF PspinAt, Shapes
<1>4. PICK b \in Applications : b = proc[o]
  BY <1>2, <1>3
<1>5. b.dma_idx \in [Hpus -> Ids] /\ b.cur \in [Hpus -> Ids \cup {-1}]
  BY DEF Applications
<1>6. PICK d \in [Hpus -> Ids], c \in [Hpus -> Ids \cup {-1}] :
        d = [b.dma_idx EXCEPT ![h] = page[h]] /\ c = [b.cur EXCEPT ![h] = page[h]]
  BY <1>3, <1>5, ZenonT(30)
<1>7. PICK a : a = [b EXCEPT !.dma_idx = d, !.cur = c]
  OBVIOUS
<1>8. a \in Applications /\ a.todo = b.todo /\ a.dma_idx = d /\ a.cur = c
  BY <1>7 DEF Applications
<1>9. proc' = [proc EXCEPT ![o] = a]
  <2>1. PICK e : e = [b EXCEPT !.dma_idx = d]
    OBVIOUS
  <2>2. PICK f : f = [proc EXCEPT ![o] = e]
    OBVIOUS
  <2>3. f = [proc EXCEPT ![o].dma_idx[h] = page[h]]
    BY <1>2, <1>3, <1>4, <1>6, <2>1, <2>2
  <2>4. e.cur = b.cur /\ a = [e EXCEPT !.cur = c] /\ f[o] = e
    BY <1>2, <1>3, <1>7, <2>1, <2>2 DEF Applications
  <2>5. proc' = [f EXCEPT ![o].cur[h] = page[h]]
    BY <1>1, <1>2, <2>3
  <2>6. proc' = [f EXCEPT ![o] = a]
    BY <1>6, <2>4, <2>5
  <2> QED BY <1>2, <1>3, <2>2, <2>6
<1>10. /\ \A g \in Hpus : g # h => d[g] = b.dma_idx[g] /\ c[g] = b.cur[g]
       /\ d[h] = page[h] /\ c[h] = page[h]
  BY <1>5, <1>6
<1>11. /\ handled' \in [Hpus -> Nat] /\ handled'[h] = handled[h] + 1
       /\ \A g \in Hpus : g # h => handled'[g] = handled[g]
  BY <1>1, <1>3
<1>12. proc'[o].dma_idx[h] = page[h] /\ proc'[o].cur[h] = page[h]
  BY <1>2, <1>3, <1>8, <1>9, <1>10
<1>13. Polled(o, h) /\ Answers(h)
  BY <1>2 DEF PspinAt, FlagsAt
<1>14. Polled(o, h)'
  BY <1>1, <1>2, <1>11, <1>12, <1>13 DEF Polled
<1>15. Answers(h)'
  BY <1>1, <1>2, <1>11, <1>13 DEF Polled, Answers
<1>16. /\ a.todo = proc[o].todo
       /\ \A g \in Hpus : g # h => a.dma_idx[g] = proc[o].dma_idx[g] /\ a.cur[g] = proc[o].cur[g]
  BY <1>4, <1>8, <1>10
<1>17. /\ UNCHANGED <<drv, area, hw, page, hpu>>
       /\ flag' \in [Hpus -> Ids] /\ handled' \in [Hpus -> Nat]
       /\ \A g \in Hpus : g # h => flag'[g] = flag[g] /\ handled'[g] = handled[g]
  BY <1>1, <1>3, <1>11
<1> QED BY <1>2, <1>8, <1>9, <1>14, <1>15, <1>16, <1>17, CoreServed, ZenonT(30)

\* The owner answers the request it took, once.
LEMMA PushKeeps ==
  ASSUME PspinAssumption, NEW n, NEW o, PspinAt(n, o), NEW p \in Procs, NEW h \in Hpus,
         fpspin_push_resp(p, h)
  PROVE  PspinAt(n, o)'
<1>1. /\ UNCHANGED <<drv, area, hw, page, handled, hpu>> /\ Op(p) = "run" /\ proc[p].cur[h] # -1
      /\ flag' = [flag EXCEPT ![h] = proc[p].dma_idx[h]]
      /\ proc' = [proc EXCEPT ![p].cur[h] = -1]
  BY DEF fpspin_push_resp, Running
<1>2. p = o /\ n = 15
  BY <1>1, WhoActs DEF PspinAt, OpAt
<1>3. /\ proc \in [Procs -> Applications] /\ page \in [Hpus -> Ids] /\ flag \in [Hpus -> Ids]
      /\ handled \in [Hpus -> Nat]
  BY DEF PspinAt, Shapes
<1>4. PICK b \in Applications : b = proc[o]
  BY <1>2, <1>3
<1>5. b.dma_idx \in [Hpus -> Ids] /\ b.cur \in [Hpus -> Ids \cup {-1}]
  BY DEF Applications
<1>6. PICK c \in [Hpus -> Ids \cup {-1}] : c = [b.cur EXCEPT ![h] = -1]
  BY <1>5
<1>7. PICK a : a = [b EXCEPT !.cur = c]
  OBVIOUS
<1>8. a \in Applications /\ a.todo = b.todo /\ a.dma_idx = b.dma_idx /\ a.cur = c
  BY <1>7 DEF Applications
<1>9. proc' = [proc EXCEPT ![o] = a]
  BY <1>1, <1>2, <1>3, <1>4, <1>6, <1>7
<1>10. (\A g \in Hpus : g # h => c[g] = b.cur[g]) /\ c[h] = -1
  BY <1>5, <1>6
<1>11. /\ flag' \in [Hpus -> Ids] /\ flag'[h] = b.dma_idx[h]
       /\ \A g \in Hpus : g # h => flag'[g] = flag[g]
  BY <1>1, <1>2, <1>3, <1>4, <1>5
<1>12. proc'[o].dma_idx[h] = b.dma_idx[h] /\ proc'[o].cur[h] = -1
  BY <1>2, <1>3, <1>8, <1>9, <1>10
<1>13. Polled(o, h) /\ Answers(h)
  BY <1>2 DEF PspinAt, FlagsAt
<1>14. Polled(o, h)'
  BY <1>1, <1>2, <1>4, <1>11, <1>12, <1>13 DEF Polled
<1>15. Answers(h)'
  BY <1>1, <1>2, <1>4, <1>11, <1>13 DEF Polled, Answers
<1>16. /\ a.todo = proc[o].todo
       /\ \A g \in Hpus : g # h => a.dma_idx[g] = proc[o].dma_idx[g] /\ a.cur[g] = proc[o].cur[g]
  BY <1>4, <1>8, <1>10
<1>17. /\ UNCHANGED <<drv, area, hw, page, hpu>>
       /\ flag' \in [Hpus -> Ids] /\ handled' \in [Hpus -> Nat]
       /\ \A g \in Hpus : g # h => flag'[g] = flag[g] /\ handled'[g] = handled[g]
  BY <1>1, <1>3, <1>11
<1> QED BY <1>2, <1>8, <1>9, <1>14, <1>15, <1>16, <1>17, CoreServed, ZenonT(30)

\* The application stops polling.
LEMMA ExitKeeps ==
  ASSUME PspinAssumption, NEW n, NEW o, PspinAt(n, o), NEW p \in Procs, fpspin_exit(p)
  PROVE  PspinAt(16, o)'
<1>1. /\ UNCHANGED <<drv, area, hw, page, flag, hpu, handled>> /\ Op(p) = "run"
      /\ proc' = [proc EXCEPT ![p].todo = Unload, ![p].cur = [h \in Hpus |-> -1]]
  BY DEF fpspin_exit, Running, nicVars
<1>2. p = o /\ n = 15
  BY <1>1, WhoActs DEF PspinAt, OpAt
<1>3. proc \in [Procs -> Applications] /\ Unload \in Seq(Ops) /\ Todo(16) = Unload
  BY Programs, Beginnings DEF PspinAt, Shapes
<1>4. PICK b \in Applications, s \in Seq(Ops), c \in [Hpus -> Ids \cup {-1}] :
        b = proc[o] /\ s = Unload /\ c = [h \in Hpus |-> -1]
  BY <1>2, <1>3, ZenonT(30)
<1>5. PICK a : a = [b EXCEPT !.todo = s, !.cur = c]
  OBVIOUS
<1>6. a \in Applications /\ a.todo = s /\ a.cur = c
  BY <1>5 DEF Applications
<1>7. proc' = [proc EXCEPT ![o] = a]
  BY <1>1, <1>2, <1>3, <1>4, <1>5
<1>8. /\ proc' \in [Procs -> Applications] /\ proc'[o] = a
      /\ \A q \in Procs : q # o => proc'[q] = proc[q]
  BY <1>2, <1>3, <1>6, <1>7
<1>9. UNCHANGED <<drv, area, hw, page, flag, hpu, handled>>
  BY <1>1
<1>10. Shapes'
  BY <1>8, <1>9 DEF PspinAt, Shapes, DrvShape
<1>11. At1(16, o)'
  BY <1>2, <1>3, <1>4, <1>6, <1>8, <1>9 DEF PspinAt, At1
<1>12. NicAt(16)'
  BY <1>2, <1>9 DEF PspinAt, NicAt, Quiet
<1>13. FlagsAt(16, o)'
  BY <1>2, <1>9 DEF PspinAt, FlagsAt, Answers
<1> QED BY <1>10, <1>11, <1>12, <1>13 DEF PspinAt

\* A packet waits with the address the HER generator has stored.
LEMMA PacketKeeps ==
  ASSUME NEW n, NEW o, PspinAt(n, o), Packet
  PROVE  PspinAt(n, o)'
<1>1. /\ UNCHANGED <<drv, area, proc, page, flag, hpu, handled>> /\ hw.rule = "match"
      /\ hw' = Latched([hw EXCEPT !.pending = {hw.stored}]) /\ hw.stored # "none"
  BY DEF Packet, Matched, SetHw, hostVars
<1>2. n \in 12 .. 20
  BY <1>1 DEF PspinAt, At1, NicAt
<1>3. /\ hw' \in Registers /\ hw'.fetch = hw.fetch /\ hw'.rule = hw.rule
      /\ hw'.her_mem = hw.her_mem /\ hw'.pending = {hw.stored}
      /\ hw'.stored \in {"none", hw.her_mem, hw.stored}
  <2>1. PICK r : r = [hw EXCEPT !.pending = {hw.stored}]
    OBVIOUS
  <2>2. /\ r \in Registers /\ r.fetch = hw.fetch /\ r.rule = hw.rule
        /\ r.her_mem = hw.her_mem /\ r.pending = {hw.stored} /\ r.stored = hw.stored
    BY <2>1 DEF PspinAt, Shapes, Registers
  <2> QED BY <1>1, <2>1, <2>2, LatchedShape
<1>4. Shapes' /\ At1(n, o)'
  BY <1>1, <1>3 DEF PspinAt, Shapes, DrvShape, At1
<1>5. NicAt(n)'
  <2>1. NicAt(n) /\ hw'.pending # {} /\ (n \in 12 .. 17 => hw.stored = area.mem /\ hw.her_mem = area.mem)
    BY <1>1, <1>3 DEF PspinAt, NicAt
  <2>2. n \in 12 .. 17 => hw'.pending \subseteq {area.mem} /\ hw'.stored \in {"none", area.mem}
    BY <1>3, <2>1
  <2> QED BY <1>1, <1>2, <1>3, <2>1, <2>2 DEF NicAt, Quiet
<1>6. FlagsAt(n, o)'
  BY <1>1 DEF PspinAt, FlagsAt, Before, Polled, Answers
<1> QED BY <1>4, <1>5, <1>6 DEF PspinAt

\* A step of one core.
LEMMA CoreSteps ==
  ASSUME NEW n, NEW o, PspinAt(n, o), n \in 12 .. 17, NEW h \in Hpus, NEW c \in Cores,
         hpu' = [hpu EXCEPT ![h] = c], c.st = "idle" \/ c.mem = area.mem,
         hw' \in Registers, hw'.fetch = hw.fetch, hw'.rule = hw.rule, hw'.her_mem = hw.her_mem,
         hw'.stored = hw.stored, hw'.pending \subseteq hw.pending,
         page' \in [Hpus -> Ids], handled' \in [Hpus -> Nat],
         \A g \in Hpus : g # h => page'[g] = page[g] /\ handled'[g] = handled[g],
         UNCHANGED <<drv, area, proc, flag>>,
         n \in 12 .. 14 => Before(h)', n = 15 => Polled(o, h)', Answers(h)'
  PROVE  PspinAt(n, o)'
<1>1. /\ hpu' \in [Hpus -> Cores] /\ hpu'[h] = c
      /\ \A g \in Hpus : g # h => hpu'[g] = hpu[g]
  BY DEF PspinAt, Shapes
<1>2. Shapes' /\ At1(n, o)'
  BY <1>1 DEF PspinAt, Shapes, DrvShape, At1
<1>3. NicAt(n)'
  BY <1>1 DEF PspinAt, NicAt, Quiet
<1>4. ASSUME NEW g \in Hpus, g # h
      PROVE  /\ n \in 12 .. 14 => Before(g)'
             /\ n = 15 => Polled(o, g)'
             /\ Answers(g)'
  BY <1>1, <1>4 DEF PspinAt, FlagsAt, Before, Polled, Answers
<1>5. FlagsAt(n, o)'
  BY <1>4 DEF FlagsAt
<1> QED BY <1>2, <1>3, <1>5 DEF PspinAt

\* A handler starts on a packet with the area its context was given.
LEMMA StartsKeeps ==
  ASSUME PspinAssumption, NEW n, NEW o, PspinAt(n, o), NEW h \in Hpus, HandlerStarts(h)
  PROVE  PspinAt(n, o)'
<1>1. PICK m \in hw.pending :
        /\ hw' = [hw EXCEPT !.pending = {}]
        /\ hpu' = [hpu EXCEPT ![h] = [st |-> "start", id |-> (hpu[h].id + 1) % DMA_IDS,
                                      mem |-> m, early |-> FALSE]]
  BY DEF HandlerStarts, PspinAt, Shapes
<1>2. hw.fetch /\ hpu[h].st = "idle" /\ UNCHANGED <<drv, area, proc, page, flag, handled>>
  BY DEF HandlerStarts, hostVars
<1>3. n \in 12 .. 17
  <2>1. hw.fetch # FALSE /\ hw.pending # {}
    BY <1>1, <1>2
  <2>2. n \in 0 .. 22 /\ n \notin 0 .. 3 \cup 17 .. 22 /\ n \notin 4 .. 11
    BY <2>1 DEF PspinAt, At1, NicAt
  <2> QED BY <2>2
<1>4. hw \in Registers /\ hpu \in [Hpus -> Cores]
      /\ page \in [Hpus -> Ids] /\ handled \in [Hpus -> Nat]
  BY DEF PspinAt, Shapes
<1>5. m \in Mems /\ m = area.mem
  BY <1>1, <1>3, <1>4 DEF PspinAt, NicAt, Registers
<1>6. PICK i \in Ids : i = hpu[h].id
  BY <1>4 DEF Cores
<1>7. PICK k \in Ids : k = (i + 1) % DMA_IDS /\ k # i /\ (i = 0 => k = 1)
  BY NextId
<1>8. PICK c \in Cores : c = [st |-> "start", id |-> k, mem |-> m, early |-> FALSE]
  BY <1>5 DEF Cores
<1>9. hpu' = [hpu EXCEPT ![h] = c] /\ c.st = "start" /\ c.id = k /\ c.mem = area.mem
  BY <1>1, <1>5, <1>6, <1>7, <1>8
<1>10. /\ hw' \in Registers /\ hw'.fetch = hw.fetch /\ hw'.rule = hw.rule
       /\ hw'.her_mem = hw.her_mem /\ hw'.stored = hw.stored /\ hw'.pending \subseteq hw.pending
  BY <1>1, <1>4 DEF Registers
<1>11. hpu'[h].st = "start" /\ hpu'[h].id = k
  BY <1>4, <1>9
<1>12. Answers(h) /\ flag[h] = i
  BY <1>2, <1>3, <1>6 DEF PspinAt, FlagsAt, Answers
<1>13. Answers(h)'
  BY <1>2, <1>7, <1>11, <1>12 DEF Answers
<1>14. n \in 12 .. 14 => Before(h)'
  BY <1>2, <1>6, <1>7, <1>11 DEF PspinAt, FlagsAt, Before
<1>15. n = 15 => Polled(o, h)'
  BY <1>2, <1>11 DEF PspinAt, FlagsAt, Polled
<1> QED BY <1>2, <1>3, <1>4, <1>9, <1>10, <1>13, <1>14, <1>15, CoreSteps

\* A handler writes its request into the area and waits.
LEMMA AsksKeeps ==
  ASSUME PspinAssumption, NEW n, NEW o, PspinAt(n, o), NEW h \in Hpus, HandlerAsks(h)
  PROVE  PspinAt(n, o)'
<1>1. /\ hpu[h].st = "start" /\ UNCHANGED <<drv, area, proc, hw, flag>>
      /\ page' = [page EXCEPT ![h] = hpu[h].id] /\ handled' = [handled EXCEPT ![h] = 0]
  BY DEF HandlerAsks, hostVars
<1>2. PICK e \in BOOLEAN : hpu' = [hpu EXCEPT ![h].st = "wait", ![h].early = e]
  BY DEF HandlerAsks
<1>3. n \in 12 .. 17
  BY <1>1 DEF PspinAt, At1, NicAt, Quiet
<1>4. hw \in Registers /\ hpu \in [Hpus -> Cores] /\ flag \in [Hpus -> Ids]
      /\ page \in [Hpus -> Ids] /\ handled \in [Hpus -> Nat]
  BY DEF PspinAt, Shapes
<1>5. PICK b \in Cores : b = hpu[h]
  BY <1>4
<1>6. PICK c : c = [b EXCEPT !.st = "wait", !.early = e]
  OBVIOUS
<1>7. c \in Cores /\ c.st = "wait" /\ c.id = b.id /\ c.mem = b.mem
  BY <1>6 DEF Cores
<1>8. hpu' = [hpu EXCEPT ![h] = c]
  BY <1>2, <1>4, <1>5, <1>6, ZenonT(30)
<1>9. c.mem = area.mem
  BY <1>1, <1>3, <1>5, <1>7 DEF PspinAt, NicAt, Quiet
<1>10. /\ page' \in [Hpus -> Ids] /\ handled' \in [Hpus -> Nat] /\ page'[h] = b.id /\ handled'[h] = 0
       /\ \A g \in Hpus : g # h => page'[g] = page[g] /\ handled'[g] = handled[g]
  BY <1>1, <1>4, <1>5 DEF Cores
<1>11. hpu'[h].st = "wait" /\ hpu'[h].id = b.id
  BY <1>4, <1>7, <1>8
<1>12. flag[h] # b.id
  <2>1. b.id = (flag[h] + 1) % DMA_IDS
    BY <1>1, <1>3, <1>5 DEF PspinAt, FlagsAt, Answers
  <2> QED BY <1>4, <2>1, NextId
<1>13. Answers(h)'
  BY <1>1, <1>10, <1>11, <1>12 DEF Answers
<1>14. n \in 12 .. 14 => Before(h)'
  BY <1>1, <1>5, <1>10, <1>11 DEF PspinAt, FlagsAt, Before
<1>15. n = 15 => Polled(o, h)'
  BY <1>1, <1>5, <1>10, <1>11, <1>12 DEF PspinAt, FlagsAt, Polled
<1> QED BY <1>1, <1>3, <1>4, <1>7, <1>8, <1>9, <1>10, <1>13, <1>14, <1>15, CoreSteps

\* A handler ends when its flag has the identifier it asked with.
LEMMA EndsKeeps ==
  ASSUME PspinAssumption, NEW n, NEW o, PspinAt(n, o), NEW h \in Hpus, HandlerEnds(h)
  PROVE  PspinAt(n, o)'
<1>1. /\ hpu[h].st = "wait" /\ flag[h] = hpu[h].id
      /\ UNCHANGED <<drv, area, proc, hw, flag, page, handled>>
      /\ hpu' = [hpu EXCEPT ![h].st = "idle", ![h].mem = "none"]
  BY DEF HandlerEnds, hostVars
<1>2. n \in 12 .. 17
  BY <1>1 DEF PspinAt, At1, NicAt, Quiet
<1>3. hw \in Registers /\ hpu \in [Hpus -> Cores]
      /\ page \in [Hpus -> Ids] /\ handled \in [Hpus -> Nat]
  BY DEF PspinAt, Shapes
<1>4. PICK b \in Cores : b = hpu[h]
  BY <1>3
<1>5. PICK c : c = [b EXCEPT !.st = "idle", !.mem = "none"]
  OBVIOUS
<1>6. c \in Cores /\ c.st = "idle" /\ c.id = b.id
  BY <1>5 DEF Cores, Mems
<1>7. hpu' = [hpu EXCEPT ![h] = c]
  BY <1>1, <1>3, <1>4, <1>5, ZenonT(30)
<1>8. hpu'[h].st = "idle" /\ hpu'[h].id = b.id
  BY <1>3, <1>6, <1>7
<1>9. Answers(h)'
  BY <1>1, <1>4, <1>8 DEF Answers
<1>10. n \notin 12 .. 14
  BY <1>1 DEF PspinAt, FlagsAt, Before
<1>11. n = 15 => Polled(o, h)'
  BY <1>1, <1>4, <1>8 DEF PspinAt, FlagsAt, Polled
<1>12. /\ hw' \in Registers /\ hw'.fetch = hw.fetch /\ hw'.rule = hw.rule
       /\ hw'.her_mem = hw.her_mem /\ hw'.stored = hw.stored /\ hw'.pending \subseteq hw.pending
       /\ page' \in [Hpus -> Ids] /\ handled' \in [Hpus -> Nat]
       /\ \A g \in Hpus : g # h => page'[g] = page[g] /\ handled'[g] = handled[g]
       /\ UNCHANGED <<drv, area, proc, flag>>
  BY <1>1, <1>3
<1>13. n \in 12 .. 14 => Before(h)'
  BY <1>10
<1> QED BY <1>2, <1>6, <1>7, <1>9, <1>11, <1>12, <1>13, CoreSteps

\* Every step leaves the state of some place.
LEMMA PspinStep ==
  ASSUME PspinAssumption, Orderly, PspinInv, [PspinNext]_pspinVars
  PROVE  PspinInv'
<1>1. PICK n, o : PspinAt(n, o)
  BY DEF PspinInv
<1>2. SUFFICES \E m, q : PspinAt(m, q)'
  BY DEF PspinInv
<1>3. ASSUME NEW f, mqnic_app_pspin_probe(f)
      PROVE  PspinAt(n, o)'
  BY <1>1, <1>3, ProbeKeeps
<1>4. CASE RemoveBegin \/ RemoveEnd
  BY <1>1, <1>4, RemovalKeeps
<1>5. ASSUME NEW r \in Readers, ReadBegin(r) \/ ReadStep(r) \/ ReadSignal(r)
      PROVE  PspinAt(n, o)'
  BY <1>1, <1>5, ReadKeeps
<1>6. ASSUME NEW p \in Procs, Step(p)
      PROVE  \E m, q : PspinAt(m, q)'
  <2>1. CASE fpspin_init(p)
    BY <1>1, <2>1, InitBegins
  <2>2. CASE Query(p) \/ Nm(p)
    BY <1>1, <2>2, WaitsKeep
  <2>3. CASE Fetch(p)
    BY <1>1, <2>3, FetchKeeps
  <2>4. CASE Reset(p)
    BY <1>1, <2>4, ResetKeeps
  <2>5. CASE Section(p)
    BY <1>1, <2>5, SectionKeeps
  <2>6. CASE HerSet(p)
    BY <1>1, <2>6, HerSetKeeps
  <2>7. CASE HerValid(p) \/ MeValid(p)
    BY <1>1, <2>7, ValidKeeps
  <2>8. CASE MeRules(p)
    BY <1>1, <2>8, MeRulesKeeps
  <2>9. CASE Flags(p)
    BY <1>1, <2>9, FlagsKeeps
  <2>10. CASE Unmap(p)
    BY <1>1, <2>10, UnmapEnds
  <2> QED BY <1>6, <2>1, <2>2, <2>3, <2>4, <2>5, <2>6, <2>7, <2>8, <2>9, <2>10 DEF Step
<1>7. ASSUME NEW p \in Procs, NEW h \in Hpus, fpspin_pop_req(p, h) \/ fpspin_push_resp(p, h)
      PROVE  PspinAt(n, o)'
  BY <1>1, <1>7, PopKeeps, PushKeeps
<1>8. ASSUME NEW p \in Procs, fpspin_exit(p)
      PROVE  PspinAt(16, o)'
  BY <1>1, <1>8, ExitKeeps
<1>9. ASSUME NEW p \in Procs, MapFails(p)
      PROVE  PspinAt(n, o)'
  BY <1>1, <1>9, MapFailsKeeps
<1>10. ASSUME NEW p \in Procs, InitFails(p)
       PROVE  PspinAt(22, o)'
  BY <1>1, <1>10, FailureKeeps
<1>11. CASE Packet
  BY <1>1, <1>11, PacketKeeps
<1>12. CASE HandlerPrints \/ UNCHANGED pspinVars
  <2>1. UNCHANGED <<drv, area, proc, hw, page, flag, hpu, handled>>
    BY <1>12 DEF HandlerPrints, hostVars, pspinVars
  <2>2. DrvShape' /\ drv'.pc = drv.pc
    BY <1>1, <2>1 DEF PspinAt, Shapes, DrvShape
  <2> QED BY <1>1, <2>1, <2>2, PspinFrame
<1>13. ASSUME NEW h \in Hpus, Handler(h)
       PROVE  PspinAt(n, o)'
  BY <1>1, <1>13, StartsKeeps, AsksKeeps, EndsKeeps DEF Handler
<1> QED
  BY <1>3, <1>4, <1>5, <1>6, <1>7, <1>8, <1>9, <1>10, <1>11, <1>12, <1>13 DEF PspinNext, Serve

\* The places of the owner are an inductive invariant.
LEMMA PspinInvariance ==
  ASSUME Orderly
  PROVE  PspinSpec => []PspinInv
<1>1. PspinInit => PspinInv
  BY PspinStarts, PspinAssumption DEF PspinInv
<1>2. PspinInv /\ [PspinNext]_pspinVars => PspinInv'
  BY PspinStep, PspinAssumption
<1> QED BY <1>1, <1>2, PTL DEF PspinSpec

\* While a handler runs the host area is mapped, and it is the one the handler
\* was given: fpspin_exit resets the cluster before it unmaps, and no packet
\* reaches a core between that reset and the next load.
THEOREM HandlersStayInside ==
  ASSUME Orderly
  PROVE  PspinSpec => []NoStrayDma
<1>1. PspinInv => NoStrayDma
  <2> SUFFICES ASSUME NEW n, NEW o, PspinAt(n, o), NEW h \in Hpus, hpu[h].st # "idle"
               PROVE  area.enabled /\ area.mem = hpu[h].mem
    BY DEF PspinInv, NoStrayDma
  <2>1. n \in 12 .. 17
    BY DEF PspinAt, At1, NicAt, Quiet
  <2>2. area.enabled = TRUE /\ area.mem = hpu[h].mem
    BY <2>1 DEF PspinAt, At1, NicAt, Quiet
  <2> QED BY <2>2
<1> QED BY <1>1, PspinInvariance, PTL

\* A request is taken at most once, and a handler goes on only after its own
\* request was taken, although numbers are used again after DMA_IDS requests
\* and the host starts to poll while handlers already run.
THEOREM RequestsTakenOnce ==
  ASSUME Orderly
  PROVE  PspinSpec => []AnsweredOnce
<1>1. PspinInv => AnsweredOnce
  <2> SUFFICES ASSUME NEW n, NEW o, PspinAt(n, o), NEW h \in Hpus, hpu[h].st = "wait"
               PROVE  handled[h] \in {0, 1} /\ (flag[h] = hpu[h].id => handled[h] = 1)
    BY DEF PspinInv, AnsweredOnce
  <2>1. n \in 12 .. 17
    BY DEF PspinAt, At1, NicAt, Quiet
  <2> QED BY <2>1 DEF PspinAt, FlagsAt, Answers
<1> QED BY <1>1, PspinInvariance, PTL

---------------------------------------------------------------------------
(* The sender.  slmp_sendmsg returns the truth, for every number of        *)
(* threads, window, length of the message and number of failures.  The     *)
(* threads' credit, the packets that are out and the replies on their way  *)
(* make up the window; first come sums over the threads and the parts of   *)
(* the packets, then the invariant, one lemma per action.                  *)

\* Every packet asks for an acknowledgement.
Acked == 0 \notin WndSizes

\* The sum of a function over the threads.
PartialSums(f, c) ==
  /\ c \in [0..NumThreads -> Int] /\ c[0] = 0
  /\ \A i \in Workers : c[i] = c[i - 1] + f[i]
Sum(f) == (CHOOSE c : PartialSums(f, c))[NumThreads]

\* What a thread has in its window or has read for it, and what all have.
Credit == [w \in Workers |-> actor[w].win + actor[w].got]
Shared == actor[Main].pc = "join"
Held == IF Shared THEN Sum(Credit) ELSE actor[Main].win + actor[Main].got

\* The packets sent so far, and those of them that have not arrived.
IsSent(p) ==
  \/ p = 0
  \/ \E w \in Workers : Part(w).first <= p /\ p < actor[w].pkt
  \/ p = call.len - 1 /\ actor[Main].pc = "final"
Out == {p \in Packets : IsSent(p) /\ p \notin rcvd}
Replies == acks + queued.good + queued.bad

\* Types, while nothing has failed.
SlmpActors == {Main} \union Workers
SlmpPcs == {"syn", "synack", "fork", "join", "next", "off", "reclaim", "send", "final", "end"}
SlmpRec == [pc : SlmpPcs, pkt : Int, win : Int, got : Nat]
SlmpType ==
  /\ call \in [wnd : WndSizes, len : Lengths]
  /\ actor \in [SlmpActors -> SlmpRec]
  /\ exit_flag = FALSE /\ acks \in Nat /\ queued \in [good : Nat, bad : Nat]
  /\ rcvd \subseteq Packets /\ wire \subseteq [pkt : Packets, syn : {TRUE}]

\* Before the threads start there is the first packet or its acknowledgement.
Alone(pc) == actor[Main] = Actor(pc) /\ \A w \in Workers : actor[w] = Actor("off")
Opening ==
  \/ /\ Alone("syn") /\ wire = {} /\ rcvd = {} /\ Replies = 0
  \/ /\ Alone("synack") /\ wire = {[pkt |-> 0, syn |-> TRUE]} /\ rcvd = {} /\ Replies = 0
  \/ /\ Alone("synack") /\ wire = {} /\ rcvd = {} /\ Replies = 0 /\ slmpFaults > 0
  \/ /\ Alone("synack") /\ wire = {} /\ rcvd = {0} /\ Replies <= 1
     /\ slmpFaults = 0 => Replies = 1
  \/ /\ Alone("fork") /\ wire = {} /\ rcvd = {0} /\ Replies = 0

\* A thread in its part of the packets.
InPart(w) ==
  LET r == actor[w] IN
  /\ r.pc \in {"next", "send", "reclaim", "off"}
  /\ Part(w).first <= r.pkt /\ r.pkt <= Part(w).last + 1
  /\ r.pc \in {"send", "reclaim"} => r.pkt <= Part(w).last
  /\ r.pc = "off" => r.pkt = Part(w).last + 1
  /\ r.pc # "reclaim" => r.got = 0
  /\ slmpFaults = 0 => /\ r.win + r.got <= window_thread_limit
                       /\ r.pc = "reclaim" => r.win = 0
\* The caller, waiting for the threads or with the last packet.
AtLast ==
  LET r == actor[Main] IN
  /\ r.pc \in {"join", "reclaim", "send", "final"}
  /\ r.pc # "join" => r.pkt = call.len - 1 /\ \A w \in Workers : actor[w].pc = "off"
  /\ r.pc \in {"reclaim", "send"} => call.len > 1
  /\ r.pc \in {"join", "send"} => r.got = 0
  /\ slmpFaults = 0 /\ r.pc = "reclaim" => r.win = 0
\* Credit, packets that are out and replies make up the window; what was lost is
\* missing.
Balance ==
  /\ 0 \in rcvd /\ \A p \in rcvd : IsSent(p)
  /\ \A m \in wire : m.pkt \in Out
  /\ Held + Cardinality(Out) + Replies <= window_total
  /\ slmpFaults = 0 => /\ Held + Cardinality(Out) + Replies = window_total
                       /\ \A p \in Out : [pkt |-> p, syn |-> TRUE] \in wire

Sending == AtLast /\ Balance /\ \A w \in Workers : InPart(w)
AllDone == SlmpDone /\ rcvd = Packets /\ \A w \in Workers : actor[w].pc = "off"

\* While the result is 0 all of this is so; otherwise something went wrong.
SlmpGood ==
  /\ SlmpType /\ (slmpFaults = 0 => queued.bad = 0)
  /\ Opening \/ Sending \/ AllDone
SlmpInv ==
  /\ slmpFaults \in Nat
  /\ IF result = 0 THEN SlmpGood ELSE slmpFaults > 0

\* Partial sums exist.
LEMMA RunningExists ==
  ASSUME NEW f \in [Workers -> Int]
  PROVE  \E c : PartialSums(f, c)
<1> DEFINE Up(n) == \E c \in [0..n -> Int] : c[0] = 0 /\ \A i \in 1..n : c[i] = c[i - 1] + f[i]
           Bad == {n \in 0..NumThreads : ~Up(n)}
<1>1. NumThreads \in Nat \ {0}
  BY SlmpAssumption
<1>2. CASE Bad = {}
  <2>1. Up(NumThreads)
    BY <1>1, <1>2
  <2> QED BY <2>1 DEF PartialSums, Workers
<1>3. CASE Bad # {}
  <2>1. PICK n \in Bad : \A k \in Bad : n <= k
    <3>1. Bad \in SUBSET Nat
      BY <1>1
    <3> QED BY <1>3, <3>1, LeastExists
  <2>2. n \in 0..NumThreads /\ ~Up(n)
    BY <2>1
  <2>3. n # 0
    <3>1. [i \in 0..0 |-> 0] \in [0..0 -> Int] /\ [i \in 0..0 |-> 0][0] = 0 /\ 1..0 = {}
      OBVIOUS
    <3>2. Up(0)
      BY <3>1
    <3> QED BY <2>2, <3>2
  <2>4. n - 1 \in 0..NumThreads /\ n - 1 \notin Bad
    <3>1. n - 1 \in 0..NumThreads /\ n \in Nat /\ ~(n <= n - 1)
      BY <1>1, <2>2, <2>3
    <3> HIDE DEF Bad
    <3> QED BY <2>1, <3>1
  <2>5. PICK c \in [0..n-1 -> Int] : c[0] = 0 /\ \A i \in 1..n-1 : c[i] = c[i - 1] + f[i]
    BY <2>4
  <2> DEFINE d == [i \in 0..n |-> IF i = n THEN c[n - 1] + f[n] ELSE c[i]]
  <2>6. n \in Workers /\ f[n] \in Int /\ c[n - 1] \in Int
    BY <1>1, <2>2, <2>3, <2>5 DEF Workers
  <2>7. d \in [0..n -> Int]
    <3>1. ASSUME NEW i \in 0..n
          PROVE  (IF i = n THEN c[n - 1] + f[n] ELSE c[i]) \in Int
      BY <1>1, <2>2, <2>5, <2>6
    <3> QED BY <3>1
  <2>8. d[0] = 0
    BY <1>1, <2>2, <2>3, <2>5
  <2>9. ASSUME NEW i \in 1..n PROVE d[i] = d[i - 1] + f[i]
    BY <1>1, <2>2, <2>3, <2>5
  <2> HIDE DEF d
  <2>10. Up(n)
    BY <2>7, <2>8, <2>9
  <2> QED BY <2>2, <2>10
<1> QED BY <1>2, <1>3

\* Partial sums of the lesser function are less; so they are unique.
LEMMA RunningLess ==
  ASSUME NEW f \in [Workers -> Int], NEW g \in [Workers -> Int], NEW c, NEW d,
         PartialSums(f, c), PartialSums(g, d), \A w \in Workers : f[w] <= g[w]
  PROVE  \A i \in 0..NumThreads : c[i] <= d[i]
<1> DEFINE Bad == {i \in 0..NumThreads : ~(c[i] <= d[i])}
<1>1. NumThreads \in Nat \ {0}
  BY SlmpAssumption
<1>2. CASE Bad = {}
  BY <1>2
<1>3. CASE Bad # {}
  <2>1. PICK n \in Bad : \A k \in Bad : n <= k
    <3>1. Bad \in SUBSET Nat
      BY <1>1
    <3> QED BY <1>3, <3>1, LeastExists
  <2>2. n \in 0..NumThreads /\ n # 0
    BY <2>1 DEF PartialSums
  <2>3. n - 1 \in 0..NumThreads /\ n - 1 \notin Bad /\ n \in Workers
    BY <1>1, <2>1, <2>2 DEF Workers
  <2>4. c[n - 1] <= d[n - 1] /\ c[n - 1] \in Int /\ d[n - 1] \in Int
    BY <2>3 DEF PartialSums
  <2>5. c[n] = c[n - 1] + f[n] /\ d[n] = d[n - 1] + g[n] /\ f[n] \in Int /\ g[n] \in Int /\ f[n] <= g[n]
    BY <2>3 DEF PartialSums
  <2>6. c[n] <= d[n]
    BY <2>4, <2>5
  <2> QED BY <2>1, <2>6
<1> QED BY <1>2, <1>3

\* The sum is the last of any partial sums.
LEMMA SumIs ==
  ASSUME NEW f \in [Workers -> Int], NEW c, PartialSums(f, c)
  PROVE  Sum(f) = c[NumThreads] /\ Sum(f) \in Int
<1> DEFINE d == CHOOSE k : PartialSums(f, k)
<1>1. PartialSums(f, d)
  OBVIOUS
<1>2. Sum(f) = d[NumThreads]
  BY DEF Sum
<1> HIDE DEF d
<1>3. NumThreads \in 0..NumThreads
  BY SlmpAssumption
<1>4. \A w \in Workers : f[w] <= f[w]
  OBVIOUS
<1>5. c[NumThreads] <= d[NumThreads] /\ d[NumThreads] <= c[NumThreads]
  BY <1>1, <1>3, <1>4, RunningLess
<1>6. c[NumThreads] \in Int /\ d[NumThreads] \in Int
  BY <1>1, <1>3 DEF PartialSums
<1> QED BY <1>2, <1>5, <1>6

\* Sums are integers.
LEMMA SumInt ==
  ASSUME NEW f \in [Workers -> Int]
  PROVE  Sum(f) \in Int
BY RunningExists, SumIs

\* A smaller function has a smaller sum.
LEMMA SumLess ==
  ASSUME NEW f \in [Workers -> Int], NEW g \in [Workers -> Int], \A w \in Workers : f[w] <= g[w]
  PROVE  Sum(f) <= Sum(g)
<1>1. PICK c : PartialSums(f, c)
  BY RunningExists
<1>2. PICK d : PartialSums(g, d)
  BY RunningExists
<1>3. NumThreads \in 0..NumThreads
  BY SlmpAssumption
<1>4. c[NumThreads] <= d[NumThreads]
  BY <1>1, <1>2, <1>3, RunningLess
<1> QED BY <1>1, <1>2, <1>4, SumIs

\* A change of one term changes the sum by as much.
LEMMA SumStep ==
  ASSUME NEW f \in [Workers -> Int], NEW g \in [Workers -> Int], NEW w \in Workers,
         \A v \in Workers \ {w} : g[v] = f[v]
  PROVE  Sum(g) = Sum(f) + g[w] - f[w]
<1>1. PICK c : PartialSums(f, c)
  BY RunningExists
<1> DEFINE by == g[w] - f[w]
           d == [i \in 0..NumThreads |-> c[i] + (IF w <= i THEN by ELSE 0)]
<1>2. NumThreads \in Nat \ {0} /\ w \in 1..NumThreads /\ by \in Int
  BY SlmpAssumption DEF Workers
<1>3. c \in [0..NumThreads -> Int] /\ c[0] = 0 /\ \A i \in Workers : c[i] = c[i - 1] + f[i]
  BY <1>1 DEF PartialSums
<1>4. \A i \in 0..NumThreads : d[i] = c[i] + (IF w <= i THEN by ELSE 0) /\ d[i] \in Int
  BY <1>2, <1>3
<1>5. d \in [0..NumThreads -> Int] /\ d[0] = 0
  <2>1. d \in [0..NumThreads -> Int]
    BY <1>4
  <2>2. 0 \in 0..NumThreads /\ ~(w <= 0)
    BY <1>2
  <2> QED BY <1>3, <1>4, <2>1, <2>2
<1>6. ASSUME NEW i \in Workers PROVE d[i] = d[i - 1] + g[i]
  <2>1. i \in 0..NumThreads /\ i - 1 \in 0..NumThreads /\ i \in Nat
    BY <1>2 DEF Workers
  <2>2. d[i] = c[i] + (IF w <= i THEN by ELSE 0) /\ d[i - 1] = c[i - 1] + (IF w <= i - 1 THEN by ELSE 0)
    BY <1>4, <2>1
  <2>3. c[i] = c[i - 1] + f[i] /\ c[i - 1] \in Int /\ f[i] \in Int /\ g[i] \in Int
    BY <1>3, <2>1
  <2>4. i # w => g[i] = f[i]
    OBVIOUS
  <2>5. i = w => g[i] = f[i] + by /\ by \in Int
    BY <1>2, <2>3
  <2> HIDE DEF by, d
  <2> QED BY <1>2, <2>1, <2>2, <2>3, <2>4, <2>5
<1>7. d[NumThreads] = c[NumThreads] + by
  BY <1>2, <1>4
<1>8. PartialSums(g, d)
  BY <1>5, <1>6 DEF PartialSums
<1>9. Sum(g) = d[NumThreads] /\ Sum(f) = c[NumThreads] /\ Sum(f) \in Int
  BY <1>1, <1>8, SumIs
<1> QED BY <1>2, <1>7, <1>9

\* The sum of equal terms.
LEMMA SumConst ==
  ASSUME NEW k \in Int
  PROVE  Sum([w \in Workers |-> k]) = k * NumThreads
<1> DEFINE f == [w \in Workers |-> k]
           c == [i \in 0..NumThreads |-> k * i]
<1>1. NumThreads \in Nat \ {0}
  BY SlmpAssumption
<1>2. f \in [Workers -> Int]
  OBVIOUS
<1>3. c \in [0..NumThreads -> Int] /\ c[0] = 0
  BY <1>1
<1>4. ASSUME NEW i \in Workers PROVE c[i] = c[i - 1] + f[i]
  <2>1. i \in Nat /\ i \in 0..NumThreads /\ i - 1 \in 0..NumThreads
    BY <1>1 DEF Workers
  <2>2. c[i] = k * i /\ c[i - 1] = k * (i - 1) /\ f[i] = k
    BY <2>1
  <2>3. k * i = k * (i - 1) + k
    BY <2>1
  <2> QED BY <2>2, <2>3
<1>5. PartialSums(f, c)
  BY <1>3, <1>4 DEF PartialSums
<1>6. c[NumThreads] = k * NumThreads
  BY <1>1
<1> QED BY <1>2, <1>5, <1>6, SumIs

\* The sum of nothing.
LEMMA SumZero == Sum([w \in Workers |-> 0]) = 0
<1> DEFINE z == 0
<1>1. z \in Int /\ z * NumThreads = 0
  BY SlmpAssumption
<1> HIDE DEF z
<1>2. Sum([w \in Workers |-> z]) = 0
  BY <1>1, SumConst
<1> QED BY <1>2 DEF z

\* With one term 0 and the others at most k the sum is k short of all at k.
LEMMA SumShort ==
  ASSUME NEW f \in [Workers -> Int], NEW k \in Nat, NEW v \in Workers, f[v] <= 0,
         \A w \in Workers : f[w] <= k
  PROVE  Sum(f) <= k * NumThreads - k
<1> DEFINE a == [w \in Workers |-> k]
           b == [w \in Workers |-> IF w = v THEN 0 ELSE k]
<1>1. a \in [Workers -> Int] /\ b \in [Workers -> Int] /\ a[v] = k /\ b[v] = 0
  OBVIOUS
<1>2. \A w \in Workers \ {v} : b[w] = a[w]
  OBVIOUS
<1>3. \A w \in Workers : f[w] <= b[w]
  OBVIOUS
<1>4. Sum(a) = k * NumThreads /\ k * NumThreads \in Int
  BY SumConst, SlmpAssumption
<1> HIDE DEF a, b
<1>5. Sum(b) = Sum(a) + b[v] - a[v]
  BY <1>1, <1>2, SumStep
<1>6. Sum(f) <= Sum(b)
  BY <1>1, <1>3, SumLess
<1>7. Sum(f) \in Int /\ Sum(b) \in Int
  BY <1>1, SumInt
<1> QED BY <1>1, <1>4, <1>5, <1>6, <1>7

\* What Join computes is this sum.
LEMMA FoldIsSum ==
  ASSUME NEW f \in [Workers -> Int], \A w \in Workers : actor[w].win = f[w]
  PROVE  MapThenSumSet(LAMBDA w : actor[w].win, Workers) = Sum(f)
<1> DEFINE Pick(s) == CHOOSE x \in s : TRUE
           Some(s) == [w \in Workers |-> IF w \in s THEN f[w] ELSE 0]
           H == [s \in SUBSET Workers |-> Sum(Some(s))]
           Rec(h) == h = [s \in SUBSET Workers |->
                            IF s = {} THEN 0 ELSE actor[Pick(s)].win + h[s \ {Pick(s)}]]
           iter == CHOOSE h : Rec(h)
<1>1. MapThenSumSet(LAMBDA w : actor[w].win, Workers) = iter[Workers]
  BY Zenon DEF MapThenSumSet, MapThenFoldSet
<1>2. \A s \in SUBSET Workers : s # {} => Pick(s) \in s
  OBVIOUS
<1> HIDE DEF Pick
<1>3. \A s \in SUBSET Workers : Some(s) \in [Workers -> Int]
  OBVIOUS
<1>4. Sum(Some({})) = 0
  <2>1. Some({}) = [w \in Workers |-> 0]
    OBVIOUS
  <2> QED BY <2>1, SumZero
<1>5. ASSUME NEW s \in SUBSET Workers, s # {}
      PROVE  Sum(Some(s)) = actor[Pick(s)].win + Sum(Some(s \ {Pick(s)}))
  <2> DEFINE x == Pick(s)  a == Some(s)  b == Some(s \ {x})
  <2>1. x \in s /\ x \in Workers
    BY <1>2, <1>5
  <2> HIDE DEF x
  <2>2. a \in [Workers -> Int] /\ b \in [Workers -> Int]
    BY <1>3
  <2>3. a[x] = f[x] /\ b[x] = 0 /\ \A v \in Workers \ {x} : a[v] = b[v]
    BY <2>1
  <2> HIDE DEF a, b
  <2>4. Sum(a) = Sum(b) + a[x] - b[x]
    BY <2>1, <2>2, <2>3, SumStep
  <2>5. Sum(a) = actor[x].win + Sum(b)
    BY <2>1, <2>2, <2>3, <2>4, SumInt
  <2> QED BY <2>5 DEF a, b, x
<1> HIDE DEF Some
<1>6. Rec(H)
  <2>1. ASSUME NEW s \in SUBSET Workers
        PROVE  H[s] = IF s = {} THEN 0 ELSE actor[Pick(s)].win + H[s \ {Pick(s)}]
    <3>1. s \ {Pick(s)} \in SUBSET Workers /\ H[s] = Sum(Some(s))
          /\ H[s \ {Pick(s)}] = Sum(Some(s \ {Pick(s)}))
      OBVIOUS
    <3> QED BY <1>4, <1>5, <3>1
  <2> QED BY <2>1, Zenon
<1>7. Rec(iter)
  BY <1>6, Zenon
<1>8. \A s \in SUBSET Workers : iter[s] = IF s = {} THEN 0 ELSE actor[Pick(s)].win + iter[s \ {Pick(s)}]
  BY <1>7, Zenon
<1> HIDE DEF iter
<1>9. \A s \in SUBSET Workers : IsFiniteSet(s) /\ Cardinality(s) \in Nat
  <2>1. IsFiniteSet(Workers)
    BY SlmpAssumption, FS_Interval DEF Workers
  <2> QED BY <2>1, FS_Subset, FS_CardinalityType
<1> DEFINE Wrong == {s \in SUBSET Workers : iter[s] # Sum(Some(s))}
           Sizes == {Cardinality(s) : s \in Wrong}
<1>10. CASE Wrong = {}
  <2>1. iter[Workers] = Sum(Some(Workers))
    BY <1>10
  <2>2. Some(Workers) = f
    BY DEF Some
  <2> QED BY <1>1, <2>1, <2>2
<1>11. CASE Wrong # {}
  <2>1. PICK n \in Sizes : \A k \in Sizes : n <= k
    <3>1. Sizes \in SUBSET Nat /\ Sizes # {}
      BY <1>9, <1>11
    <3> QED BY <3>1, LeastExists
  <2>2. PICK s \in Wrong : n = Cardinality(s)
    BY <2>1
  <2>3. s \in SUBSET Workers /\ iter[s] # Sum(Some(s))
    BY <2>2
  <2>4. s # {}
    BY <1>4, <1>8, <2>3
  <2> DEFINE r == s \ {Pick(s)}
  <2>5. r \in SUBSET Workers /\ Pick(s) \in s
    BY <1>2, <2>3, <2>4
  <2>6. Cardinality(r) = Cardinality(s) - 1
    BY <1>9, <2>3, <2>5, FS_RemoveElement
  <2>7. r \notin Wrong
    <3>1. Cardinality(r) < n /\ Cardinality(r) \in Nat /\ n \in Nat
      BY <1>9, <2>2, <2>3, <2>5, <2>6
    <3> HIDE DEF r, Wrong
    <3>2. r \in Wrong => n <= Cardinality(r)
      BY <2>1
    <3> QED BY <3>1, <3>2
  <2>8. iter[r] = Sum(Some(r))
    BY <2>5, <2>7
  <2> QED BY <1>5, <1>8, <2>3, <2>4, <2>8
<1> QED BY <1>10, <1>11

\* The threads share the window evenly, and have all of it between them.
LEMMA Windows ==
  ASSUME Acked, call \in [wnd : WndSizes, len : Lengths]
  PROVE  /\ window_thread_limit \in Nat \ {0} /\ window_total \in Nat \ {0}
         /\ window_total = window_thread_limit * NumThreads
         /\ ack_for_all /\ call.len \in Nat \ {0} /\ NumThreads \in Nat \ {0}
<1>1. call.wnd \in Nat \ {0} /\ call.len \in Nat \ {0} /\ NumThreads \in Nat \ {0}
  BY SlmpAssumption DEF Acked
<1>2. \A a \in Nat \ {0}, n \in Nat \ {0} : (a + n - 1) \div n \in Nat \ {0}
  OBVIOUS
<1>3. window_thread_limit \in Nat \ {0}
  BY <1>1, <1>2 DEF window_thread_limit
<1>4. \A a, n \in Nat \ {0} : a * n \in Nat \ {0}
  OBVIOUS
<1> QED BY <1>1, <1>3, <1>4 DEF window_total, ack_for_all

\* The parts of the packets are consecutive and end with the last but one.
LEMMA Cuts ==
  ASSUME call.len \in Nat \ {0}
  PROVE  \E C \in [0..NumThreads -> Nat] :
           /\ C[0] = 0 /\ C[NumThreads] = Middle
           /\ \A w \in Workers : Part(w) = [first |-> 1 + C[w - 1], last |-> C[w]]
           /\ \A i, j \in 0..NumThreads : i <= j => C[i] <= C[j]
<1> DEFINE M == Middle  q == M \div NumThreads  r == M % NumThreads
           C == [i \in 0..NumThreads |-> i * q + (IF i <= r THEN i ELSE r)]
<1>1. NumThreads \in Nat \ {0} /\ M \in Nat
  BY SlmpAssumption DEF Middle
<1>2. q \in Nat /\ r \in Nat /\ r < NumThreads /\ M = NumThreads * q + r
  <2> HIDE DEF M
  <2> QED BY <1>1
<1>3. \A w \in Workers : Part(w) = [first |-> 1 + ((w - 1) * q + Min({w - 1, r})),
                                   last |-> ((w - 1) * q + Min({w - 1, r})) + q + (IF w <= r THEN 1 ELSE 0)]
  BY DEF Part
<1>4. \A a, b \in Int : Min({a, b}) = IF a <= b THEN a ELSE b
  BY DEF Min
<1> HIDE DEF M, q, r
<1>5. \A a, b \in Nat : a * b \in Nat /\ (a + 1) * b = a * b + b
  OBVIOUS
<1>6. \A i \in 0..NumThreads : C[i] = i * q + (IF i <= r THEN i ELSE r) /\ i * q \in Nat /\ C[i] \in Nat
  BY <1>1, <1>2, <1>5
<1>7. ASSUME NEW w \in Workers
      PROVE  Part(w) = [first |-> 1 + C[w - 1], last |-> C[w]]
  <2>1. w - 1 \in Nat /\ w \in 0..NumThreads /\ w - 1 \in 0..NumThreads /\ w \in Nat /\ w = (w - 1) + 1
    BY <1>1 DEF Workers
  <2>2. w * q = (w - 1) * q + q /\ (w - 1) * q \in Nat
    BY <1>2, <1>5, <2>1
  <2>3. Min({w - 1, r}) = IF w - 1 <= r THEN w - 1 ELSE r
    BY <1>2, <1>4, <2>1
  <2>4. C[w - 1] = (w - 1) * q + Min({w - 1, r})
    BY <1>6, <2>1, <2>3
  <2>5. C[w] = ((w - 1) * q + Min({w - 1, r})) + q + (IF w <= r THEN 1 ELSE 0)
    <3>1. C[w] = (w - 1) * q + q + (IF w <= r THEN w ELSE r)
      BY <1>6, <2>1, <2>2
    <3> HIDE DEF C
    <3> QED BY <1>2, <2>1, <2>2, <2>3, <3>1
  <2> QED BY <1>3, <2>4, <2>5
<1>8. ASSUME NEW i \in 0..NumThreads, NEW j \in 0..NumThreads, i <= j
      PROVE  C[i] <= C[j]
  <2>1. i \in Nat /\ j \in Nat
    BY <1>1
  <2>2. i * q <= j * q /\ i * q \in Nat /\ j * q \in Nat
    <3>1. \A a, b, c \in Nat : a <= b => a * c <= b * c
      OBVIOUS
    <3> QED BY <1>2, <1>5, <1>8, <2>1, <3>1
  <2>3. C[i] = i * q + (IF i <= r THEN i ELSE r) /\ C[j] = j * q + (IF j <= r THEN j ELSE r)
    BY <1>6
  <2> HIDE DEF C
  <2> QED BY <1>2, <1>8, <2>1, <2>2, <2>3
<1>9. C \in [0..NumThreads -> Nat]
  BY <1>6
<1>10. C[0] = 0
  <2>1. 0 \in 0..NumThreads /\ 0 * q = 0 /\ 0 <= r
    BY <1>1, <1>2
  <2> QED BY <1>6, <2>1
<1>11. C[NumThreads] = Middle
  <2>1. NumThreads \in 0..NumThreads /\ ~(NumThreads <= r)
    BY <1>1, <1>2
  <2>2. C[NumThreads] = NumThreads * q + r
    BY <1>6, <2>1
  <2> QED BY <1>2, <2>2 DEF M
<1> HIDE DEF C
<1> QED BY <1>7, <1>8, <1>9, <1>10, <1>11

\* A part lies between the first and the last packet.
LEMMA PartBounds ==
  ASSUME call.len \in Nat \ {0}, NEW w \in Workers
  PROVE  /\ Part(w).first \in Nat \ {0} /\ Part(w).last \in Nat
         /\ Part(w).first <= Part(w).last + 1 /\ Part(w).last <= Middle
         /\ Middle \in Nat /\ Middle <= call.len - 1 /\ (call.len > 1 => Middle = call.len - 2)
<1>1. PICK C \in [0..NumThreads -> Nat] :
           /\ C[0] = 0 /\ C[NumThreads] = Middle
           /\ \A u \in Workers : Part(u) = [first |-> 1 + C[u - 1], last |-> C[u]]
           /\ \A i, j \in 0..NumThreads : i <= j => C[i] <= C[j]
  BY Cuts
<1>2. NumThreads \in Nat /\ w \in 0..NumThreads /\ w - 1 \in 0..NumThreads /\ w - 1 <= w /\ w <= NumThreads
      /\ NumThreads \in 0..NumThreads
  BY SlmpAssumption DEF Workers
<1>3. C[w - 1] <= C[w] /\ C[w] <= C[NumThreads] /\ C[w - 1] \in Nat /\ C[w] \in Nat
  BY <1>1, <1>2
<1>4. Part(w).first = 1 + C[w - 1] /\ Part(w).last = C[w]
  BY <1>1
<1>5. Middle \in Nat /\ Middle <= call.len - 1 /\ (call.len > 1 => Middle = call.len - 2)
  BY DEF Middle
<1> QED BY <1>1, <1>3, <1>4, <1>5

\* No packet is in two parts.
LEMMA PartsApart ==
  ASSUME call.len \in Nat \ {0}, NEW w \in Workers, NEW v \in Workers, w < v
  PROVE  Part(w).last < Part(v).first
<1>1. PICK C \in [0..NumThreads -> Nat] :
           /\ \A u \in Workers : Part(u) = [first |-> 1 + C[u - 1], last |-> C[u]]
           /\ \A i, j \in 0..NumThreads : i <= j => C[i] <= C[j]
  BY Cuts
<1>2. NumThreads \in Nat /\ w \in 0..NumThreads /\ v - 1 \in 0..NumThreads /\ w <= v - 1
  BY SlmpAssumption DEF Workers
<1>3. C[w] <= C[v - 1] /\ C[w] \in Nat /\ C[v - 1] \in Nat
  BY <1>1, <1>2
<1>4. Part(v).first = 1 + C[v - 1] /\ Part(w).last = C[w]
  BY <1>1
<1> QED BY <1>3, <1>4

\* Every packet between the first and the last is in a part.
LEMMA PartsCover ==
  ASSUME call.len \in Nat \ {0}, NEW p \in 1..Middle
  PROVE  \E w \in Workers : Part(w).first <= p /\ p <= Part(w).last
<1>1. PICK C \in [0..NumThreads -> Nat] :
           /\ C[0] = 0 /\ C[NumThreads] = Middle
           /\ \A u \in Workers : Part(u) = [first |-> 1 + C[u - 1], last |-> C[u]]
  BY Cuts
<1> DEFINE T == {i \in 0..NumThreads : p <= C[i]}
<1>2. NumThreads \in Nat /\ Middle \in Nat /\ p \in Nat \ {0} /\ p <= Middle
  BY SlmpAssumption DEF Middle
<1>3. T \in SUBSET Nat /\ NumThreads \in T
  BY <1>1, <1>2
<1>4. PICK w \in T : \A k \in T : w <= k
  BY <1>3, LeastExists
<1>5. w \in 0..NumThreads /\ p <= C[w]
  BY <1>4
<1>6. w # 0
  BY <1>1, <1>2, <1>5
<1>7. w \in Workers /\ w - 1 \in 0..NumThreads /\ ~(w <= w - 1)
  BY <1>2, <1>5, <1>6 DEF Workers
<1>8. w - 1 \notin T
  <2> HIDE DEF T
  <2> QED BY <1>4, <1>7
<1>9. ~(p <= C[w - 1]) /\ C[w - 1] \in Nat /\ C[w] \in Nat
  BY <1>1, <1>5, <1>7, <1>8
<1>10. Part(w).first = 1 + C[w - 1] /\ Part(w).last = C[w]
  BY <1>1, <1>7
<1>11. Part(w).first <= p /\ p <= Part(w).last
  BY <1>2, <1>5, <1>9, <1>10
<1> QED BY <1>7, <1>11

\* The windows are integers.
LEMMA WindowInt ==
  ASSUME SlmpType
  PROVE  window_total \in Int /\ window_thread_limit \in Int
<1>1. call.wnd \in Int /\ NumThreads \in Nat \ {0}
  <2>1. call.wnd \in WndSizes
    BY DEF SlmpType
  <2>2. call.wnd \in Nat
    BY <2>1, SlmpAssumption
  <2> QED BY <2>2, SlmpAssumption
<1>2. \A a \in Int, n \in Nat \ {0} : (a + n - 1) \div n \in Int
  OBVIOUS
<1>3. window_thread_limit \in Int
  BY <1>1, <1>2 DEF window_thread_limit
<1> QED BY <1>1, <1>3 DEF window_total

\* The step of one actor.
LEMMA OneActor ==
  ASSUME SlmpType, NEW a \in SlmpActors, NEW r \in SlmpRec, Become(a, r)
  PROVE  /\ actor' \in [SlmpActors -> SlmpRec] /\ actor'[a] = r
         /\ \A b \in SlmpActors \ {a} : actor'[b] = actor[b]
BY DEF SlmpType, Become

\* The caller is not one of the threads.
LEMMA ActorsAre ==
  /\ Main \in SlmpActors /\ Main \notin Workers
  /\ \A w \in Workers : w \in SlmpActors /\ w # Main
  /\ \A a \in SlmpActors : a # Main => a \in Workers
BY SlmpAssumption DEF SlmpActors, Main, Workers

\* Credit is counted in integers, replies in naturals.
LEMMA CreditIs ==
  ASSUME SlmpType
  PROVE  Credit \in [Workers -> Int] /\ Held \in Int /\ Replies \in Nat
<1>1. \A a \in SlmpActors : actor[a].win \in Int /\ actor[a].got \in Int
  BY DEF SlmpType, SlmpRec
<1>2. Credit \in [Workers -> Int]
  BY <1>1, ActorsAre DEF Credit
<1>3. Sum(Credit) \in Int
  BY <1>2, SumInt
<1>4. Held \in Int
  BY <1>1, <1>3, ActorsAre DEF Held
<1>5. Replies \in Nat
  BY DEF SlmpType, Replies
<1> QED BY <1>2, <1>4, <1>5

\* What an actor gains is gained by all.
LEMMA HeldMoves ==
  ASSUME SlmpType, SlmpType', NEW a \in SlmpActors, NEW r \in SlmpRec, Become(a, r),
         IF a = Main THEN ~Shared /\ r.pc # "join" ELSE Shared
  PROVE  Held' = Held + (r.win + r.got) - (actor[a].win + actor[a].got)
<1>1. /\ actor' \in [SlmpActors -> SlmpRec] /\ actor'[a] = r
      /\ \A b \in SlmpActors \ {a} : actor'[b] = actor[b]
  BY OneActor
<1>2. CASE a = Main
  <2>1. ~Shared /\ ~Shared'
    BY <1>1, <1>2 DEF Shared
  <2>2. Held = actor[Main].win + actor[Main].got /\ Held' = r.win + r.got
    BY <1>1, <1>2, <2>1 DEF Held
  <2>3. actor[Main].win \in Int /\ actor[Main].got \in Int /\ r.win \in Int /\ r.got \in Int
    BY ActorsAre DEF SlmpType, SlmpRec
  <2> QED BY <1>2, <2>2, <2>3
<1>3. CASE a # Main
  <2>1. a \in Workers /\ actor'[Main] = actor[Main]
    BY <1>1, <1>3, ActorsAre
  <2>2. Shared /\ Shared'
    BY <1>3, <2>1 DEF Shared
  <2>3. Held = Sum(Credit) /\ Held' = Sum(Credit')
    BY <2>2 DEF Held
  <2>4. Credit \in [Workers -> Int] /\ Credit' \in [Workers -> Int]
    <3>1. Credit' \in [Workers -> Int]
      <4>1. \A w \in Workers : actor'[w].win \in Int /\ actor'[w].got \in Int
        BY <1>1, ActorsAre DEF SlmpRec
      <4>2. Credit' = [w \in Workers |-> actor'[w].win + actor'[w].got]
        BY DEF Credit, Workers
      <4> QED BY <4>1, <4>2
    <3> QED BY <3>1, CreditIs
  <2>5. Credit[a] = actor[a].win + actor[a].got /\ Credit'[a] = r.win + r.got
    BY <1>1, <2>1 DEF Credit, Workers
  <2>6. \A v \in Workers \ {a} : Credit'[v] = Credit[v]
    BY <1>1, ActorsAre DEF Credit, Workers
  <2>7. Sum(Credit') = Sum(Credit) + Credit'[a] - Credit[a]
    BY <2>1, <2>4, <2>6, SumStep
  <2> QED BY <2>3, <2>5, <2>7
<1> QED BY <1>2, <1>3

\* The packets that are out are finitely many.
LEMMA OutFinite ==
  ASSUME SlmpType
  PROVE  Packets \subseteq Int /\ IsFiniteSet(Out) /\ Cardinality(Out) \in Nat
<1>1. call.len \in Nat
  BY SlmpAssumption DEF SlmpType
<1>2. IsFiniteSet(Packets) /\ Packets \subseteq Int
  BY <1>1, FS_Interval DEF Packets
<1>3. Out \subseteq Packets
  BY DEF Out
<1> QED BY <1>2, <1>3, FS_Subset, FS_CardinalityType

\* A step that moves only credit and replies keeps the balance.
LEMMA BalanceMoves ==
  ASSUME SlmpType, SlmpType', Balance, slmpFaults \in Nat, slmpFaults' \in Nat,
         slmpFaults <= slmpFaults', UNCHANGED <<call, wire, rcvd>>,
         \A p \in Packets : IsSent(p)' <=> IsSent(p), NEW x \in Int, NEW y \in Int,
         Held' = Held + x, Replies' = Replies + y, x + y <= 0, slmpFaults' = 0 => x + y = 0
  PROVE  Balance'
<1>1. Packets' = Packets
  BY DEF Packets
<1>2. Out' = Out
  BY <1>1 DEF Out
<1>3. Cardinality(Out) \in Nat /\ Held \in Int /\ Replies \in Nat
  BY OutFinite, CreditIs
<1>5. window_total' = window_total
  BY DEF window_total, window_thread_limit
<1>6. window_total \in Int
  BY WindowInt
<1>7. slmpFaults' = 0 => slmpFaults = 0
  OBVIOUS
<1>8. 0 \in rcvd' /\ \A p \in rcvd' : IsSent(p)'
  BY DEF Balance, SlmpType
<1>9. \A m \in wire' : m.pkt \in Out'
  BY <1>2 DEF Balance
<1>10. slmpFaults' = 0 => \A p \in Out' : [pkt |-> p, syn |-> TRUE] \in wire'
  BY <1>2, <1>7 DEF Balance
<1>11. Held' + Cardinality(Out') + Replies' <= window_total'
  <2>1. Held + Cardinality(Out) + Replies <= window_total
    BY DEF Balance
  <2>2. Cardinality(Out') = Cardinality(Out)
    BY <1>2
  <2> QED BY <1>3, <1>5, <1>6, <2>1, <2>2
<1>12. slmpFaults' = 0 => Held' + Cardinality(Out') + Replies' = window_total'
  <2> SUFFICES ASSUME slmpFaults' = 0
               PROVE  Held' + Cardinality(Out') + Replies' = window_total'
    OBVIOUS
  <2>1. Held + Cardinality(Out) + Replies = window_total /\ x + y = 0
    BY <1>7 DEF Balance
  <2>2. Cardinality(Out') = Cardinality(Out)
    BY <1>2
  <2> QED BY <1>3, <1>5, <1>6, <2>1, <2>2
<1> QED BY <1>8, <1>9, <1>10, <1>11, <1>12 DEF Balance

\* A packet is sent at the cost of one credit.
LEMMA BalanceSends ==
  ASSUME SlmpType, SlmpType', Balance, slmpFaults \in Nat,
         UNCHANGED <<call, rcvd, acks, queued, slmpFaults>>, NEW p \in Packets, ~IsSent(p),
         \A k \in Packets : IsSent(k)' <=> IsSent(k) \/ k = p,
         wire' = wire \union {[pkt |-> p, syn |-> TRUE]}, Held' = Held - 1
  PROVE  Balance'
<1>1. Packets' = Packets /\ Replies' = Replies
  BY DEF Packets, Replies
<1>2. p \notin rcvd /\ 0 \in rcvd /\ rcvd \subseteq Packets
  BY DEF Balance, SlmpType
<1>3. Out' = Out \union {p} /\ p \notin Out
  BY <1>1, <1>2 DEF Out
<1>4. Cardinality(Out) \in Nat /\ Held \in Int /\ Replies \in Nat /\ IsFiniteSet(Out)
  BY OutFinite, CreditIs
<1>5. Cardinality(Out') = Cardinality(Out) + 1
  BY <1>3, <1>4, FS_AddElement
<1>6. window_total' = window_total /\ window_total \in Int
  BY WindowInt DEF window_total, window_thread_limit
<1>7. Held' + Cardinality(Out') + Replies' = Held + Cardinality(Out) + Replies
  BY <1>1, <1>4, <1>5
<1>8. 0 \in rcvd' /\ \A k \in rcvd' : IsSent(k)'
  BY <1>2 DEF Balance
<1>9. \A m \in wire' : m.pkt \in Out'
  BY <1>3 DEF Balance
<1>10. slmpFaults' = 0 => \A k \in Out' : [pkt |-> k, syn |-> TRUE] \in wire'
  BY <1>3 DEF Balance
<1>11. /\ Held' + Cardinality(Out') + Replies' <= window_total'
       /\ slmpFaults' = 0 => Held' + Cardinality(Out') + Replies' = window_total'
  BY <1>6, <1>7 DEF Balance
<1> QED BY <1>8, <1>9, <1>10, <1>11 DEF Balance

\* A message has a packet.
LEMMA LenIs ==
  ASSUME SlmpType
  PROVE  call.len \in Nat \ {0} /\ call \in [wnd : WndSizes, len : Lengths]
<1>1. call.len \in Lengths
  BY DEF SlmpType
<1> QED BY <1>1, SlmpAssumption DEF SlmpType

\* Nobody's place depends on the others.
LEMMA AtWorkStays ==
  ASSUME NEW v, InPart(v), UNCHANGED call, actor'[v] = actor[v], slmpFaults \in Nat,
         slmpFaults' \in Nat, slmpFaults <= slmpFaults'
  PROVE  InPart(v)'
<1>1. Part(v)' = Part(v) /\ window_thread_limit' = window_thread_limit
  BY DEF Part, Middle, window_thread_limit
<1>2. slmpFaults' = 0 => slmpFaults = 0
  OBVIOUS
<1> QED BY <1>1, <1>2 DEF InPart

\* What has been sent depends on the places of the actors only.
LEMMA SameSent ==
  ASSUME UNCHANGED call, \A w \in Workers : actor'[w].pkt = actor[w].pkt,
         (actor'[Main].pc = "final") <=> (actor[Main].pc = "final")
  PROVE  \A p : IsSent(p)' <=> IsSent(p)
<1>1. \A w \in Workers : Part(w)' = Part(w)
  BY DEF Part, Middle
<1>2. Workers' = Workers /\ Main' = Main
  BY DEF Workers, Main
<1> QED BY <1>1, <1>2 DEF IsSent

\* A thread takes a step.
LEMMA WorkerMoves ==
  ASSUME SlmpType, Sending, slmpFaults \in Nat, slmpFaults' \in Nat, slmpFaults <= slmpFaults',
         NEW w \in Workers, NEW r \in SlmpRec, Become(w, r), actor[w].pc # "off",
         UNCHANGED <<call, exit_flag>>, acks' \in Nat, queued' \in [good : Nat, bad : Nat],
         rcvd' \subseteq Packets, wire' \subseteq [pkt : Packets, syn : {TRUE}]
  PROVE  /\ SlmpType' /\ Shared /\ AtLast' /\ \A v \in Workers \ {w} : InPart(v)'
         /\ actor'[w] = r /\ actor'[Main] = actor[Main]
         /\ \A v \in Workers \ {w} : actor'[v] = actor[v]
         /\ Held' = Held + (r.win + r.got) - (actor[w].win + actor[w].got)
<1>1. /\ actor' \in [SlmpActors -> SlmpRec] /\ actor'[w] = r
      /\ \A b \in SlmpActors \ {w} : actor'[b] = actor[b]
  BY ActorsAre, OneActor
<1>2. Packets' = Packets /\ SlmpActors' = SlmpActors /\ Workers' = Workers /\ Main' = Main
  BY DEF Packets, SlmpActors, Workers, Main
<1>3. SlmpType'
  BY <1>1, <1>2 DEF SlmpType, SlmpRec, SlmpPcs
<1>4. Shared
  BY DEF Sending, AtLast, Shared
<1>5. actor'[Main] = actor[Main]
  BY <1>1, ActorsAre
<1>6. AtLast'
  BY <1>4, <1>5 DEF Sending, AtLast, Shared
<1>7. \A v \in Workers \ {w} : InPart(v)' /\ actor'[v] = actor[v]
  BY <1>1, ActorsAre, AtWorkStays DEF Sending
<1>8. Held' = Held + (r.win + r.got) - (actor[w].win + actor[w].got)
  BY <1>3, <1>4, ActorsAre, HeldMoves
<1> QED BY <1>1, <1>3, <1>4, <1>5, <1>6, <1>7, <1>8

\* A thread goes on to its next packet, waits for room or ends.
LEMMA IterateKeeps ==
  ASSUME Acked, SlmpType, Sending, slmpFaults \in Nat, NEW w \in Workers, Iterate(w)
  PROVE  SlmpType' /\ Sending'
<1> DEFINE r == actor[w]
           e == IF r.pkt > Part(w).last THEN [r EXCEPT !.pc = "off"]
                ELSE IF r.win = 0 THEN [r EXCEPT !.pc = "reclaim", !.got = 0]
                ELSE [r EXCEPT !.pc = "send"]
<1>0. exit_flag = FALSE
  BY DEF SlmpType
<1>1. /\ r \in SlmpRec /\ acks \in Nat /\ queued \in [good : Nat, bad : Nat]
      /\ rcvd \subseteq Packets /\ wire \subseteq [pkt : Packets, syn : {TRUE}]
  BY ActorsAre DEF SlmpType
<1>2. InPart(w) /\ r.pc = "next" /\ r.got = 0
  BY DEF Sending, InPart, Iterate
<1>3. ack_for_all
  BY Windows DEF SlmpType
<1>4. Become(w, e) /\ UNCHANGED <<call, result, exit_flag, wire, rcvd, acks, queued, slmpFaults>>
  BY <1>0, <1>3 DEF Iterate
<1>5. e \in SlmpRec /\ e.pkt = r.pkt /\ e.win = r.win /\ e.got = 0
  BY <1>1, <1>2 DEF SlmpRec, SlmpPcs
<1>6. /\ e.pc = IF r.pkt > Part(w).last THEN "off" ELSE IF r.win = 0 THEN "reclaim" ELSE "send"
  BY <1>1 DEF SlmpRec
<1> HIDE DEF e
<1>7. /\ SlmpType' /\ Shared /\ AtLast' /\ \A v \in Workers \ {w} : InPart(v)'
      /\ actor'[w] = e /\ actor'[Main] = actor[Main]
      /\ \A v \in Workers \ {w} : actor'[v] = actor[v]
      /\ Held' = Held + (e.win + e.got) - (actor[w].win + actor[w].got)
  <2>1. /\ slmpFaults' \in Nat /\ slmpFaults <= slmpFaults' /\ actor[w].pc # "off"
        /\ acks' \in Nat /\ queued' \in [good : Nat, bad : Nat]
        /\ rcvd' \subseteq Packets /\ wire' \subseteq [pkt : Packets, syn : {TRUE}]
    <3>1. UNCHANGED <<call, wire, rcvd, acks, queued, slmpFaults>>
      BY <1>4
    <3>2. slmpFaults' \in Nat /\ slmpFaults <= slmpFaults' /\ acks' \in Nat
      BY <1>1, <3>1
    <3>3. queued' \in [good : Nat, bad : Nat] /\ rcvd' \subseteq Packets
          /\ wire' \subseteq [pkt : Packets, syn : {TRUE}]
      BY <1>1, <3>1, Zenon
    <3> QED BY <1>2, <3>2, <3>3
  <2> HIDE DEF r
  <2> QED BY <1>4, <1>5, <2>1, WorkerMoves
<1>8. InPart(w)'
  <2>1. Part(w)' = Part(w) /\ window_thread_limit' = window_thread_limit
    BY <1>4 DEF Part, Middle, window_thread_limit
  <2>2. Part(w).first \in Int /\ Part(w).last \in Int /\ r.pkt \in Int
    BY <1>1, PartBounds, LenIs DEF SlmpRec
  <2> QED BY <1>2, <1>4, <1>5, <1>6, <1>7, <2>1, <2>2 DEF InPart
<1>9. Balance'
  <2>1. \A p : IsSent(p)' <=> IsSent(p)
    BY <1>4, <1>5, <1>7, SameSent
  <2>2. Held' = Held + 0 /\ Replies' = Replies + 0
    <3>1. Held \in Int /\ Replies \in Nat /\ r.win \in Int
      BY <1>1, CreditIs DEF SlmpRec
    <3>2. Replies' = Replies
      BY <1>4 DEF Replies
    <3> QED BY <1>2, <1>5, <1>7, <3>1, <3>2
  <2> QED BY <1>4, <1>7, <2>1, <2>2, BalanceMoves DEF Sending
<1>10. \A v \in Workers : InPart(v)'
  BY <1>7, <1>8
<1> QED BY <1>7, <1>9, <1>10 DEF Sending, Workers

\* A packet of a thread has not been sent by another.
LEMMA NotSent ==
  ASSUME SlmpType, Sending, Shared, NEW w \in Workers, actor[w].pc \in {"send", "reclaim"}
  PROVE  actor[w].pkt \in Packets /\ ~IsSent(actor[w].pkt) /\ actor[w].pkt \in Nat
<1> DEFINE p == actor[w].pkt
<1>1. call.len \in Nat \ {0}
  BY SlmpAssumption DEF SlmpType
<1>2. /\ Part(w).first \in Nat \ {0} /\ Part(w).last \in Nat /\ Part(w).last <= Middle
      /\ Middle \in Nat /\ Middle <= call.len - 1
  BY <1>1, PartBounds
<1>3. Part(w).first <= p /\ p <= Part(w).last /\ p \in Int
  BY ActorsAre DEF Sending, InPart, SlmpType, SlmpRec
<1>4. p \in Packets /\ p # 0 /\ p \in Nat
  BY <1>1, <1>2, <1>3 DEF Packets
<1>5. ASSUME NEW v \in Workers, Part(v).first <= p, p < actor[v].pkt
      PROVE  FALSE
  <2>1. Part(v).first \in Nat /\ Part(v).last \in Nat /\ actor[v].pkt \in Int /\ actor[v].pkt <= Part(v).last + 1
    BY <1>1, PartBounds, ActorsAre DEF Sending, InPart, SlmpType, SlmpRec
  <2>2. v \in Int /\ w \in Int
    BY DEF Workers
  <2>3. CASE v < w
    <3>1. Part(v).last < Part(w).first
      BY <1>1, <2>3, PartsApart
    <3> QED BY <1>2, <1>3, <1>5, <2>1, <3>1
  <2>4. CASE w < v
    <3>1. Part(w).last < Part(v).first
      BY <1>1, <2>4, PartsApart
    <3> QED BY <1>2, <1>3, <1>5, <2>1, <3>1
  <2>5. CASE v = w
    BY <1>3, <1>5, <2>5
  <2> QED BY <2>2, <2>3, <2>4, <2>5
<1>6. actor[Main].pc # "final"
  BY DEF Shared
<1> QED BY <1>4, <1>5, <1>6 DEF IsSent

\* A thread stays well formed when it sends.
LEMMA Spent ==
  ASSUME NEW x \in SlmpRec
  PROVE  [x EXCEPT !.pc = "next", !.pkt = @ + 1, !.win = @ - 1] \in SlmpRec
<1>1. PICK e : e = [x EXCEPT !.pc = "next", !.pkt = @ + 1, !.win = @ - 1]
  OBVIOUS
<1>2. e.pc = "next" /\ e.pkt = x.pkt + 1 /\ e.win = x.win - 1 /\ e.got = x.got
  BY <1>1 DEF SlmpRec
<1>3. x.pkt + 1 \in Int /\ x.win - 1 \in Int /\ x.got \in Nat
  BY DEF SlmpRec
<1>4. e = [pc |-> e.pc, pkt |-> e.pkt, win |-> e.win, got |-> e.got]
  BY <1>1 DEF SlmpRec
<1>5. e \in SlmpRec
  BY <1>2, <1>3, <1>4 DEF SlmpRec, SlmpPcs
<1> QED BY <1>1, <1>5

\* A thread sends a packet.
LEMMA SendOneKeeps ==
  ASSUME Acked, SlmpType, Sending, slmpFaults \in Nat, NEW w \in Workers, SendOne(w)
  PROVE  SlmpType' /\ Sending'
<1> DEFINE r == actor[w]
           e == [r EXCEPT !.pc = "next", !.pkt = @ + 1, !.win = @ - 1]
<1>1. /\ r \in SlmpRec /\ acks \in Nat /\ queued \in [good : Nat, bad : Nat]
      /\ rcvd \subseteq Packets /\ wire \subseteq [pkt : Packets, syn : {TRUE}]
  BY ActorsAre DEF SlmpType
<1>2. InPart(w) /\ r.pc = "send" /\ r.got = 0 /\ r.win \in Int /\ r.pkt \in Int
  BY <1>1 DEF Sending, InPart, SendOne, SlmpRec
<1>3. ack_for_all = TRUE
  BY Windows DEF SlmpType, ack_for_all
<1>4. Become(w, e) /\ UNCHANGED <<call, result, exit_flag, rcvd, acks, queued, slmpFaults>>
  BY DEF SendOne
<1>5. wire' = wire \union {[pkt |-> r.pkt, syn |-> TRUE]}
  BY <1>3 DEF SendOne, SendPacket
<1>6. e \in SlmpRec /\ e.pkt = r.pkt + 1 /\ e.win = r.win - 1 /\ e.got = r.got /\ e.pc = "next"
  <2>1. e.pc = "next" /\ e.pkt = r.pkt + 1 /\ e.win = r.win - 1 /\ e.got = r.got
    BY <1>1 DEF SlmpRec
  <2>2. \A x \in SlmpRec : [x EXCEPT !.pc = "next", !.pkt = @ + 1, !.win = @ - 1] \in SlmpRec
    BY Spent
  <2>3. r \in SlmpRec
    BY <1>1
  <2> HIDE DEF r
  <2>4. e \in SlmpRec
    BY <2>2, <2>3, Zenon
  <2> QED BY <2>1, <2>4
<1> HIDE DEF e
<1>7. Shared
  BY <1>2 DEF Sending, AtLast, Shared
<1>8. r.pkt \in Packets /\ ~IsSent(r.pkt) /\ r.pkt \in Nat
  BY <1>2, <1>7, NotSent
<1>9. wire' \subseteq [pkt : Packets, syn : {TRUE}]
  <2>1. [pkt |-> r.pkt, syn |-> TRUE] \in [pkt : Packets, syn : {TRUE}]
    BY <1>8
  <2> HIDE DEF r
  <2> QED BY <1>1, <1>5, <2>1
<1>10. /\ SlmpType' /\ AtLast' /\ \A v \in Workers \ {w} : InPart(v)'
       /\ actor'[w] = e /\ actor'[Main] = actor[Main]
       /\ \A v \in Workers \ {w} : actor'[v] = actor[v]
       /\ Held' = Held + (e.win + e.got) - (actor[w].win + actor[w].got)
  <2>1. /\ slmpFaults' \in Nat /\ slmpFaults <= slmpFaults' /\ actor[w].pc # "off"
        /\ acks' \in Nat /\ queued' \in [good : Nat, bad : Nat] /\ rcvd' \subseteq Packets
    BY <1>1, <1>2, <1>4
  <2> HIDE DEF r
  <2> QED BY <1>4, <1>6, <1>9, <2>1, WorkerMoves
<1>11. InPart(w)'
  <2>1. Part(w)' = Part(w) /\ window_thread_limit' = window_thread_limit
    BY <1>4 DEF Part, Middle, window_thread_limit
  <2>2. Part(w).first \in Int /\ Part(w).last \in Int /\ window_thread_limit \in Int
    BY PartBounds, LenIs, WindowInt
  <2>3. Part(w).first <= r.pkt + 1 /\ r.pkt + 1 <= Part(w).last + 1
    BY <1>2, <2>2 DEF InPart
  <2>4. slmpFaults = 0 => r.win - 1 + 0 <= window_thread_limit
    BY <1>2, <2>2 DEF InPart
  <2> QED BY <1>2, <1>4, <1>6, <1>10, <2>1, <2>3, <2>4 DEF InPart
<1>12. \A k \in Packets : IsSent(k)' <=> IsSent(k) \/ k = r.pkt
  <2> TAKE k \in Packets
  <2>1. \A v \in Workers : Part(v)' = Part(v)
    BY <1>4 DEF Part, Middle
  <2>2. Workers' = Workers /\ Main' = Main /\ call' = call
    BY <1>4 DEF Workers, Main
  <2>3. k \in Int
    BY OutFinite
  <2>4. k < r.pkt + 1 <=> k < r.pkt \/ k = r.pkt
    BY <1>8, <2>3
  <2>5. Part(w).first <= r.pkt
    BY <1>2 DEF InPart
  <2>6. ASSUME NEW v \in Workers
        PROVE  (Part(v)'.first <= k /\ k < actor'[v].pkt)
               <=> (Part(v).first <= k /\ k < actor[v].pkt) \/ (v = w /\ k = r.pkt)
    <3>1. CASE v = w
      BY <1>6, <1>10, <2>1, <2>4, <2>5, <3>1
    <3>2. CASE v # w
      BY <1>10, <2>1, <3>2
    <3> QED BY <3>1, <3>2
  <2> QED BY <1>10, <2>2, <2>6 DEF IsSent
<1>13. Balance'
  <2>1. Held' = Held - 1
    <3>1. Held \in Int /\ r.got \in Int
      BY <1>1, CreditIs DEF SlmpRec
    <3> QED BY <1>2, <1>6, <1>10, <3>1
  <2> QED BY <1>4, <1>5, <1>8, <1>10, <1>12, <2>1, BalanceSends DEF Sending
<1>14. \A v \in Workers : InPart(v)'
  BY <1>10, <1>11
<1> QED BY <1>10, <1>13, <1>14 DEF Sending, Workers

\* The caller takes a step after the threads.
LEMMA MainMoves ==
  ASSUME SlmpType, Sending, slmpFaults \in Nat, slmpFaults' \in Nat, slmpFaults <= slmpFaults',
         NEW r \in SlmpRec, Become(Main, r), ~Shared, r.pc # "join",
         UNCHANGED <<call, exit_flag>>, acks' \in Nat, queued' \in [good : Nat, bad : Nat],
         rcvd' \subseteq Packets, wire' \subseteq [pkt : Packets, syn : {TRUE}]
  PROVE  /\ SlmpType' /\ \A w \in Workers : InPart(w)' /\ actor'[w] = actor[w]
         /\ actor'[Main] = r
         /\ Held' = Held + (r.win + r.got) - (actor[Main].win + actor[Main].got)
<1>1. /\ actor' \in [SlmpActors -> SlmpRec] /\ actor'[Main] = r
      /\ \A b \in SlmpActors \ {Main} : actor'[b] = actor[b]
  BY ActorsAre, OneActor
<1>2. Packets' = Packets /\ SlmpActors' = SlmpActors /\ Workers' = Workers /\ Main' = Main
  BY DEF Packets, SlmpActors, Workers, Main
<1>3. SlmpType'
  BY <1>1, <1>2 DEF SlmpType, SlmpRec, SlmpPcs
<1>4. \A w \in Workers : InPart(w)' /\ actor'[w] = actor[w]
  BY <1>1, ActorsAre, AtWorkStays DEF Sending
<1>5. Held' = Held + (r.win + r.got) - (actor[Main].win + actor[Main].got)
  BY <1>3, ActorsAre, HeldMoves
<1> QED BY <1>1, <1>3, <1>4, <1>5

\* In the end every packet has been sent.
LEMMA AllSent ==
  ASSUME SlmpType, Sending, actor[Main].pc = "final", NEW p \in Packets
  PROVE  IsSent(p)
<1>1. call.len \in Nat \ {0} /\ p \in Int
  BY LenIs, OutFinite
<1>2. p \in 0..call.len-1
  BY DEF Packets
<1>3. CASE p = 0 \/ p = call.len - 1
  BY <1>3 DEF IsSent
<1>4. CASE p # 0 /\ p # call.len - 1
  <2>1. p \in 1..Middle
    BY <1>1, <1>2, <1>4 DEF Middle
  <2>2. PICK w \in Workers : Part(w).first <= p /\ p <= Part(w).last
    BY <1>1, <2>1, PartsCover
  <2>3. actor[w].pkt = Part(w).last + 1
    BY DEF Sending, AtLast, InPart
  <2>4. Part(w).last \in Nat
    BY <1>1, PartBounds
  <2>5. p < actor[w].pkt
    BY <1>1, <2>2, <2>3, <2>4
  <2> QED BY <2>2, <2>5 DEF IsSent
<1> QED BY <1>3, <1>4

\* The windows of the threads are collected.
LEMMA JoinKeeps ==
  ASSUME Acked, SlmpType, Sending, slmpFaults \in Nat, result = 0, Join
  PROVE  SlmpType' /\ Sending'
<1> DEFINE left == MapThenSumSet(LAMBDA w : actor[w].win, Workers)
           pc == IF call.len = 1 THEN "final" ELSE IF left = 0 THEN "reclaim" ELSE "send"
           r == [pc |-> pc, pkt |-> call.len - 1, win |-> left, got |-> 0]
<1>1. /\ Shared /\ \A w \in Workers : actor[w].pc = "off"
      /\ Become(Main, r)
  BY DEF Join, Shared
<1>2. UNCHANGED <<call, result, exit_flag, wire, rcvd, acks, queued, slmpFaults>>
  BY DEF Join
<1>3. \A w \in Workers : InPart(w) /\ actor[w].got = 0 /\ actor[w].win \in Int
  BY <1>1, ActorsAre DEF Sending, InPart, SlmpType, SlmpRec
<1>4. left = Held /\ Held \in Int
  <2> DEFINE f == Credit
  <2>1. f \in [Workers -> Int] /\ Held \in Int
    BY CreditIs
  <2>2. \A w \in Workers : actor[w].win = f[w]
    BY <1>3 DEF Credit
  <2> HIDE DEF f
  <2>3. left = Sum(f)
    BY <2>1, <2>2, FoldIsSum
  <2> QED BY <1>1, <2>1, <2>3 DEF Held, f
<1> HIDE DEF left
<1>5. call.len \in Nat \ {0}
  BY LenIs
<1>6. r \in SlmpRec /\ r.pc # "join" /\ r.got = 0 /\ r.win = Held /\ r.pkt = call.len - 1 /\ r.pc = pc
  BY <1>4, <1>5 DEF SlmpRec, SlmpPcs
<1> HIDE DEF r
<1>7. /\ actor' \in [SlmpActors -> SlmpRec] /\ actor'[Main] = r
      /\ \A b \in SlmpActors \ {Main} : actor'[b] = actor[b]
  BY <1>1, <1>6, ActorsAre, OneActor
<1>8. \A w \in Workers : InPart(w)' /\ actor'[w] = actor[w]
  BY <1>2, <1>3, <1>7, ActorsAre, AtWorkStays
<1>9. Packets' = Packets /\ SlmpActors' = SlmpActors /\ Workers' = Workers /\ Main' = Main
  BY <1>2 DEF Packets, SlmpActors, Workers, Main
<1>10. SlmpType'
  BY <1>2, <1>7, <1>9 DEF SlmpType, SlmpRec, SlmpPcs
<1>11. AtLast'
  BY <1>1, <1>2, <1>4, <1>5, <1>6, <1>7, <1>8, <1>9 DEF AtLast
<1>12. Balance'
  <2>1. Held' = Held + 0
    <3>1. Held' = r.win + r.got
      BY <1>6, <1>7, <1>9 DEF Held, Shared
    <3> QED BY <1>4, <1>6, <3>1
  <2>2. Replies' = Replies + 0
    BY <1>2, CreditIs DEF Replies
  <2>3. \A p \in Packets : IsSent(p)' <=> IsSent(p)
    <3> TAKE p \in Packets
    <3>1. \A w \in Workers : Part(w)' = Part(w) /\ actor'[w] = actor[w]
      BY <1>2, <1>8 DEF Part, Middle
    <3>2. actor[Main].pc # "final"
      BY <1>1 DEF Shared
    <3>3. actor'[Main].pc = "final" => call.len - 1 = 0
      BY <1>5, <1>6, <1>7
    <3>4. call' = call
      BY <1>2
    <3> QED BY <1>9, <3>1, <3>2, <3>3, <3>4 DEF IsSent
  <2>4. slmpFaults' \in Nat /\ slmpFaults <= slmpFaults'
    BY <1>2
  <2> QED BY <1>2, <1>10, <2>1, <2>2, <2>3, <2>4, BalanceMoves DEF Sending
<1> QED BY <1>8, <1>9, <1>10, <1>11, <1>12 DEF Sending

\* The caller stays well formed when it sends.
LEMMA SpentLast ==
  ASSUME NEW x \in SlmpRec
  PROVE  [x EXCEPT !.pc = "final", !.win = @ - 1, !.got = 0] \in SlmpRec
<1>1. PICK e : e = [x EXCEPT !.pc = "final", !.win = @ - 1, !.got = 0]
  OBVIOUS
<1>2. e.pc = "final" /\ e.pkt = x.pkt /\ e.win = x.win - 1 /\ e.got = 0
  BY <1>1 DEF SlmpRec
<1>3. x.pkt \in Int /\ x.win - 1 \in Int
  BY DEF SlmpRec
<1>4. e = [pc |-> e.pc, pkt |-> e.pkt, win |-> e.win, got |-> e.got]
  BY <1>1 DEF SlmpRec
<1>5. e \in SlmpRec
  BY <1>2, <1>3, <1>4 DEF SlmpRec, SlmpPcs
<1> QED BY <1>1, <1>5

\* The caller sends the last packet.
LEMMA SendLastKeeps ==
  ASSUME Acked, SlmpType, Sending, slmpFaults \in Nat, SendLast
  PROVE  SlmpType' /\ Sending'
<1> DEFINE r == actor[Main]
           e == [r EXCEPT !.pc = "final", !.win = @ - 1, !.got = 0]
           p == call.len - 1
<1>1. /\ r \in SlmpRec /\ acks \in Nat /\ queued \in [good : Nat, bad : Nat]
      /\ rcvd \subseteq Packets /\ wire \subseteq [pkt : Packets, syn : {TRUE}]
  BY ActorsAre DEF SlmpType
<1>2. r.pc = "send" /\ r.got = 0 /\ r.win \in Int /\ r.pkt = p /\ call.len > 1 /\ ~Shared
  BY <1>1 DEF Sending, AtLast, SendLast, SlmpRec, Shared
<1>3. Become(Main, e) /\ UNCHANGED <<call, result, exit_flag, rcvd, acks, queued, slmpFaults>>
  BY DEF SendLast
<1>4. wire' = wire \union {[pkt |-> p, syn |-> TRUE]}
  BY <1>2 DEF SendLast, SendPacket
<1>5. e \in SlmpRec /\ e.pkt = p /\ e.win = r.win - 1 /\ e.got = 0 /\ e.pc = "final"
  <2>1. e.pc = "final" /\ e.pkt = r.pkt /\ e.win = r.win - 1 /\ e.got = 0
    BY <1>1 DEF SlmpRec
  <2>2. \A x \in SlmpRec : [x EXCEPT !.pc = "final", !.win = @ - 1, !.got = 0] \in SlmpRec
    BY SpentLast
  <2>3. r \in SlmpRec
    BY <1>1
  <2> HIDE DEF r
  <2>4. e \in SlmpRec
    BY <2>2, <2>3, Zenon
  <2> QED BY <1>2, <2>1, <2>4
<1> HIDE DEF e
<1>6. p \in Packets /\ p # 0 /\ p \in Nat /\ call.len \in Nat \ {0}
  BY <1>2, LenIs DEF Packets
<1>7. \A w \in Workers : actor[w].pkt = Part(w).last + 1 /\ Part(w).last \in Nat /\ Part(w).last + 1 <= p
  <2> TAKE w \in Workers
  <2>1. actor[w].pkt = Part(w).last + 1
    BY <1>2 DEF Sending, AtLast, InPart
  <2>2. Part(w).last \in Nat /\ Part(w).last <= Middle /\ Middle = call.len - 2
    BY <1>2, <1>6, PartBounds
  <2> QED BY <1>6, <2>1, <2>2
<1>8. ~IsSent(p)
  BY <1>2, <1>6, <1>7 DEF IsSent
<1>9. wire' \subseteq [pkt : Packets, syn : {TRUE}]
  <2>1. [pkt |-> p, syn |-> TRUE] \in [pkt : Packets, syn : {TRUE}]
    BY <1>6
  <2> HIDE DEF p
  <2> QED BY <1>1, <1>4, <2>1
<1>10. /\ SlmpType' /\ \A w \in Workers : InPart(w)' /\ actor'[w] = actor[w]
       /\ actor'[Main] = e
       /\ Held' = Held + (e.win + e.got) - (actor[Main].win + actor[Main].got)
  <2>1. /\ slmpFaults' \in Nat /\ slmpFaults <= slmpFaults'
        /\ acks' \in Nat /\ queued' \in [good : Nat, bad : Nat] /\ rcvd' \subseteq Packets
    BY <1>1, <1>3
  <2> HIDE DEF r, p
  <2>2. e.pc # "join"
    BY <1>5
  <2> QED BY <1>2, <1>3, <1>5, <1>9, <2>1, <2>2, MainMoves
<1>11. Packets' = Packets /\ Workers' = Workers /\ Main' = Main /\ call' = call
  BY <1>3 DEF Packets, Workers, Main
<1>12. AtLast'
  BY <1>2, <1>5, <1>10, <1>11 DEF Sending, AtLast
<1>13. \A k \in Packets : IsSent(k)' <=> IsSent(k) \/ k = p
  <2>1. \A w \in Workers : Part(w)' = Part(w)
    BY <1>11 DEF Part, Middle
  <2> QED BY <1>2, <1>5, <1>10, <1>11, <2>1 DEF IsSent
<1>14. Held' = Held - 1
  <2>1. Held \in Int
    BY CreditIs
  <2> QED BY <1>2, <1>5, <1>10, <2>1
<1>15. Balance'
  <2> HIDE DEF p
  <2> QED BY <1>3, <1>4, <1>6, <1>8, <1>10, <1>13, <1>14, BalanceSends DEF Sending
<1> QED BY <1>10, <1>11, <1>12, <1>15 DEF Sending

\* Whoever reads replies keeps the balance.
LEMMA ReaderKeeps ==
  ASSUME SlmpType, Sending, slmpFaults \in Nat, slmpFaults' \in Nat, slmpFaults <= slmpFaults',
         NEW a \in SlmpActors, Draining(a), NEW r \in SlmpRec, Become(a, r),
         UNCHANGED <<call, exit_flag, wire, rcvd, acks>>, queued' \in [good : Nat, bad : Nat],
         r.pkt = actor[a].pkt,
         \/ r.pc = actor[a].pc
         \/ actor[a].pc = "reclaim" /\ r.pc = "send" /\ r.got = 0,
         NEW x \in Int, NEW y \in Int, r.win + r.got = actor[a].win + actor[a].got + x,
         Replies' = Replies + y, x + y <= 0, slmpFaults' = 0 => x + y = 0,
         slmpFaults' = 0 /\ a # Main => r.win + r.got <= window_thread_limit,
         slmpFaults' = 0 /\ r.pc = "reclaim" => r.win = 0
  PROVE  SlmpType' /\ Sending'
<1>1. acks' \in Nat /\ rcvd' \subseteq Packets /\ wire' \subseteq [pkt : Packets, syn : {TRUE}]
  BY DEF SlmpType
<1>2. actor[a].pc \in {"synack", "reclaim", "final"}
  BY DEF Draining
<1>3. /\ Held \in Int /\ actor[a].win \in Int /\ actor[a].got \in Nat /\ r.win \in Int /\ r.got \in Nat
  BY CreditIs DEF SlmpType, SlmpRec
<1>4. CASE a # Main
  <2>1. a \in Workers /\ InPart(a) /\ actor[a].pc = "reclaim"
    BY <1>2, <1>4, ActorsAre DEF Sending, InPart
  <2>2. /\ SlmpType' /\ AtLast' /\ \A v \in Workers \ {a} : InPart(v)'
        /\ actor'[a] = r /\ actor'[Main] = actor[Main]
        /\ \A v \in Workers \ {a} : actor'[v] = actor[v]
        /\ Held' = Held + (r.win + r.got) - (actor[a].win + actor[a].got)
    BY <1>1, <2>1, WorkerMoves
  <2>3. InPart(a)'
    <3>1. Part(a)' = Part(a) /\ window_thread_limit' = window_thread_limit
      BY DEF Part, Middle, window_thread_limit
    <3> QED BY <1>4, <2>1, <2>2, <3>1 DEF InPart
  <2>4. Held' = Held + x
    BY <1>3, <2>2
  <2>5. \A p : IsSent(p)' <=> IsSent(p)
    BY <2>1, <2>2, SameSent
  <2>6. Balance'
    BY <2>2, <2>4, <2>5, BalanceMoves DEF Sending
  <2>7. \A v \in Workers : InPart(v)'
    BY <2>2, <2>3
  <2> QED BY <2>2, <2>6, <2>7 DEF Sending, Workers
<1>5. CASE a = Main
  <2>1. ~Shared /\ r.pc # "join" /\ actor[Main].pc \in {"reclaim", "final"}
    BY <1>2, <1>5 DEF Shared, Sending, AtLast
  <2>2. /\ SlmpType' /\ \A w \in Workers : InPart(w)' /\ actor'[w] = actor[w]
        /\ actor'[Main] = r
        /\ Held' = Held + (r.win + r.got) - (actor[Main].win + actor[Main].got)
    BY <1>1, <1>5, <2>1, MainMoves
  <2>3. AtLast'
    <3>1. Workers' = Workers /\ Main' = Main
      BY DEF Workers, Main
    <3> QED BY <1>5, <2>1, <2>2, <3>1 DEF Sending, AtLast
  <2>4. Held' = Held + x
    BY <1>3, <1>5, <2>2
  <2>5. \A p : IsSent(p)' <=> IsSent(p)
    BY <1>5, <2>1, <2>2, SameSent
  <2>6. Balance'
    BY <2>2, <2>4, <2>5, BalanceMoves DEF Sending
  <2> QED BY <2>2, <2>3, <2>6 DEF Sending, Workers
<1> QED BY <1>4, <1>5

\* What follows from the result of a drain.
LEMMA DrainedEffect ==
  ASSUME NEW a, NEW v, Draining(a), Drained(a, v)
  PROVE  \/ actor[a].pc = "synack" /\ v = 0 /\ result' = -2
         \/ /\ actor[a].pc = "synack" /\ v # 0 /\ UNCHANGED <<result, exit_flag>>
            /\ Become(a, [actor[a] EXCEPT !.pc = "fork"])
         \/ actor[a].pc = "reclaim" /\ v = 0 /\ result' = -1
         \/ /\ actor[a].pc = "reclaim" /\ v # 0 /\ UNCHANGED <<result, exit_flag>>
            /\ Become(a, [actor[a] EXCEPT !.pc = "send", !.win = Reclaimed(a, v), !.got = 0])
         \/ actor[a].pc = "final" /\ v < to_expect(a) /\ result' = -1
         \/ /\ actor[a].pc = "final" /\ ~(v < to_expect(a)) /\ UNCHANGED <<result, exit_flag>>
            /\ Become(a, [actor[a] EXCEPT !.pc = "end"])
<1>1. actor[a].pc \in {"synack", "reclaim", "final"}
  BY DEF Draining
<1>2. CASE actor[a].pc = "synack"
  BY <1>2 DEF Drained
<1>3. CASE actor[a].pc = "reclaim"
  BY <1>3 DEF Drained, Failed
<1>4. CASE actor[a].pc = "final"
  BY <1>4 DEF Drained
<1> QED BY <1>1, <1>2, <1>3, <1>4

\* Who drains, and for how much.
LEMMA Expecting ==
  ASSUME Acked, SlmpType, Sending, NEW a \in SlmpActors, Draining(a)
  PROVE  /\ to_expect(a) \in Int /\ actor[a].got \in Nat /\ actor[a].win \in Int
         /\ \/ actor[a].pc = "reclaim" /\ a # Main /\ a \in Workers /\ to_expect(a) = window_thread_limit
            \/ actor[a].pc = "reclaim" /\ a = Main /\ ~Shared /\ to_expect(a) = window_total
            \/ actor[a].pc = "final" /\ a = Main /\ ~Shared /\ to_expect(a) = window_total - actor[a].win
<1>1. /\ window_thread_limit \in Nat \ {0} /\ window_total \in Nat \ {0}
  BY Windows, LenIs
<1>2. actor[a].got \in Nat /\ actor[a].win \in Int
  BY DEF SlmpType, SlmpRec
<1>3. a # Main => a \in Workers /\ actor[a].pc = "reclaim"
  BY ActorsAre DEF Sending, InPart, Draining
<1>4. a = Main => ~Shared /\ actor[a].pc \in {"reclaim", "final"}
  BY DEF Sending, AtLast, Draining, Shared
<1>5. actor[a].pc = "reclaim" => to_expect(a) = IF a = Main THEN window_total ELSE window_thread_limit
  BY DEF to_expect
<1>6. actor[a].pc = "final" => to_expect(a) = window_total - actor[a].win
  BY DEF to_expect
<1> QED BY <1>1, <1>2, <1>3, <1>4, <1>5, <1>6

\* When nothing is on its way there is credit for whoever waits: no other thread
\* can have it all.
LEMMA Starved ==
  ASSUME Acked, SlmpType, Sending, slmpFaults = 0, NEW a \in SlmpActors, Draining(a),
         SocketEmpty, wire = {}, acks = 0
  PROVE  /\ actor[a].pc = "reclaim" => actor[a].got # 0
         /\ actor[a].pc = "final" => ~(actor[a].got < to_expect(a))
<1>1. /\ window_thread_limit \in Nat \ {0} /\ window_total \in Nat \ {0} /\ NumThreads \in Nat \ {0}
      /\ window_total = window_thread_limit * NumThreads
  BY Windows, LenIs
<1>2. Out = {} /\ Replies = 0
  BY DEF Sending, Balance, Replies, SocketEmpty
<1>3. Cardinality(Out) = 0
  BY <1>2, FS_EmptySet
<1>4. Held = window_total
  <2>1. Held + Cardinality(Out) + Replies = window_total /\ Held \in Int
    BY CreditIs DEF Sending, Balance
  <2> QED BY <1>1, <1>2, <1>3, <2>1
<1>5. /\ to_expect(a) \in Int /\ actor[a].got \in Nat /\ actor[a].win \in Int
      /\ \/ actor[a].pc = "reclaim" /\ a # Main /\ a \in Workers /\ to_expect(a) = window_thread_limit
         \/ actor[a].pc = "reclaim" /\ a = Main /\ ~Shared /\ to_expect(a) = window_total
         \/ actor[a].pc = "final" /\ a = Main /\ ~Shared /\ to_expect(a) = window_total - actor[a].win
  BY Expecting
<1>6. CASE actor[a].pc = "reclaim" /\ a # Main /\ a \in Workers
  <2>1. Shared /\ Held = Sum(Credit)
    BY <1>6 DEF Sending, AtLast, Shared, Held
  <2>2. SUFFICES ASSUME actor[a].got = 0 PROVE FALSE
    BY <1>6
  <2>3. actor[a].win = 0
    BY <1>6 DEF Sending, InPart
  <2>4. Credit \in [Workers -> Int] /\ Credit[a] <= 0
    BY <1>6, <2>2, <2>3, CreditIs DEF Credit
  <2>5. \A w \in Workers : Credit[w] <= window_thread_limit
    BY DEF Sending, InPart, Credit
  <2>6. Sum(Credit) <= window_thread_limit * NumThreads - window_thread_limit
    BY <1>1, <1>6, <2>4, <2>5, SumShort
  <2> QED BY <1>1, <1>4, <2>1, <2>6
<1>7. CASE a = Main /\ ~Shared
  <2>1. Held = actor[a].win + actor[a].got
    BY <1>7 DEF Held
  <2>2. actor[a].pc = "reclaim" => actor[a].win = 0
    BY <1>7 DEF Sending, AtLast
  <2> QED BY <1>1, <1>4, <1>5, <1>7, <2>1, <2>2
<1> QED BY <1>5, <1>6, <1>7

\* An actor stays well formed when its window grows.
LEMMA Refilled ==
  ASSUME NEW r \in SlmpRec, NEW k \in Int
  PROVE  [r EXCEPT !.pc = "send", !.win = k, !.got = 0] \in SlmpRec
<1>1. PICK e : e = [r EXCEPT !.pc = "send", !.win = k, !.got = 0]
  OBVIOUS
<1>2. e.pc = "send" /\ e.pkt = r.pkt /\ e.win = k /\ e.got = 0 /\ r.pkt \in Int
  BY <1>1 DEF SlmpRec
<1>3. e = [pc |-> e.pc, pkt |-> e.pkt, win |-> e.win, got |-> e.got]
  BY <1>1 DEF SlmpRec
<1>4. e \in SlmpRec
  BY <1>2, <1>3 DEF SlmpRec, SlmpPcs
<1> QED BY <1>1, <1>4

\* What was drained is added to the window.
LEMMA ReclaimKeeps ==
  ASSUME SlmpType, Sending, slmpFaults \in Nat, slmpFaults' \in Nat, slmpFaults <= slmpFaults',
         NEW a \in SlmpActors, actor[a].pc = "reclaim", NEW v \in Int, NEW y \in Int,
         Become(a, [actor[a] EXCEPT !.pc = "send", !.win = Reclaimed(a, v), !.got = 0]),
         UNCHANGED <<call, exit_flag, wire, rcvd, acks>>, queued' \in [good : Nat, bad : Nat],
         Replies' = Replies + y, v + y <= actor[a].got, slmpFaults' = 0 => v + y = actor[a].got,
         slmpFaults' = 0 /\ a # Main => v <= window_thread_limit
  PROVE  SlmpType' /\ Sending'
<1> DEFINE r == actor[a]
           e == [r EXCEPT !.pc = "send", !.win = r.win + v, !.got = 0]
<1>1. r \in SlmpRec /\ r.win \in Int /\ r.got \in Nat
  BY DEF SlmpType, SlmpRec
<1>2. e.pc = "send" /\ e.pkt = r.pkt /\ e.win = r.win + v /\ e.got = 0
  BY <1>1 DEF SlmpRec
<1>3. e \in SlmpRec
  <2>1. r.win + v \in Int
    BY <1>1
  <2> HIDE DEF r
  <2> QED BY <1>1, <2>1, Refilled
<1>4. Become(a, e)
  BY DEF Reclaimed
<1>5. slmpFaults' = 0 /\ a # Main => r.win = 0
  BY ActorsAre DEF Sending, InPart
<1> HIDE DEF e
<1> DEFINE x == v - r.got
<1>6. x \in Int /\ e.win + e.got = r.win + r.got + x /\ x + y <= 0 /\ (slmpFaults' = 0 => x + y = 0)
  BY <1>1, <1>2
<1>7. slmpFaults' = 0 /\ a # Main => e.win + e.got <= window_thread_limit
  BY <1>1, <1>2, <1>5
<1>8. Draining(a) /\ e.pc # "reclaim"
  BY <1>2 DEF Draining
<1> HIDE DEF x
<1> QED BY <1>2, <1>3, <1>4, <1>6, <1>7, <1>8, ReaderKeeps

\* With all credit back nothing is out, and everything has arrived.
LEMMA FinalEnds ==
  ASSUME SlmpType, Sending, actor[Main].pc = "final", Held + Replies >= window_total,
         Become(Main, [actor[Main] EXCEPT !.pc = "end"]),
         UNCHANGED <<call, exit_flag, wire, rcvd, acks>>, queued' \in [good : Nat, bad : Nat]
  PROVE  SlmpType' /\ AllDone'
<1>1. Cardinality(Out) = 0
  <2>1. Cardinality(Out) \in Nat /\ Held \in Int /\ Replies \in Nat /\ window_total \in Int
    BY OutFinite, CreditIs, WindowInt
  <2>2. Held + Cardinality(Out) + Replies <= window_total
    BY DEF Sending, Balance
  <2> QED BY <2>1, <2>2
<1>2. Out = {}
  BY <1>1, OutFinite, FS_EmptySet
<1>3. rcvd = Packets
  BY <1>2, AllSent DEF Out, SlmpType
<1> DEFINE e == [actor[Main] EXCEPT !.pc = "end"]
<1>4. e \in SlmpRec /\ e.pc = "end"
  BY ActorsAre DEF SlmpType, SlmpRec, SlmpPcs
<1>5. /\ actor' \in [SlmpActors -> SlmpRec] /\ actor'[Main] = e
      /\ \A b \in SlmpActors \ {Main} : actor'[b] = actor[b]
  BY <1>4, ActorsAre, OneActor
<1> HIDE DEF e
<1>6. Packets' = Packets /\ SlmpActors' = SlmpActors /\ Workers' = Workers /\ Main' = Main
  BY DEF Packets, SlmpActors, Workers, Main
<1>7. SlmpType'
  BY <1>5, <1>6 DEF SlmpType, SlmpRec, SlmpPcs
<1>8. \A w \in Workers : actor'[w].pc = "off"
  BY <1>5, ActorsAre DEF Sending, AtLast
<1> QED BY <1>3, <1>4, <1>5, <1>6, <1>7, <1>8 DEF AllDone, SlmpDone

\* An acknowledgement is read, by whom it may be.
LEMMA RecvAckKeeps ==
  ASSUME Acked, SlmpType, Sending, slmpFaults \in Nat, result = 0, NEW a \in SlmpActors, RecvAck(a)
  PROVE  /\ result' = 0 /\ SlmpType' /\ (Sending' \/ AllDone')
         /\ slmpFaults' = slmpFaults /\ queued'.bad = queued.bad
<1> DEFINE r == actor[a]  n == r.got + 1
<1>1. Draining(a) /\ r.got < to_expect(a) /\ queued.good > 0
  BY DEF RecvAck
<1>2. UNCHANGED <<call, wire, rcvd, acks, slmpFaults>>
  BY DEF RecvAck
<1>3. queued \in [good : Nat, bad : Nat] /\ acks \in Nat /\ r \in SlmpRec
  BY DEF SlmpType
<1>4. /\ queued' \in [good : Nat, bad : Nat] /\ queued'.bad = queued.bad /\ queued'.good = queued.good - 1
  <2>1. queued' = [queued EXCEPT !.good = @ - 1]
    BY DEF RecvAck
  <2> QED BY <1>1, <1>3, <2>1
<1>5. Replies' = Replies + (-1) /\ Replies \in Nat /\ Replies >= 1
  BY <1>1, <1>2, <1>3, <1>4 DEF Replies
<1>6. /\ to_expect(a) \in Int /\ r.got \in Nat /\ r.win \in Int
      /\ \/ r.pc = "reclaim" /\ a # Main /\ a \in Workers /\ to_expect(a) = window_thread_limit
         \/ r.pc = "reclaim" /\ a = Main /\ ~Shared /\ to_expect(a) = window_total
         \/ r.pc = "final" /\ a = Main /\ ~Shared /\ to_expect(a) = window_total - r.win
  BY <1>1, Expecting
<1>7. slmpFaults' \in Nat /\ slmpFaults <= slmpFaults' /\ -1 \in Int /\ n \in Int /\ n <= to_expect(a)
  BY <1>1, <1>2, <1>6
<1>8. slmpFaults = 0 /\ r.pc = "reclaim" => r.win = 0
  BY <1>6 DEF Sending, InPart, AtLast
<1>9. CASE n # to_expect(a)
  <2> DEFINE e == [r EXCEPT !.got = n]
  <2>1. Become(a, e) /\ UNCHANGED <<result, exit_flag>>
    BY <1>9 DEF RecvAck
  <2>2. e \in SlmpRec /\ e.pc = r.pc /\ e.pkt = r.pkt /\ e.win = r.win /\ e.got = n
    BY <1>3, <1>6 DEF SlmpRec
  <2> HIDE DEF e
  <2>3. e.win + e.got = r.win + r.got + 1
    BY <1>6, <2>2
  <2>4. slmpFaults' = 0 /\ a # Main => e.win + e.got <= window_thread_limit
    BY <1>2, <1>6, <1>7, <1>8, <2>2
  <2>5. slmpFaults' = 0 /\ e.pc = "reclaim" => e.win = 0
    BY <1>2, <1>8, <2>2
  <2>6. SlmpType' /\ Sending'
    <3>1. 1 \in Int /\ 1 + (-1) <= 0 /\ 1 + (-1) = 0
      OBVIOUS
    <3> HIDE DEF n
    <3> QED BY <1>1, <1>2, <1>4, <1>5, <1>7, <2>1, <2>2, <2>3, <2>4, <2>5, <3>1, ReaderKeeps
  <2> QED BY <1>2, <1>4, <2>1, <2>6
<1>10. CASE n = to_expect(a)
  <2>1. Drained(a, n)
    BY <1>10 DEF RecvAck
  <2>2. n # 0 /\ ~(n < to_expect(a))
    BY <1>6, <1>10
  <2>3. \/ /\ r.pc = "reclaim" /\ UNCHANGED <<result, exit_flag>>
           /\ Become(a, [r EXCEPT !.pc = "send", !.win = Reclaimed(a, n), !.got = 0])
        \/ /\ r.pc = "final" /\ UNCHANGED <<result, exit_flag>>
           /\ Become(a, [r EXCEPT !.pc = "end"])
    <3> HIDE DEF n
    <3> QED BY <1>1, <1>6, <2>1, <2>2, DrainedEffect
  <2>4. CASE /\ r.pc = "reclaim" /\ UNCHANGED <<result, exit_flag>>
             /\ Become(a, [r EXCEPT !.pc = "send", !.win = Reclaimed(a, n), !.got = 0])
    <3>1. n + (-1) <= r.got /\ n + (-1) = r.got
      BY <1>6
    <3>2. a # Main => n <= window_thread_limit
      BY <1>6, <1>7, <2>4
    <3> HIDE DEF n
    <3>3. SlmpType' /\ Sending'
      BY <1>2, <1>4, <1>5, <1>7, <2>4, <3>1, <3>2, ReclaimKeeps
    <3> QED BY <1>2, <1>4, <2>4, <3>3
  <2>5. CASE /\ r.pc = "final" /\ UNCHANGED <<result, exit_flag>>
             /\ Become(a, [r EXCEPT !.pc = "end"])
    <3>1. a = Main /\ Held = r.win + r.got /\ to_expect(a) = window_total - r.win
      BY <1>6, <2>5 DEF Held
    <3>2. Held + Replies >= window_total
      BY <1>5, <1>6, <1>10, <3>1, WindowInt
    <3>3. SlmpType' /\ AllDone'
      BY <1>2, <1>4, <2>5, <3>1, <3>2, FinalEnds
    <3> QED BY <1>2, <1>4, <2>5, <3>3
  <2> QED BY <2>3, <2>4, <2>5
<1> QED BY <1>9, <1>10

\* A malformed reply is read: one is missing from then on.
LEMMA RecvBadKeeps ==
  ASSUME Acked, SlmpType, Sending, slmpFaults \in Nat, result = 0, slmpFaults = 0 => queued.bad = 0,
         NEW a \in SlmpActors, RecvBad(a)
  PROVE  /\ slmpFaults' > 0 /\ slmpFaults' \in Nat
         /\ result' # 0 \/ (SlmpType' /\ Sending')
<1> DEFINE r == actor[a]
<1>1. Draining(a) /\ r.got < to_expect(a) /\ queued.bad > 0 /\ Drained(a, -1)
  BY DEF RecvBad
<1>2. UNCHANGED <<call, wire, rcvd, acks, slmpFaults>>
  BY DEF RecvBad
<1>3. queued \in [good : Nat, bad : Nat] /\ acks \in Nat /\ r \in SlmpRec
  BY DEF SlmpType
<1>4. queued' \in [good : Nat, bad : Nat] /\ queued'.bad = queued.bad - 1 /\ queued'.good = queued.good
  <2>1. queued' = [queued EXCEPT !.bad = @ - 1]
    BY DEF RecvBad
  <2> QED BY <1>1, <1>3, <2>1
<1>5. Replies' = Replies + (-1) /\ Replies \in Nat
  BY <1>1, <1>2, <1>3, <1>4 DEF Replies
<1>6. slmpFaults > 0 /\ slmpFaults' > 0 /\ slmpFaults' \in Nat /\ slmpFaults <= slmpFaults'
  BY <1>1, <1>2, <1>3
<1>7. /\ to_expect(a) \in Int /\ r.got \in Nat /\ r.pc # "synack"
  BY <1>1, Expecting
<1>8. -1 # 0 /\ -1 < to_expect(a) /\ -1 \in Int /\ -1 + (-1) <= r.got
  BY <1>1, <1>7
<1> DEFINE v == -1
<1>9. Drained(a, v) /\ v # 0 /\ v < to_expect(a) /\ v \in Int /\ v + v <= r.got /\ Replies' = Replies + v
  BY <1>1, <1>5, <1>8
<1> HIDE DEF v
<1>10. \/ result' = -1
       \/ /\ r.pc = "reclaim" /\ UNCHANGED <<result, exit_flag>>
          /\ Become(a, [r EXCEPT !.pc = "send", !.win = Reclaimed(a, v), !.got = 0])
  BY <1>1, <1>7, <1>9, DrainedEffect
<1>11. CASE /\ r.pc = "reclaim" /\ UNCHANGED <<result, exit_flag>>
            /\ Become(a, [r EXCEPT !.pc = "send", !.win = Reclaimed(a, v), !.got = 0])
  <2>1. slmpFaults' # 0
    BY <1>6
  <2>2. SlmpType' /\ Sending'
    BY <1>2, <1>4, <1>6, <1>9, <1>11, <2>1, ReclaimKeeps
  <2> QED BY <1>6, <2>2
<1>12. CASE result' = -1
  BY <1>6, <1>12
<1> QED BY <1>10, <1>11, <1>12

\* A drain that ends with what it has.
LEMMA DrainEnds ==
  ASSUME Acked, SlmpType, Sending, slmpFaults \in Nat, slmpFaults' \in Nat, slmpFaults <= slmpFaults',
         result = 0, NEW a \in SlmpActors, Draining(a), Drained(a, actor[a].got),
         UNCHANGED <<call, wire, rcvd, acks, queued>>
  PROVE  \/ /\ result' # 0
            /\ \/ actor[a].pc = "reclaim" /\ actor[a].got = 0
               \/ actor[a].pc = "final" /\ actor[a].got < to_expect(a)
         \/ result' = 0 /\ SlmpType' /\ (Sending' \/ AllDone')
<1> DEFINE r == actor[a]  n == r.got
<1>1. /\ to_expect(a) \in Int /\ r.got \in Nat /\ r.win \in Int
      /\ \/ r.pc = "reclaim" /\ a # Main /\ a \in Workers /\ to_expect(a) = window_thread_limit
         \/ r.pc = "reclaim" /\ a = Main /\ ~Shared /\ to_expect(a) = window_total
         \/ r.pc = "final" /\ a = Main /\ ~Shared /\ to_expect(a) = window_total - r.win
  BY Expecting
<1>2. queued' \in [good : Nat, bad : Nat] /\ Replies \in Nat /\ Replies' = Replies + 0
  BY CreditIs DEF SlmpType, Replies
<1>3. \/ /\ result' = -1
         /\ \/ r.pc = "reclaim" /\ r.got = 0
            \/ r.pc = "final" /\ r.got < to_expect(a)
      \/ /\ r.pc = "reclaim" /\ UNCHANGED <<result, exit_flag>>
         /\ Become(a, [r EXCEPT !.pc = "send", !.win = Reclaimed(a, n), !.got = 0])
      \/ /\ r.pc = "final" /\ ~(r.got < to_expect(a)) /\ UNCHANGED <<result, exit_flag>>
         /\ Become(a, [r EXCEPT !.pc = "end"])
  BY <1>1, DrainedEffect
<1>4. CASE /\ r.pc = "reclaim" /\ UNCHANGED <<result, exit_flag>>
           /\ Become(a, [r EXCEPT !.pc = "send", !.win = Reclaimed(a, n), !.got = 0])
  <2>1. n \in Int /\ 0 \in Int /\ n + 0 <= r.got /\ n + 0 = r.got
    BY <1>1
  <2>2. slmpFaults' = 0 /\ a # Main => n <= window_thread_limit
    <3>1. slmpFaults = 0 /\ a # Main => r.win + r.got <= window_thread_limit /\ r.win = 0
      BY <1>1, <1>4 DEF Sending, InPart
    <3> QED BY <1>1, <3>1
  <2>3. SlmpType' /\ Sending'
    BY <1>2, <1>4, <2>1, <2>2, ReclaimKeeps
  <2> QED BY <1>4, <2>3
<1>5. CASE /\ r.pc = "final" /\ ~(r.got < to_expect(a)) /\ UNCHANGED <<result, exit_flag>>
           /\ Become(a, [r EXCEPT !.pc = "end"])
  <2>1. a = Main /\ Held = r.win + r.got /\ to_expect(a) = window_total - r.win
    BY <1>1, <1>5 DEF Held
  <2>2. Held + Replies >= window_total
    BY <1>1, <1>2, <1>5, <2>1, WindowInt
  <2>3. SlmpType' /\ AllDone'
    BY <1>2, <1>5, <2>1, <2>2, FinalEnds
  <2> QED BY <1>5, <2>3
<1>6. CASE /\ result' = -1
           /\ \/ r.pc = "reclaim" /\ r.got = 0
              \/ r.pc = "final" /\ r.got < to_expect(a)
  BY <1>6
<1> QED BY <1>3, <1>4, <1>5, <1>6

\* A drain ends because it has enough.
LEMMA NoMoreKeeps ==
  ASSUME Acked, SlmpType, Sending, slmpFaults \in Nat, result = 0, NEW a \in SlmpActors, NoMore(a)
  PROVE  /\ result' = 0 /\ SlmpType' /\ (Sending' \/ AllDone')
         /\ UNCHANGED <<slmpFaults, queued>>
<1>1. Draining(a) /\ Drained(a, actor[a].got) /\ UNCHANGED <<call, wire, rcvd, acks, queued, slmpFaults>>
  BY DEF NoMore
<1>2. to_expect(a) <= 0 \/ (actor[a].pc = "reclaim" /\ actor[a].got > 0)
  BY DEF NoMore, need_all
<1>3. /\ window_thread_limit \in Nat \ {0} /\ window_total \in Nat \ {0}
  BY Windows, LenIs
<1>4. /\ to_expect(a) \in Int /\ actor[a].got \in Nat
      /\ actor[a].pc = "reclaim" => to_expect(a) > 0
  BY <1>1, <1>3, Expecting
<1>5. ~(actor[a].pc = "reclaim" /\ actor[a].got = 0) /\ ~(actor[a].pc = "final" /\ actor[a].got < to_expect(a))
  BY <1>2, <1>4
<1>6. slmpFaults' \in Nat /\ slmpFaults <= slmpFaults' /\ UNCHANGED <<call, wire, rcvd, acks, queued>>
  BY <1>1
<1>7. result' = 0 /\ SlmpType' /\ (Sending' \/ AllDone')
  BY <1>1, <1>5, <1>6, DrainEnds
<1> QED BY <1>1, <1>7

\* A drain ends because time is up.
LEMMA DeadlineKeeps ==
  ASSUME Acked, SlmpType, Sending, slmpFaults \in Nat, result = 0, NEW a \in SlmpActors, Deadline(a)
  PROVE  /\ slmpFaults' \in Nat /\ slmpFaults <= slmpFaults' /\ UNCHANGED queued
         /\ \/ result' # 0 /\ slmpFaults' > 0
            \/ result' = 0 /\ SlmpType' /\ (Sending' \/ AllDone')
<1>1. /\ Draining(a) /\ Drained(a, actor[a].got) /\ UNCHANGED <<call, wire, rcvd, acks, queued>>
      /\ SocketEmpty
  BY DEF Deadline
<1>2. IF wire = {} /\ acks = 0 THEN slmpFaults' = slmpFaults ELSE slmpFaults' = slmpFaults + 1
  BY DEF Deadline, SlmpFault
<1>3. slmpFaults' \in Nat /\ slmpFaults <= slmpFaults' /\ (slmpFaults' = 0 => slmpFaults = 0 /\ wire = {} /\ acks = 0)
  BY <1>2
<1>4. \/ /\ result' # 0
         /\ \/ actor[a].pc = "reclaim" /\ actor[a].got = 0
            \/ actor[a].pc = "final" /\ actor[a].got < to_expect(a)
      \/ result' = 0 /\ SlmpType' /\ (Sending' \/ AllDone')
  BY <1>1, <1>3, DrainEnds
<1>5. CASE slmpFaults' = 0
  <2>1. /\ actor[a].pc = "reclaim" => actor[a].got # 0
        /\ actor[a].pc = "final" => ~(actor[a].got < to_expect(a))
    BY <1>1, <1>3, <1>5, Starved
  <2> QED BY <1>1, <1>3, <1>4, <2>1
<1>6. CASE slmpFaults' # 0
  BY <1>1, <1>3, <1>4, <1>6
<1> QED BY <1>5, <1>6

\* The network moves packets and replies.
LEMMA NetworkMoves ==
  ASSUME SlmpType, UNCHANGED <<call, actor, exit_flag>>, acks' \in Nat, queued' \in [good : Nat, bad : Nat],
         rcvd' \subseteq Packets, wire' \subseteq wire,
         slmpFaults \in Nat, slmpFaults' \in Nat, slmpFaults <= slmpFaults'
  PROVE  /\ SlmpType' /\ Held' = Held + 0 /\ \A p : IsSent(p)' <=> IsSent(p)
         /\ Sending => AtLast' /\ \A w \in Workers : InPart(w)'
<1>1. Packets' = Packets /\ SlmpActors' = SlmpActors /\ Workers' = Workers /\ Main' = Main
  BY DEF Packets, SlmpActors, Workers, Main
<1>2. SlmpType'
  BY <1>1 DEF SlmpType, SlmpRec, SlmpPcs
<1>3. Held' = Held + 0
  <2>1. Held' = Held /\ Held \in Int
    BY <1>1, CreditIs DEF Held, Credit, Shared, Sum, PartialSums
  <2> QED BY <2>1
<1>4. \A p : IsSent(p)' <=> IsSent(p)
  BY SameSent
<1>5. Sending => AtLast'
  <2>1. slmpFaults' = 0 => slmpFaults = 0
    OBVIOUS
  <2> QED BY <1>1, <2>1 DEF Sending, AtLast
<1>6. Sending => \A w \in Workers : InPart(w)'
  BY AtWorkStays DEF Sending
<1> QED BY <1>2, <1>3, <1>4, <1>5, <1>6

\* A packet arrives and is acknowledged.
LEMMA ArriveKeeps ==
  ASSUME Acked, SlmpType, Sending, slmpFaults \in Nat, NEW m \in wire, Arrive(m)
  PROVE  SlmpType' /\ Sending'
<1> DEFINE p == m.pkt
<1>1. m \in [pkt : Packets, syn : {TRUE}] /\ m.pkt \in Packets /\ m.syn = TRUE
  BY DEF SlmpType
<1>2. /\ wire' = wire \ {m} /\ rcvd' = rcvd \union {p} /\ acks' = acks + 1
      /\ UNCHANGED <<call, actor, result, exit_flag, queued, slmpFaults>>
  BY <1>1 DEF Arrive
<1>3. /\ rcvd \subseteq Packets /\ acks \in Nat /\ queued \in [good : Nat, bad : Nat]
  BY DEF SlmpType
<1>4. rcvd' \subseteq Packets /\ wire' \subseteq wire /\ acks' \in Nat /\ queued' \in [good : Nat, bad : Nat]
      /\ slmpFaults' \in Nat /\ slmpFaults <= slmpFaults'
  BY <1>1, <1>2, <1>3
<1>5. /\ SlmpType' /\ Held' = Held + 0 /\ (\A k : IsSent(k)' <=> IsSent(k))
      /\ AtLast' /\ \A w \in Workers : InPart(w)'
  BY <1>2, <1>4, NetworkMoves
<1>6. p \in Out
  BY DEF Sending, Balance
<1>7. Packets' = Packets
  BY <1>2 DEF Packets
<1>8. Out' = Out \ {p}
  BY <1>2, <1>5, <1>7 DEF Out
<1>9. /\ Cardinality(Out) \in Nat /\ Held \in Int /\ Replies \in Nat /\ IsFiniteSet(Out)
  BY OutFinite, CreditIs
<1>10. Cardinality(Out') = Cardinality(Out) - 1
  BY <1>6, <1>8, <1>9, FS_RemoveElement
<1>11. Replies' = Replies + 1
  BY <1>2, <1>3 DEF Replies
<1>12. Held' + Cardinality(Out') + Replies' = Held + Cardinality(Out) + Replies
  BY <1>5, <1>9, <1>10, <1>11
<1>13. window_total' = window_total
  BY <1>2 DEF window_total, window_thread_limit
<1>14. \A k \in wire' : k.pkt \in Out'
  <2> TAKE k \in wire'
  <2>1. k \in wire /\ k # m /\ k.pkt \in Out
    BY <1>2 DEF Sending, Balance
  <2>2. k.pkt # m.pkt
    <3>1. k \in [pkt : Packets, syn : {TRUE}]
      BY <2>1 DEF SlmpType
    <3>2. \A i, j \in [pkt : Packets, syn : {TRUE}] : i.pkt = j.pkt => i = j
      <4>1. ASSUME NEW i \in [pkt : Packets, syn : {TRUE}]
            PROVE  i = [pkt |-> i.pkt, syn |-> i.syn] /\ i.syn \in {TRUE}
        OBVIOUS
      <4>2. \A i, j \in [pkt : Packets, syn : {TRUE}] : i.syn = j.syn
        BY <4>1, Zenon
      <4> QED BY <4>1, <4>2, Zenon
    <3> QED BY <1>1, <2>1, <3>1, <3>2
  <2> QED BY <1>8, <2>1, <2>2
<1>15. slmpFaults' = 0 => \A k \in Out' : [pkt |-> k, syn |-> TRUE] \in wire'
  <2> SUFFICES ASSUME slmpFaults' = 0, NEW k \in Out' PROVE [pkt |-> k, syn |-> TRUE] \in wire'
    OBVIOUS
  <2>1. k \in Out /\ k # p
    BY <1>8
  <2>2. [pkt |-> k, syn |-> TRUE] \in wire
    BY <1>2, <2>1 DEF Sending, Balance
  <2> QED BY <1>2, <2>1, <2>2
<1>16. 0 \in rcvd' /\ \A k \in rcvd' : IsSent(k)'
  BY <1>2, <1>5, <1>6 DEF Sending, Balance, Out
<1>17. /\ Held' + Cardinality(Out') + Replies' <= window_total'
       /\ slmpFaults' = 0 => Held' + Cardinality(Out') + Replies' = window_total'
  BY <1>2, <1>12, <1>13 DEF Sending, Balance
<1>18. Balance'
  BY <1>14, <1>15, <1>16, <1>17 DEF Balance
<1> QED BY <1>5, <1>18 DEF Sending, Workers

\* A packet is lost: it stays out.
LEMMA LoseKeeps ==
  ASSUME SlmpType, Sending, slmpFaults \in Nat, NEW m \in wire, Lose(m)
  PROVE  SlmpType' /\ Sending'
<1>1. /\ wire' = wire \ {m} /\ slmpFaults' = slmpFaults + 1
      /\ UNCHANGED <<call, actor, result, exit_flag, rcvd, acks, queued>>
  BY DEF Lose, SlmpFault
<1>2. rcvd' \subseteq Packets /\ wire' \subseteq wire /\ acks' \in Nat /\ queued' \in [good : Nat, bad : Nat]
      /\ slmpFaults' \in Nat /\ slmpFaults <= slmpFaults' /\ slmpFaults' # 0
  BY <1>1 DEF SlmpType
<1>3. /\ SlmpType' /\ Held' = Held + 0 /\ (\A k : IsSent(k)' <=> IsSent(k))
      /\ AtLast' /\ \A w \in Workers : InPart(w)'
  BY <1>1, <1>2, NetworkMoves
<1>4. Packets' = Packets /\ Replies' = Replies /\ window_total' = window_total
  BY <1>1 DEF Packets, Replies, window_total, window_thread_limit
<1>5. Out' = Out
  BY <1>1, <1>3, <1>4 DEF Out
<1>6. Held' = Held
  BY <1>3, CreditIs
<1>7. /\ 0 \in rcvd' /\ \A k \in rcvd' : IsSent(k)'
      /\ \A k \in wire' : k.pkt \in Out'
  BY <1>1, <1>3, <1>5 DEF Sending, Balance
<1>8. Held' + Cardinality(Out') + Replies' <= window_total'
  BY <1>4, <1>5, <1>6 DEF Sending, Balance
<1>9. Balance'
  BY <1>2, <1>7, <1>8 DEF Balance
<1> QED BY <1>3, <1>9 DEF Sending, Workers

\* What a reply becomes.
LEMMA AckMoves ==
  ASSUME SlmpType, slmpFaults \in Nat, slmpFaults = 0 => queued.bad = 0,
         NEW how \in {"good", "bad", "lost"}, AckArrives(how)
  PROVE  /\ acks' \in Nat /\ queued' \in [good : Nat, bad : Nat] /\ acks > 0 /\ acks' = acks - 1
         /\ slmpFaults' \in Nat /\ slmpFaults <= slmpFaults' /\ (slmpFaults' = 0 => queued'.bad = 0)
         /\ UNCHANGED <<call, actor, result, exit_flag, wire, rcvd>>
         /\ \/ Replies' = Replies + 0
            \/ Replies' = Replies + (-1) /\ slmpFaults' > 0
<1>1. acks > 0 /\ acks' = acks - 1 /\ UNCHANGED <<call, actor, result, exit_flag, wire, rcvd>>
  BY DEF AckArrives
<1>2. acks \in Nat /\ queued \in [good : Nat, bad : Nat] /\ queued.good \in Nat /\ queued.bad \in Nat
  BY DEF SlmpType
<1>3. CASE how = "good"
  <2>1. slmpFaults' = slmpFaults /\ queued' = [queued EXCEPT !.good = @ + 1]
    BY <1>3 DEF AckArrives
  <2>2. queued' \in [good : Nat, bad : Nat] /\ queued'.good = queued.good + 1 /\ queued'.bad = queued.bad
    BY <1>2, <2>1
  <2> QED BY <1>1, <1>2, <2>1, <2>2 DEF Replies
<1>4. CASE how = "bad"
  <2>1. slmpFaults' = slmpFaults + 1 /\ queued' = [queued EXCEPT !.bad = @ + 1]
    BY <1>4 DEF AckArrives, SlmpFault
  <2>2. queued' \in [good : Nat, bad : Nat] /\ queued'.good = queued.good /\ queued'.bad = queued.bad + 1
    BY <1>2, <2>1
  <2> QED BY <1>1, <1>2, <2>1, <2>2 DEF Replies
<1>5. CASE how = "lost"
  <2>1. slmpFaults' = slmpFaults + 1 /\ queued' = queued
    BY <1>5 DEF AckArrives, SlmpFault
  <2> QED BY <1>1, <1>2, <2>1 DEF Replies
<1> QED BY <1>3, <1>4, <1>5

\* A reply gets to the socket, or is lost.
LEMMA AckKeeps ==
  ASSUME SlmpType, Sending, slmpFaults \in Nat, slmpFaults = 0 => queued.bad = 0,
         NEW how \in {"good", "bad", "lost"}, AckArrives(how)
  PROVE  SlmpType' /\ Sending'
<1>1. /\ acks' \in Nat /\ queued' \in [good : Nat, bad : Nat]
      /\ slmpFaults' \in Nat /\ slmpFaults <= slmpFaults'
      /\ UNCHANGED <<call, actor, result, exit_flag, wire, rcvd>>
      /\ \/ Replies' = Replies + 0
         \/ Replies' = Replies + (-1) /\ slmpFaults' > 0
  BY AckMoves
<1>2. rcvd' \subseteq Packets /\ wire' \subseteq wire
  BY <1>1 DEF SlmpType
<1>3. /\ SlmpType' /\ Held' = Held + 0 /\ (\A k : IsSent(k)' <=> IsSent(k))
      /\ AtLast' /\ \A w \in Workers : InPart(w)'
  BY <1>1, <1>2, NetworkMoves
<1>4. Balance'
  <2>1. PICK y \in {0, -1} : Replies' = Replies + y /\ (slmpFaults' = 0 => y = 0)
    BY <1>1
  <2>2. 0 \in Int /\ y \in Int /\ 0 + y <= 0 /\ (slmpFaults' = 0 => 0 + y = 0)
    BY <2>1
  <2> QED BY <1>1, <1>3, <2>1, <2>2, BalanceMoves DEF Sending
<1> QED BY <1>3, <1>4 DEF Sending, Workers

\* Before the threads start only the caller acts, on the first packet.
LEMMA OpeningActors ==
  ASSUME NEW pc \in SlmpPcs, Alone(pc)
  PROVE  /\ actor[Main] = Actor(pc) /\ actor[Main].pc = pc /\ actor[Main].got = 0
         /\ \A w \in Workers : actor[w].pc = "off"
BY DEF Alone, Actor

\* The caller stays alone while nobody acts.
LEMMA AloneStays ==
  ASSUME NEW pc, Alone(pc), UNCHANGED actor
  PROVE  Alone(pc)'
BY DEF Alone, Actor, Main, Workers

\* The caller stays alone when it goes on.
LEMMA AloneMoves ==
  ASSUME SlmpType, NEW pc \in SlmpPcs, NEW to \in SlmpPcs, Alone(pc),
         Become(Main, [actor[Main] EXCEPT !.pc = to])
  PROVE  Alone(to)' /\ actor' \in [SlmpActors -> SlmpRec]
<1>1. [actor[Main] EXCEPT !.pc = to] = Actor(to)
  BY DEF Alone, Actor
<1>2. Actor(to) \in SlmpRec
  BY DEF Actor, SlmpRec
<1>3. /\ actor' \in [SlmpActors -> SlmpRec] /\ actor'[Main] = Actor(to)
      /\ \A b \in SlmpActors \ {Main} : actor'[b] = actor[b]
  BY <1>1, <1>2, ActorsAre, OneActor
<1>4. \A w \in Workers : actor'[w] = Actor("off")
  BY <1>3, ActorsAre DEF Alone
<1>5. Alone(to)'
  BY <1>3, <1>4 DEF Alone, Actor, Main, Workers
<1> QED BY <1>3, <1>5

\* At first only the caller drains, for one reply.
LEMMA OpeningPcs ==
  ASSUME SlmpType, Opening
  PROVE  /\ actor[Main].pc \in {"syn", "synack", "fork"} /\ actor[Main].got = 0
         /\ \A w \in Workers : actor[w].pc = "off"
         /\ \A a \in SlmpActors : Draining(a) => a = Main /\ actor[Main].pc = "synack" /\ to_expect(a) = 1
<1>1. "syn" \in SlmpPcs /\ "synack" \in SlmpPcs /\ "fork" \in SlmpPcs
  BY DEF SlmpPcs
<1>2. PICK pc \in {"syn", "synack", "fork"} : Alone(pc)
  BY DEF Opening
<1>3. actor[Main].pc = pc /\ actor[Main].got = 0 /\ \A w \in Workers : actor[w].pc = "off"
  BY <1>1, <1>2, OpeningActors
<1>4. ASSUME NEW a \in SlmpActors, Draining(a)
      PROVE  a = Main /\ actor[Main].pc = "synack" /\ to_expect(a) = 1
  <2>1. a = Main
    BY <1>3, <1>4, ActorsAre DEF Draining
  <2>2. actor[Main].pc = "synack"
    BY <1>2, <1>3, <1>4, <2>1 DEF Draining
  <2> QED BY <2>1, <2>2 DEF to_expect
<1> QED BY <1>2, <1>3, <1>4

\* The first packet is sent.
LEMMA SendSynKeeps ==
  ASSUME SlmpType, Opening, SendSyn
  PROVE  SlmpType' /\ Opening'
<1>1. /\ actor[Main].pc = "syn" /\ wire' = wire \union {[pkt |-> 0, syn |-> TRUE]}
      /\ Become(Main, [actor[Main] EXCEPT !.pc = "synack"])
      /\ UNCHANGED <<call, result, exit_flag, rcvd, acks, queued, slmpFaults>>
  BY DEF SendSyn, SendPacket
<1>2. "syn" \in SlmpPcs /\ "synack" \in SlmpPcs /\ "fork" \in SlmpPcs
  BY DEF SlmpPcs
<1>3. Alone("syn") /\ wire = {} /\ rcvd = {} /\ Replies = 0
  BY <1>1, <1>2, OpeningActors DEF Opening
<1>4. Alone("synack")' /\ actor' \in [SlmpActors -> SlmpRec]
  BY <1>1, <1>2, <1>3, AloneMoves
<1>5. Packets' = Packets /\ SlmpActors' = SlmpActors /\ 0 \in Packets
  BY <1>1, LenIs DEF Packets, SlmpActors, Main, Workers
<1>6. wire' = {[pkt |-> 0, syn |-> TRUE]} /\ [pkt |-> 0, syn |-> TRUE] \in [pkt : Packets, syn : {TRUE}]
  BY <1>1, <1>3, <1>5
<1>7. SlmpType'
  BY <1>1, <1>4, <1>5, <1>6 DEF SlmpType, SlmpRec, SlmpPcs
<1>8. rcvd' = {} /\ Replies' = 0
  BY <1>1, <1>3 DEF Replies
<1> QED BY <1>4, <1>6, <1>7, <1>8 DEF Opening

\* A reply to the first packet, good or not, says that it arrived.
LEMMA SynAcked ==
  ASSUME SlmpType, Opening, slmpFaults \in Nat, NEW a \in SlmpActors, Draining(a), NEW v, v # 0, Drained(a, v),
         UNCHANGED <<call, wire, rcvd, acks, slmpFaults>>, queued' \in [good : Nat, bad : Nat],
         Replies' = Replies + (-1), Replies' \in Nat
  PROVE  SlmpType' /\ Opening' /\ result' = result
<1>1. a = Main /\ actor[Main].pc = "synack"
  BY OpeningPcs
<1>2. Become(a, [actor[a] EXCEPT !.pc = "fork"]) /\ UNCHANGED <<result, exit_flag>>
  BY <1>1, DrainedEffect
<1>3. "syn" \in SlmpPcs /\ "synack" \in SlmpPcs /\ "fork" \in SlmpPcs
  BY DEF SlmpPcs
<1>4. Replies \in Nat /\ Replies # 0
  BY CreditIs
<1>5. Alone("synack") /\ wire = {} /\ rcvd = {0} /\ Replies <= 1
  BY <1>1, <1>3, <1>4, OpeningActors DEF Opening
<1>6. Alone("fork")' /\ actor' \in [SlmpActors -> SlmpRec]
  BY <1>1, <1>2, <1>3, <1>5, AloneMoves
<1>7. Packets' = Packets /\ SlmpActors' = SlmpActors
  BY DEF Packets, SlmpActors, Main, Workers
<1>8. SlmpType'
  BY <1>2, <1>6, <1>7 DEF SlmpType, SlmpRec, SlmpPcs
<1>9. Replies' = 0
  BY <1>4, <1>5
<1> QED BY <1>2, <1>5, <1>6, <1>8, <1>9 DEF Opening

\* The reply to the first packet is read.
LEMMA SynRecvKeeps ==
  ASSUME SlmpType, Opening, slmpFaults \in Nat, NEW a \in SlmpActors, RecvAck(a) \/ RecvBad(a)
  PROVE  /\ SlmpType' /\ Opening' /\ result' = result /\ UNCHANGED slmpFaults
         /\ queued.bad = 0 => queued'.bad = 0
<1>1. Draining(a) /\ UNCHANGED <<call, wire, rcvd, acks, slmpFaults>>
  BY DEF RecvAck, RecvBad
<1>2. actor[a].got = 0 /\ to_expect(a) = 1
  BY <1>1, OpeningPcs
<1>3. queued \in [good : Nat, bad : Nat] /\ queued.good \in Nat /\ queued.bad \in Nat /\ acks \in Nat
  BY DEF SlmpType
<1>4. CASE RecvAck(a)
  <2>1. queued.good > 0 /\ queued' = [queued EXCEPT !.good = @ - 1] /\ Drained(a, 1)
    BY <1>2, <1>4 DEF RecvAck
  <2>2. queued' \in [good : Nat, bad : Nat] /\ queued'.good = queued.good - 1 /\ queued'.bad = queued.bad
    BY <1>3, <2>1
  <2>3. Replies' = Replies + (-1) /\ Replies' \in Nat
    BY <1>1, <1>3, <2>1, <2>2 DEF Replies
  <2>4. 1 # 0
    OBVIOUS
  <2>5. SlmpType' /\ Opening' /\ result' = result
    BY <1>1, <2>1, <2>2, <2>3, <2>4, SynAcked
  <2> QED BY <1>1, <2>2, <2>5
<1>5. CASE RecvBad(a)
  <2> DEFINE v == -1
  <2>1. queued.bad > 0 /\ queued' = [queued EXCEPT !.bad = @ - 1] /\ Drained(a, v) /\ v # 0
    BY <1>5 DEF RecvBad
  <2> HIDE DEF v
  <2>2. queued' \in [good : Nat, bad : Nat] /\ queued'.good = queued.good /\ queued'.bad = queued.bad - 1
    BY <1>3, <2>1
  <2>3. Replies' = Replies + (-1) /\ Replies' \in Nat
    BY <1>1, <1>3, <2>1, <2>2 DEF Replies
  <2>4. SlmpType' /\ Opening' /\ result' = result
    BY <1>1, <2>1, <2>2, <2>3, SynAcked
  <2> QED BY <1>1, <1>3, <2>1, <2>4
<1> QED BY <1>4, <1>5

\* The first packet is given up on only when something was lost or late.
LEMMA SynGivenUp ==
  ASSUME SlmpType, Opening, slmpFaults \in Nat, slmpFaults = 0 => queued.bad = 0,
         NEW a \in SlmpActors, NoMore(a) \/ Deadline(a)
  PROVE  result' # 0 /\ slmpFaults' \in Nat /\ slmpFaults' > 0
<1>1. Draining(a) /\ Drained(a, actor[a].got)
  BY DEF NoMore, Deadline
<1>2. a = Main /\ actor[Main].pc = "synack" /\ actor[a].got = 0 /\ to_expect(a) = 1
  BY <1>1, OpeningPcs
<1>3. Deadline(a)
  BY <1>2 DEF NoMore, need_all
<1>4. result' # 0
  <2>1. result' = -2
    BY <1>1, <1>2, DrainedEffect
  <2> QED BY <2>1
<1>5. SocketEmpty /\ (IF wire = {} /\ acks = 0 THEN slmpFaults' = slmpFaults ELSE slmpFaults' = slmpFaults + 1)
  BY <1>3 DEF Deadline, SlmpFault
<1>6. CASE wire = {} /\ acks = 0
  <2>1. Replies = 0
    BY <1>5, <1>6 DEF Replies, SocketEmpty
  <2>2. ~Alone("syn") /\ ~Alone("fork")
    BY <1>2, OpeningActors DEF SlmpPcs
  <2>3. slmpFaults > 0
    <3>1. slmpFaults > 0 \/ (slmpFaults = 0 => Replies = 1)
      BY <1>6, <2>2 DEF Opening
    <3> QED BY <2>1, <3>1
  <2> QED BY <1>4, <1>5, <1>6, <2>3
<1>7. CASE ~(wire = {} /\ acks = 0)
  BY <1>4, <1>5, <1>7
<1> QED BY <1>6, <1>7

\* The first packet and its reply travel.
LEMMA SynNetworkKeeps ==
  ASSUME SlmpType, Opening, slmpFaults \in Nat, slmpFaults = 0 => queued.bad = 0, Network
  PROVE  /\ SlmpType' /\ Opening' /\ slmpFaults' \in Nat /\ UNCHANGED result
         /\ slmpFaults' = 0 => queued'.bad = 0
<1>1. "syn" \in SlmpPcs /\ "synack" \in SlmpPcs /\ "fork" \in SlmpPcs
  BY DEF SlmpPcs
<1>2. acks \in Nat /\ queued \in [good : Nat, bad : Nat] /\ queued.good \in Nat /\ queued.bad \in Nat
      /\ Replies \in Nat /\ 0 \in Packets
  <2>1. 0 \in Packets
    BY LenIs DEF Packets
  <2>2. acks \in Nat /\ queued \in [good : Nat, bad : Nat]
    BY DEF SlmpType
  <2> QED BY <2>1, <2>2, CreditIs
<1>3. ASSUME NEW m \in wire, Arrive(m) \/ Lose(m)
      PROVE  /\ SlmpType' /\ Opening' /\ slmpFaults' \in Nat /\ UNCHANGED result
             /\ slmpFaults' = 0 => queued'.bad = 0
  <2>1. Alone("synack") /\ wire = {[pkt |-> 0, syn |-> TRUE]} /\ rcvd = {} /\ Replies = 0
    BY <1>3 DEF Opening
  <2>2. m = [pkt |-> 0, syn |-> TRUE]
    BY <2>1
  <2>3. wire' = {} /\ UNCHANGED <<call, actor, result, exit_flag, queued>>
    BY <1>3, <2>1, <2>2 DEF Arrive, Lose
  <2>4. CASE Arrive(m)
    <3>1. m.pkt = 0 /\ m.syn = TRUE
      BY <2>2
    <3>2. rcvd' = {0} /\ acks' = acks + 1 /\ slmpFaults' = slmpFaults
      BY <2>1, <2>4, <3>1 DEF Arrive
    <3>3. Replies' = 1 /\ acks' \in Nat
      BY <1>2, <2>1, <2>3, <3>2 DEF Replies
    <3>4. rcvd' \subseteq Packets /\ wire' \subseteq wire /\ slmpFaults' \in Nat /\ slmpFaults <= slmpFaults'
          /\ queued' \in [good : Nat, bad : Nat]
      BY <1>2, <2>3, <3>2
    <3>5. SlmpType'
      BY <2>3, <3>3, <3>4, NetworkMoves
    <3>6. Alone("synack")'
      BY <2>1, <2>3, AloneStays
    <3>7. Opening'
      BY <2>3, <3>2, <3>3, <3>6 DEF Opening
    <3> QED BY <2>3, <3>2, <3>4, <3>5, <3>7
  <2>5. CASE Lose(m)
    <3>1. rcvd' = {} /\ acks' = acks /\ slmpFaults' = slmpFaults + 1
      BY <2>1, <2>5 DEF Lose, SlmpFault
    <3>2. Replies' = 0
      BY <2>1, <2>3, <3>1 DEF Replies
    <3>3. rcvd' \subseteq Packets /\ wire' \subseteq wire /\ slmpFaults' \in Nat /\ slmpFaults <= slmpFaults'
          /\ queued' \in [good : Nat, bad : Nat] /\ acks' \in Nat /\ slmpFaults' > 0 /\ slmpFaults' # 0
      BY <1>2, <2>3, <3>1
    <3>4. SlmpType'
      BY <2>3, <3>3, NetworkMoves
    <3>5. Alone("synack")'
      BY <2>1, <2>3, AloneStays
    <3>6. Opening'
      BY <2>3, <3>1, <3>2, <3>3, <3>5 DEF Opening
    <3> QED BY <2>3, <3>3, <3>4, <3>6
  <2> QED BY <1>3, <2>4, <2>5
<1>4. ASSUME NEW how \in {"good", "bad", "lost"}, AckArrives(how)
      PROVE  /\ SlmpType' /\ Opening' /\ slmpFaults' \in Nat /\ UNCHANGED result
             /\ slmpFaults' = 0 => queued'.bad = 0
  <2>1. /\ acks' \in Nat /\ queued' \in [good : Nat, bad : Nat] /\ acks > 0
        /\ slmpFaults' \in Nat /\ slmpFaults <= slmpFaults' /\ (slmpFaults' = 0 => queued'.bad = 0)
        /\ UNCHANGED <<call, actor, result, exit_flag, wire, rcvd>>
        /\ \/ Replies' = Replies + 0
           \/ Replies' = Replies + (-1) /\ slmpFaults' > 0
    BY <1>4, AckMoves
  <2>2. Replies # 0
    BY <1>2, <2>1 DEF Replies
  <2>3. Alone("synack") /\ wire = {} /\ rcvd = {0} /\ Replies <= 1 /\ (slmpFaults = 0 => Replies = 1)
    BY <2>2 DEF Opening
  <2>4. rcvd' \subseteq Packets /\ wire' \subseteq wire
    BY <2>1 DEF SlmpType
  <2>5. SlmpType'
    BY <2>1, <2>4, NetworkMoves
  <2>6. Alone("synack")'
    BY <2>1, <2>3, AloneStays
  <2>7. Replies' <= 1 /\ (slmpFaults' = 0 => Replies' = 1)
    BY <1>2, <2>1, <2>3
  <2>8. Opening'
    BY <2>1, <2>3, <2>6, <2>7 DEF Opening
  <2> QED BY <2>1, <2>5, <2>8
<1> QED BY <1>3, <1>4 DEF Network

\* The threads start with all of the window and nothing sent.
LEMMA ForkKeeps ==
  ASSUME Acked, SlmpType, Opening, slmpFaults \in Nat, Fork
  PROVE  SlmpType' /\ Sending'
<1>1. UNCHANGED <<call, result, exit_flag, wire, rcvd, acks, queued, slmpFaults>>
  BY DEF Fork
<1>2. wire = {} /\ rcvd = {0} /\ Replies = 0
  <2>1. actor[Main].pc = "fork"
    BY DEF Fork
  <2>2. ~Alone("syn") /\ ~Alone("synack")
    BY <2>1, OpeningActors DEF SlmpPcs
  <2> QED BY <2>2 DEF Opening
<1>3. /\ window_thread_limit \in Nat \ {0} /\ window_total = window_thread_limit * NumThreads
      /\ call.len \in Nat \ {0}
  BY Windows, LenIs
<1>4. \A w \in Workers : /\ Part(w).first \in Nat \ {0} /\ Part(w).last \in Nat
                         /\ Part(w).first <= Part(w).last + 1
  BY <1>3, PartBounds
<1> DEFINE New(w) == [pc |-> "next", pkt |-> Part(w).first, win |-> window_thread_limit, got |-> 0]
<1>5. actor' = [a \in SlmpActors |-> IF a = Main THEN Actor("join") ELSE New(a)]
  BY DEF Fork, SlmpActors
<1>6. Actor("join") \in SlmpRec /\ Actor("join").pc = "join" /\ Actor("join").got = 0
  BY DEF Actor, SlmpRec, SlmpPcs
<1>7. \A w \in Workers : New(w) \in SlmpRec
  BY <1>3, <1>4 DEF SlmpRec, SlmpPcs
<1>8. /\ actor'[Main] = Actor("join")
      /\ \A w \in Workers : /\ actor'[w].pc = "next" /\ actor'[w].pkt = Part(w).first
                             /\ actor'[w].win = window_thread_limit /\ actor'[w].got = 0
  <2>1. \A w \in Workers : /\ New(w).pc = "next" /\ New(w).pkt = Part(w).first
                            /\ New(w).win = window_thread_limit /\ New(w).got = 0
    OBVIOUS
  <2> HIDE DEF New
  <2>2. actor'[Main] = Actor("join") /\ \A w \in Workers : actor'[w] = New(w)
    BY <1>5, ActorsAre
  <2> QED BY <2>1, <2>2
<1>9. actor' \in [SlmpActors -> SlmpRec]
  BY <1>5, <1>6, <1>7, ActorsAre
<1>10. Packets' = Packets /\ SlmpActors' = SlmpActors /\ Workers' = Workers /\ Main' = Main
  BY <1>1 DEF Packets, SlmpActors, Workers, Main
<1>11. SlmpType'
  BY <1>1, <1>9, <1>10 DEF SlmpType, SlmpRec, SlmpPcs
<1>12. AtLast'
  BY <1>6, <1>8, <1>10 DEF AtLast
<1>13. window_thread_limit' = window_thread_limit /\ window_total' = window_total
       /\ (\A w \in Workers : Part(w)' = Part(w)) /\ Replies' = 0
  BY <1>1, <1>2 DEF window_total, window_thread_limit, Part, Middle, Replies
<1>14. \A w \in Workers : InPart(w)'
  <2> TAKE w \in Workers
  <2>1. /\ actor'[w].pc = "next" /\ actor'[w].pkt = Part(w).first /\ actor'[w].win = window_thread_limit
        /\ actor'[w].got = 0
    BY <1>8
  <2>2. Part(w).first <= Part(w).first /\ window_thread_limit + 0 <= window_thread_limit
    BY <1>3, <1>4
  <2> QED BY <1>4, <1>13, <2>1, <2>2 DEF InPart
<1>15. Held' = window_total
  <2>1. Credit' = [w \in Workers |-> window_thread_limit]
    <3>1. \A w \in Workers : actor'[w].win + actor'[w].got = window_thread_limit
      BY <1>3, <1>8
    <3>2. Credit' = [w \in Workers |-> actor'[w].win + actor'[w].got]
      BY DEF Credit, Workers
    <3> QED BY <3>1, <3>2
  <2>2. Shared'
    BY <1>6, <1>8, <1>10 DEF Shared
  <2>3. Held' = Sum(Credit')
    BY <2>2 DEF Held, Sum, PartialSums, Workers
  <2>4. window_thread_limit \in Int
    BY <1>3
  <2>5. Sum([w \in Workers |-> window_thread_limit]) = window_thread_limit * NumThreads
    BY <2>4, SumConst
  <2> QED BY <1>3, <2>1, <2>3, <2>5
<1>16. \A p \in Packets : IsSent(p)' => p = 0
  <2> SUFFICES ASSUME NEW p \in Packets, IsSent(p)' PROVE p = 0
    OBVIOUS
  <2>1. actor'[Main].pc # "final"
    BY <1>6, <1>8
  <2>2. ASSUME NEW w \in Workers, Part(w)'.first <= p, p < actor'[w].pkt PROVE FALSE
    <3>1. Part(w).first <= p /\ p < Part(w).first /\ p \in Int /\ Part(w).first \in Int
      BY <1>4, <1>8, <1>13, <2>2, OutFinite
    <3> QED BY <3>1
  <2> QED BY <1>10, <2>1, <2>2 DEF IsSent
<1>17. Out' = {}
  BY <1>1, <1>2, <1>10, <1>16 DEF Out
<1>18. Cardinality(Out') = 0
  BY <1>17, FS_EmptySet
<1>19. Held' + Cardinality(Out') + Replies' = window_total' /\ Held' + Cardinality(Out') + Replies' <= window_total'
  <2>1. window_total \in Int
    BY WindowInt
  <2> QED BY <1>13, <1>15, <1>18, <2>1
<1>20. 0 \in rcvd' /\ \A p \in rcvd' : IsSent(p)'
  BY <1>1, <1>2 DEF IsSent
<1>21. Balance'
  BY <1>1, <1>2, <1>17, <1>19, <1>20 DEF Balance
<1> QED BY <1>10, <1>11, <1>12, <1>14, <1>21 DEF Sending

\* Afterwards only the network moves, and has nothing to add.
LEMMA ClosedKeeps ==
  ASSUME SlmpType, AllDone, slmpFaults \in Nat, slmpFaults = 0 => queued.bad = 0, Network
  PROVE  /\ SlmpType' /\ AllDone' /\ slmpFaults' \in Nat /\ UNCHANGED result
         /\ slmpFaults' = 0 => queued'.bad = 0
<1>1. acks \in Nat /\ queued \in [good : Nat, bad : Nat] /\ rcvd = Packets
  BY DEF SlmpType, AllDone
<1>2. /\ acks' \in Nat /\ queued' \in [good : Nat, bad : Nat] /\ wire' \subseteq wire /\ rcvd' = Packets
      /\ slmpFaults' \in Nat /\ slmpFaults <= slmpFaults' /\ (slmpFaults' = 0 => queued'.bad = 0)
      /\ UNCHANGED <<call, actor, result, exit_flag>>
  <2>1. ASSUME NEW m \in wire, Arrive(m)
        PROVE  <1>2!:
    <3>1. m.pkt \in Packets
      BY DEF SlmpType
    <3>2. /\ wire' = wire \ {m} /\ rcvd' = rcvd \union {m.pkt} /\ acks' = acks + (IF m.syn THEN 1 ELSE 0)
          /\ UNCHANGED <<call, actor, result, exit_flag, queued, slmpFaults>>
      BY <2>1 DEF Arrive
    <3>3. acks' \in Nat
      BY <1>1, <3>2
    <3>4. rcvd' = Packets /\ wire' \subseteq wire
      BY <1>1, <3>1, <3>2
    <3> QED BY <1>1, <3>2, <3>3, <3>4
  <2>2. ASSUME NEW m \in wire, Lose(m)
        PROVE  <1>2!:
    <3>1. /\ wire' = wire \ {m} /\ slmpFaults' = slmpFaults + 1
          /\ UNCHANGED <<call, actor, result, exit_flag, rcvd, acks, queued>>
      BY <2>2 DEF Lose, SlmpFault
    <3> QED BY <1>1, <3>1
  <2>3. ASSUME NEW how \in {"good", "bad", "lost"}, AckArrives(how)
        PROVE  <1>2!:
    <3>1. /\ acks' \in Nat /\ queued' \in [good : Nat, bad : Nat]
          /\ slmpFaults' \in Nat /\ slmpFaults <= slmpFaults' /\ (slmpFaults' = 0 => queued'.bad = 0)
          /\ UNCHANGED <<call, actor, result, exit_flag, wire, rcvd>>
      BY <2>3, AckMoves
    <3> QED BY <1>1, <3>1
  <2> QED BY <2>1, <2>2, <2>3 DEF Network
<1>3. SlmpType'
  BY <1>1, <1>2, NetworkMoves
<1>4. AllDone'
  BY <1>2 DEF AllDone, SlmpDone, Packets, Main, Workers
<1> QED BY <1>2, <1>3, <1>4

\* A failure is never forgotten.
LEMMA FailureStays ==
  ASSUME slmpFaults \in Nat, slmpFaults > 0, result # 0, [SlmpNext]_slmpVars
  PROVE  slmpFaults' \in Nat /\ slmpFaults' > 0 /\ result' # 0
<1>1. slmpFaults' = slmpFaults \/ slmpFaults' = slmpFaults + 1
  BY DEF SlmpNext, Sender, Network, slmpVars, SendSyn, SynTimeout, Fork, Join, SendLast, Iterate, SendOne,
     SendTimeout, RecvAck, RecvBad, NoMore, Deadline, Arrive, Lose, AckArrives, SlmpFault
<1>2. result' = result \/ result' \in {-1, -2, -3}
  <2>1. ASSUME NEW a, Draining(a), NEW v, Drained(a, v)
        PROVE  result' = result \/ result' \in {-1, -2, -3}
    BY <2>1, DrainedEffect
  <2>2. ASSUME NEW a, SendTimeout(a) \/ RecvAck(a) \/ RecvBad(a) \/ NoMore(a) \/ Deadline(a)
        PROVE  result' = result \/ result' \in {-1, -2, -3}
    <3>1. CASE SendTimeout(a)
      BY <3>1 DEF SendTimeout, Failed
    <3>2. CASE RecvAck(a)
      <4>1. UNCHANGED result \/ (Draining(a) /\ Drained(a, actor[a].got + 1))
        BY <3>2 DEF RecvAck
      <4> QED BY <2>1, <4>1
    <3>3. CASE RecvBad(a)
      BY <2>1, <3>3 DEF RecvBad
    <3>4. CASE NoMore(a) \/ Deadline(a)
      <4>1. Draining(a) /\ Drained(a, actor[a].got)
        BY <3>4 DEF NoMore, Deadline
      <4> QED BY <2>1, <4>1
    <3> QED BY <2>2, <3>1, <3>2, <3>3, <3>4
  <2>3. CASE SendSyn \/ SynTimeout \/ Fork \/ Join \/ SendLast
    BY <2>3 DEF SendSyn, SynTimeout, Fork, Join, SendLast
  <2>4. CASE \E w \in Workers : Iterate(w) \/ SendOne(w)
    BY <2>4 DEF Iterate, SendOne
  <2>5. CASE Network
    BY <2>5 DEF Network, Arrive, Lose, AckArrives
  <2>6. CASE UNCHANGED slmpVars
    BY <2>6 DEF slmpVars
  <2> QED BY <2>2, <2>3, <2>4, <2>5, <2>6 DEF SlmpNext, Sender
<1>3. result' # 0
  BY <1>2
<1> QED BY <1>1, <1>3

\* A timeout is a failure.
LEMMA TimeoutFails ==
  ASSUME slmpFaults \in Nat, NEW a, SendTimeout(a) \/ SynTimeout
  PROVE  slmpFaults' \in Nat /\ slmpFaults' > 0 /\ result' # 0
<1>1. slmpFaults' = slmpFaults + 1
  BY DEF SendTimeout, SynTimeout, SlmpFault
<1>2. result' = -1 \/ result' = -3
  BY DEF SendTimeout, SynTimeout, Failed
<1> QED BY <1>1, <1>2

\* Every step keeps the invariant.
LEMMA SlmpStep ==
  ASSUME Acked, SlmpInv, [SlmpNext]_slmpVars
  PROVE  SlmpInv'
<1>1. CASE result # 0
  BY <1>1, FailureStays DEF SlmpInv
<1>2. CASE result = 0 /\ UNCHANGED slmpVars
  <2>1. UNCHANGED <<call, actor, result, exit_flag, wire, rcvd, acks, queued, slmpFaults>>
    BY <1>2 DEF slmpVars
  <2>2. SlmpType /\ slmpFaults \in Nat /\ (slmpFaults = 0 => queued.bad = 0)
    BY <1>2 DEF SlmpInv, SlmpGood
  <2>3. /\ acks' \in Nat /\ queued' \in [good : Nat, bad : Nat] /\ rcvd' \subseteq Packets /\ wire' \subseteq wire
        /\ slmpFaults' \in Nat /\ slmpFaults <= slmpFaults'
    BY <2>1, <2>2 DEF SlmpType
  <2>4. /\ SlmpType' /\ Held' = Held + 0 /\ (\A p : IsSent(p)' <=> IsSent(p))
        /\ (Sending => AtLast' /\ \A w \in Workers : InPart(w)')
    BY <2>1, <2>2, <2>3, NetworkMoves
  <2>5. Replies' = Replies + 0
    BY <2>1, <2>2, CreditIs DEF Replies
  <2>6. Sending => Sending'
    <3>1. Balance => Balance'
      <4>1. 0 \in Int /\ 0 + 0 <= 0 /\ 0 + 0 = 0
        OBVIOUS
      <4> QED BY <2>1, <2>2, <2>3, <2>4, <2>5, <4>1, BalanceMoves
    <3> QED BY <2>4, <3>1 DEF Sending, Workers
  <2>7. Opening => Opening'
    BY <2>1 DEF Opening, Alone, Actor, Replies, Main, Workers
  <2>8. AllDone => AllDone'
    BY <2>1 DEF AllDone, SlmpDone, Packets, Main, Workers
  <2> QED BY <1>2, <2>1, <2>2, <2>3, <2>4, <2>6, <2>7, <2>8 DEF SlmpInv, SlmpGood
<1>3. CASE result = 0 /\ SlmpNext
  <2>1. SlmpType /\ slmpFaults \in Nat /\ (slmpFaults = 0 => queued.bad = 0) /\ DOMAIN actor = SlmpActors
    BY <1>3 DEF SlmpInv, SlmpGood, SlmpType
  <2>2. SUFFICES \/ slmpFaults' \in Nat /\ slmpFaults' > 0 /\ result' # 0
                 \/ /\ slmpFaults' \in Nat /\ result' = 0 /\ (slmpFaults' = 0 => queued'.bad = 0)
                    /\ SlmpType' /\ (Opening' \/ Sending' \/ AllDone')
    BY DEF SlmpInv, SlmpGood
  <2> DEFINE Fine == \/ slmpFaults' \in Nat /\ slmpFaults' > 0 /\ result' # 0
                     \/ /\ slmpFaults' \in Nat /\ result' = 0 /\ (slmpFaults' = 0 => queued'.bad = 0)
                        /\ SlmpType' /\ (Opening' \/ Sending' \/ AllDone')
  <2>3. CASE Opening
    <3>1. /\ actor[Main].pc \in {"syn", "synack", "fork"}
          /\ \A w \in Workers : actor[w].pc = "off"
          /\ \A a \in SlmpActors : actor[a].pc # "send"
      BY <2>1, <2>3, OpeningPcs, ActorsAre
    <3>2. CASE SendSyn
      <4>1. UNCHANGED <<result, queued, slmpFaults>>
        BY <3>2 DEF SendSyn
      <4> QED BY <1>3, <2>1, <2>3, <3>2, <4>1, SendSynKeeps
    <3>3. CASE SynTimeout
      BY <2>1, <3>3, TimeoutFails
    <3>4. CASE Fork
      <4>1. UNCHANGED <<result, queued, slmpFaults>>
        BY <3>4 DEF Fork
      <4> QED BY <1>3, <2>1, <2>3, <3>4, <4>1, ForkKeeps
    <3>5. ASSUME NEW a \in SlmpActors, RecvAck(a) \/ RecvBad(a)
          PROVE  Fine
      BY <1>3, <2>1, <2>3, <3>5, SynRecvKeeps
    <3>6. ASSUME NEW a \in SlmpActors, NoMore(a) \/ Deadline(a)
          PROVE  Fine
      BY <2>1, <2>3, <3>6, SynGivenUp
    <3>7. CASE Network
      BY <1>3, <2>1, <2>3, <3>7, SynNetworkKeeps
    <3>8. ~Join /\ ~SendLast /\ (\A w \in Workers : ~Iterate(w) /\ ~SendOne(w))
          /\ \A a \in SlmpActors : ~SendTimeout(a)
      BY <3>1 DEF Join, SendLast, Iterate, SendOne, SendTimeout
    <3> HIDE DEF Fine
    <3>9. Fine
      BY <1>3, <2>1, <3>2, <3>3, <3>4, <3>5, <3>6, <3>7, <3>8 DEF SlmpNext, Sender, Fine
    <3> QED BY <3>9 DEF Fine
  <2>4. CASE Sending
    <3>1. actor[Main].pc \in {"join", "reclaim", "send", "final"}
      BY <2>4 DEF Sending, AtLast
    <3>2. ~SendSyn /\ ~SynTimeout /\ ~Fork
      BY <3>1 DEF SendSyn, SynTimeout, Fork
    <3>3. CASE Join
      <4>1. UNCHANGED <<result, queued, slmpFaults>>
        BY <3>3 DEF Join
      <4> QED BY <1>3, <2>1, <2>4, <3>3, <4>1, JoinKeeps
    <3>4. CASE SendLast
      <4>1. UNCHANGED <<result, queued, slmpFaults>>
        BY <3>4 DEF SendLast
      <4> QED BY <1>3, <2>1, <2>4, <3>4, <4>1, SendLastKeeps
    <3>5. ASSUME NEW w \in Workers, Iterate(w) \/ SendOne(w)
          PROVE  Fine
      <4>1. UNCHANGED <<result, queued, slmpFaults>>
        BY <3>5 DEF Iterate, SendOne
      <4>2. SlmpType' /\ Sending'
        BY <2>1, <2>4, <3>5, IterateKeeps, SendOneKeeps
      <4> QED BY <1>3, <2>1, <4>1, <4>2
    <3>6. ASSUME NEW a \in SlmpActors, SendTimeout(a)
          PROVE  Fine
      BY <2>1, <3>6, TimeoutFails
    <3>7. ASSUME NEW a \in SlmpActors, RecvAck(a)
          PROVE  Fine
      BY <1>3, <2>1, <2>4, <3>7, RecvAckKeeps
    <3>8. ASSUME NEW a \in SlmpActors, RecvBad(a)
          PROVE  Fine
      <4>1. /\ slmpFaults' > 0 /\ slmpFaults' \in Nat /\ slmpFaults' # 0
            /\ result' # 0 \/ (SlmpType' /\ Sending')
        BY <1>3, <2>1, <2>4, <3>8, RecvBadKeeps
      <4> QED BY <4>1
    <3>9. ASSUME NEW a \in SlmpActors, NoMore(a)
          PROVE  Fine
      BY <1>3, <2>1, <2>4, <3>9, NoMoreKeeps
    <3>10. ASSUME NEW a \in SlmpActors, Deadline(a)
           PROVE  Fine
      <4>1. /\ slmpFaults' \in Nat /\ slmpFaults <= slmpFaults' /\ UNCHANGED queued
            /\ \/ result' # 0 /\ slmpFaults' > 0
               \/ result' = 0 /\ SlmpType' /\ (Sending' \/ AllDone')
        BY <1>3, <2>1, <2>4, <3>10, DeadlineKeeps
      <4>2. slmpFaults' = 0 => queued'.bad = 0
        BY <2>1, <4>1
      <4> QED BY <4>1, <4>2
    <3>11. ASSUME NEW m \in wire, Arrive(m)
           PROVE  Fine
      <4>1. UNCHANGED <<result, queued, slmpFaults>>
        BY <3>11 DEF Arrive
      <4> QED BY <1>3, <2>1, <2>4, <3>11, <4>1, ArriveKeeps
    <3>12. ASSUME NEW m \in wire, Lose(m)
           PROVE  Fine
      <4>1. UNCHANGED <<result, queued>> /\ slmpFaults' = slmpFaults + 1
        BY <3>12 DEF Lose, SlmpFault
      <4>2. slmpFaults' \in Nat /\ slmpFaults' # 0
        BY <2>1, <4>1
      <4> QED BY <1>3, <2>1, <2>4, <3>12, <4>1, <4>2, LoseKeeps
    <3>13. ASSUME NEW how \in {"good", "bad", "lost"}, AckArrives(how)
           PROVE  Fine
      <4>1. UNCHANGED result /\ slmpFaults' \in Nat /\ (slmpFaults' = 0 => queued'.bad = 0)
        BY <2>1, <3>13, AckMoves
      <4>2. SlmpType' /\ Sending'
        BY <2>1, <2>4, <3>13, AckKeeps
      <4> QED BY <1>3, <4>1, <4>2
    <3> HIDE DEF Fine
    <3>14. Fine
      BY <1>3, <2>1, <3>2, <3>3, <3>4, <3>5, <3>6, <3>7, <3>8, <3>9, <3>10, <3>11, <3>12, <3>13
         DEF SlmpNext, Sender, Network, Fine
    <3> QED BY <3>14 DEF Fine
  <2>5. CASE AllDone
    <3>1. actor[Main].pc = "end" /\ \A w \in Workers : actor[w].pc = "off"
      BY <2>5 DEF AllDone, SlmpDone
    <3>2. \A a \in SlmpActors : actor[a].pc \in {"end", "off"}
      BY <3>1, ActorsAre
    <3>3. ~Sender
      BY <2>1, <3>1, <3>2, ActorsAre DEF Sender, SendSyn, SynTimeout, Fork, Join, SendLast, Iterate, SendOne,
         SendTimeout, RecvAck, RecvBad, NoMore, Deadline, Draining
    <3>4. Network
      BY <1>3, <3>3 DEF SlmpNext
    <3> QED BY <1>3, <2>1, <2>5, <3>4, ClosedKeeps
  <2> QED BY <1>3, <2>3, <2>4, <2>5 DEF SlmpInv, SlmpGood
<1> QED BY <1>1, <1>2, <1>3

\* For every number of threads, window, message and number of packets lost, late
\* or malformed: slmp_sendmsg returns 0 only if the receiver has the message, and
\* an error only if something went wrong on the way.
THEOREM SendsTruthfully ==
  ASSUME Acked
  PROVE  SlmpSpec => []SlmpTruthful
<1>1. SlmpInit => SlmpInv
  <2> SUFFICES ASSUME SlmpInit PROVE SlmpInv
    OBVIOUS
  <2>1. /\ call \in [wnd : WndSizes, len : Lengths] /\ exit_flag = FALSE /\ result = 0
        /\ wire = {} /\ rcvd = {} /\ acks = 0 /\ queued = [good |-> 0, bad |-> 0] /\ slmpFaults = 0
    BY DEF SlmpInit
  <2>2. actor = [a \in SlmpActors |-> Actor(IF a = Main THEN "syn" ELSE "off")]
    BY DEF SlmpInit, SlmpActors
  <2>3. Actor("syn") \in SlmpRec /\ Actor("off") \in SlmpRec
    BY DEF Actor, SlmpRec, SlmpPcs
  <2>4. actor \in [SlmpActors -> SlmpRec]
    BY <2>2, <2>3
  <2>5. Alone("syn")
    BY <2>2, ActorsAre DEF Alone
  <2>6. SlmpType
    BY <2>1, <2>4 DEF SlmpType
  <2>7. Replies = 0 /\ queued.bad = 0
    BY <2>1 DEF Replies
  <2> QED BY <2>1, <2>5, <2>6, <2>7 DEF SlmpInv, SlmpGood, Opening
<1>2. SlmpInv /\ [SlmpNext]_slmpVars => SlmpInv'
  BY SlmpStep
<1>3. SlmpInv => SlmpTruthful
  <2> SUFFICES ASSUME SlmpInv, SlmpDone
               PROVE  (result = 0 => rcvd = Packets) /\ (result # 0 => slmpFaults > 0)
    BY DEF SlmpTruthful
  <2>1. result # 0 => slmpFaults > 0
    BY DEF SlmpInv
  <2>2. ASSUME result = 0 PROVE rcvd = Packets
    <3>1. SlmpType /\ (Opening \/ Sending \/ AllDone)
      BY <2>2 DEF SlmpInv, SlmpGood
    <3>2. ~Opening /\ ~Sending
      BY <3>1, OpeningPcs DEF SlmpDone, Sending, AtLast
    <3> QED BY <3>1, <3>2 DEF AllDone
  <2> QED BY <2>1, <2>2
<1> QED BY <1>1, <1>2, <1>3, PTL DEF SlmpSpec
=============================================================================
