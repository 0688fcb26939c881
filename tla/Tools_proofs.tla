---------------------------- MODULE Tools_proofs ----------------------------
(***************************************************************************)
(* Theorems about the tools beside the data path: the EEPROM of a module,  *)
(* the presets and the eye scan of a transceiver, and a firmware update:   *)
(* the reset that ends it, what it leaves alone and what it has written    *)
(* when it says so.  Each part begins with its inductive invariant; one    *)
(* lemma per action shows that the action keeps it.                        *)
(***************************************************************************)
EXTENDS ModuleEeprom, Transceiver, Flash, SequenceTheorems, FiniteSetTheorems,
        PointerTheorems, TLAPS

---------------------------------------------------------------------------
(* The EEPROM of a module.                                                 *)

Bytes == Int \X Int \X Int
Requests == [op : {"flat", "page"}, addr : Int, page : Int, bank : Int, off : Int, len : Int]
Modules == [id : ModuleIds, page : Int]
Calls == [pc : {"idle", "info", "locate", "select", "read", "done"}, req : Requests,
          at : Requests, i : Int, data : Seq(Bytes), ret : Int, blind : Nat, empty : BOOLEAN]

\* WantedByte, Shows and eeprom_len, of a module m.
Wanted(m, r, j) ==
  LET o == r.off + j - 1 IN
  IF r.op = "page" THEN Byte(r.addr, r.page, o)
  ELSE IF o < 2*HALF THEN Byte(80, 0, o)
  ELSE IF m.id = "sfp" THEN Byte(81, 0, o - 2*HALF)
  ELSE Byte(80, (o - HALF) \div HALF, HALF + (o % HALF))
Shown(m, addr, o) == Byte(addr, IF m.id \in Paged THEN m.page ELSE 0, o)
FlatLen(m) == IF m.id = "sfp" THEN 4*HALF ELSE 5*HALF

\* Of a call e: the bytes in the buffer are the ones asked for, as far as it
\* got, and behind them the buffer is clear ...
SoFar(m, e) ==
  /\ 0 <= e.i /\ e.i <= e.req.len /\ Len(e.data) = e.req.len
  /\ \A j \in 1 .. e.req.len : e.data[j] = IF j <= e.i THEN Wanted(m, e.req, j) ELSE Zero
\* ... it ends before it has them all only where a transfer had none ...
Ends(e) ==
  e.pc = "done" /\ e.ret >= 0 =>
    /\ e.i < e.req.len => e.empty
    /\ e.req.op # "flat" => e.ret <= e.i
\* ... there are more to come, from a space that has them ...
More(m, e) ==
  /\ e.i < e.req.len
  /\ e.req.op = "flat" => e.req.off >= 0 /\ e.req.off + e.req.len <= FlatLen(m)
\* ... the next ones are where the round looks for them, if it has the page ...
Aims(m, e) ==
  /\ e.at.len > 0 /\ e.at.len <= e.req.len - e.i
  /\ \A k \in 1 .. e.at.len :
       Wanted(m, e.req, e.i + k) = Byte(e.at.addr, e.at.page, e.at.off + k - 1)
\* ... and it has.
Sees(m, e) ==
  /\ e.at.len > 0 /\ e.at.len <= e.req.len - e.i
  /\ \A k \in 1 .. e.at.len : Wanted(m, e.req, e.i + k) = Shown(m, e.at.addr, e.at.off + k - 1)

\* The steps of a call, each with what the steps before it have established if
\* none of them failed unnoticed.
Sound(m, e) ==
  /\ SoFar(m, e) /\ Ends(e)
  /\ e.pc = "info" => e.req.op = "flat" /\ e.req.off >= 0 /\ e.i < e.req.len
  /\ e.pc = "locate" => e.req.op = "flat"
  /\ e.pc \in {"locate", "select", "read"} => More(m, e)
  /\ e.pc = "select" => Aims(m, e)
  /\ e.pc = "read" => Sees(m, e)
EeAt(m, e) == m \in Modules /\ e \in Calls /\ (e.blind = 0 => Sound(m, e))
EeInv == EeAt(module, ee)

\* They are the operators of the module, at the module there is.
LEMMA OfThisModule ==
  /\ \A r, j : WantedByte(r, j) = Wanted(module, r, j)
  /\ \A a, o : Shows(a, o) = Shown(module, a, o)
  /\ eeprom_len = FlatLen(module)
  BY DEF WantedByte, Wanted, Shows, Shown, eeprom_len, FlatLen

\* Only the kind of the module, not the page it has selected, says where a
\* byte of a request is.
LEMMA SameKind ==
  ASSUME NEW m, NEW w, m.id = w.id
  PROVE  (\A r, j : Wanted(w, r, j) = Wanted(m, r, j)) /\ FlatLen(w) = FlatLen(m)
  BY DEF Wanted, FlatLen

\* Numbers by their page and their place in it.
LEMMA Halves ==
  ASSUME NEW q \in Int, NEW r \in 0 .. HALF - 1
  PROVE  (q * HALF + r) \div HALF = q /\ (q * HALF + r) % HALF = r
<1>1. HALF \in Nat \ {0}
  BY ModuleEepromAssumption
<1>2. PICK x \in Int : x = q * HALF + r
  BY <1>1
<1>3. x = HALF * (x \div HALF) + (x % HALF) /\ x \div HALF \in Int /\ x % HALF \in 0 .. HALF - 1
  BY <1>1
<1>4. HALF * (q - x \div HALF) = (x % HALF) - r
  BY <1>1, <1>2, <1>3
<1>5. \A n \in Int : -HALF < HALF * n /\ HALF * n < HALF => n = 0
  BY <1>1
<1>6. q - x \div HALF = 0
  BY <1>1, <1>3, <1>4, <1>5
<1>7. x \div HALF = q
  BY <1>3, <1>6
<1>8. x % HALF = r
  BY <1>1, <1>3, <1>4, <1>6
<1> QED BY <1>2, <1>7, <1>8

\* What ethtool lets through is a request.
LEMMA Asked ==
  ASSUME NEW r \in FlatRequests \cup PageRequests
  PROVE  /\ r \in Requests /\ r.len > 0
         /\ (r \in FlatRequests => r.op = "flat" /\ r.off >= 0) /\ (r.op = "flat" => r \in FlatRequests)
<1>1. HALF \in Nat \ {0}
  BY ModuleEepromAssumption
<1>2. CASE r \in FlatRequests
  <2>1. PICK o \in 0 .. 5*HALF-1, n \in 1 .. 5*HALF : r = Flat(o, n)
    BY <1>2 DEF FlatRequests
  <2>2. o \in Int /\ n \in Int /\ n > 0 /\ o >= 0
    BY <1>1, <2>1
  <2> QED BY <1>2, <2>1, <2>2 DEF Flat, Requests
<1>3. CASE r \in PageRequests
  <2>1. r \in [op : {"page"}, addr : {80, 81}, page : 0 .. 4, bank : 0 .. 1,
               off : 0 .. 2*HALF-1, len : 1 .. HALF]
    BY <1>3 DEF PageRequests
  <2>2. r.op = "page" /\ r \in Requests /\ r.len > 0
    BY <1>1, <2>1 DEF Requests
  <2>3. r \notin FlatRequests
    <3>1. \A o, n : Flat(o, n).op = "flat"
      BY DEF Flat
    <3> QED BY <2>2, <3>1 DEF FlatRequests
  <2> QED BY <2>2, <2>3
<1> QED BY <1>2, <1>3

\* A u16 keeps a number that fits in it.
LEMMA Fits16 ==
  ASSUME NEW x \in Int, 0 <= x, x <= 65535
  PROVE  x % 65536 = x
  OBVIOUS

\* Of the flat space, each byte is where Located says, up to the end of the page.
LEMMA LocatedRight ==
  ASSUME NEW o \in Nat, NEW n \in Nat \ {0}, module.id = "sfp" => o + n <= 4*HALF,
         NEW r \in Requests, NEW i \in Int, r.op = "flat", r.off + i = o
  PROVE  /\ Located(module.id, o, n) \in Requests /\ Located(module.id, o, n).len > 0 /\ Located(module.id, o, n).len <= n
         /\ \A k \in 1 .. Located(module.id, o, n).len :
              WantedByte(r, i + k)
                = Byte(Located(module.id, o, n).addr, Located(module.id, o, n).page, Located(module.id, o, n).off + k - 1)
<1>1. HALF \in Nat \ {0} /\ r.off \in Int
  BY ModuleEepromAssumption DEF Requests
<1>2. ASSUME NEW k \in Int, NEW x \in Int, x = o + k - 1
      PROVE  WantedByte(r, i + k)
               = IF x < 2*HALF THEN Byte(80, 0, x)
                 ELSE IF module.id = "sfp" THEN Byte(81, 0, x - 2*HALF)
                 ELSE Byte(80, (x - HALF) \div HALF, HALF + (x % HALF))
  <2>1. x = r.off + (i + k) - 1
    BY <1>1, <1>2
  <2>2. WantedByte(r, i + k)
          = IF r.op = "page" THEN Byte(r.addr, r.page, x)
            ELSE IF x < 2*HALF THEN Byte(80, 0, x)
            ELSE IF module.id = "sfp" THEN Byte(81, 0, x - 2*HALF)
            ELSE Byte(80, (x - HALF) \div HALF, HALF + (x % HALF))
    BY ONLY <2>1 DEF WantedByte
  <2> QED BY ONLY <2>2, r.op = "flat"
<1>3. CASE o < 2*HALF
  <2>1. Located(module.id, o, n) = [op |-> "flat", addr |-> 80, page |-> 0, bank |-> 0, off |-> o,
                         len |-> IF o + n > 2*HALF THEN 2*HALF - o ELSE n]
    <3>1. PICK x \in Int : x = 2*HALF - o /\ 0 <= x /\ x <= 65535
      <4>1. 2*HALF - o \in Int /\ 0 <= 2*HALF - o /\ 2*HALF - o <= 65535
        BY <1>1, <1>3, ModuleEepromAssumption
      <4> QED BY <4>1
    <3>2. (2*HALF - o) % 65536 = 2*HALF - o
      BY ONLY <3>1, Fits16
    <3> QED BY <1>1, <1>3, <3>2 DEF Located
  <2>2. PICK l \in Int : l = (IF o + n > 2*HALF THEN 2*HALF - o ELSE n) /\ l > 0 /\ l <= n /\ o + l <= 2*HALF
    <3>1. CASE o + n > 2*HALF
      <4>1. 2*HALF - o \in Int /\ 2*HALF - o > 0 /\ 2*HALF - o <= n /\ o + (2*HALF - o) <= 2*HALF
        BY <1>1, <1>3, <3>1
      <4> QED BY <3>1, <4>1
    <3>2. CASE ~(o + n > 2*HALF)
      BY <1>1, <1>3, <3>2
    <3> QED BY <3>1, <3>2
  <2>3. /\ Located(module.id, o, n) \in Requests /\ Located(module.id, o, n).len = l /\ Located(module.id, o, n).addr = 80
        /\ Located(module.id, o, n).page = 0 /\ Located(module.id, o, n).off = o
    BY <2>1, <2>2 DEF Requests
  <2>4. ASSUME NEW k \in 1 .. l
        PROVE  WantedByte(r, i + k) = Byte(80, 0, o + k - 1)
    <3>1. PICK x \in Int : x = o + k - 1 /\ x < 2*HALF
      BY <1>1, <2>2
    <3>2. k \in Int
      BY <1>1, <2>2
    <3>3. WantedByte(r, i + k)
            = IF x < 2*HALF THEN Byte(80, 0, x)
              ELSE IF module.id = "sfp" THEN Byte(81, 0, x - 2*HALF)
              ELSE Byte(80, (x - HALF) \div HALF, HALF + (x % HALF))
      BY ONLY <1>2, <3>1, <3>2, Zenon
    <3>4. WantedByte(r, i + k) = Byte(80, 0, x)
      BY ONLY <3>1, <3>3
    <3> QED BY <3>1, <3>4
  <2> QED BY <2>2, <2>3, <2>4
<1>4. CASE o >= 2*HALF /\ module.id = "sfp"
  <2>1. PICK f \in Int : f = o - 2*HALF
    BY <1>1
  <2>2. Located(module.id, o, n) = [op |-> "flat", addr |-> 81, page |-> 0, bank |-> 0, off |-> f,
                         len |-> n]
    <3>1. ~(f + n > 2*HALF)
      BY <1>1, <1>4, <2>1
    <3> QED BY <1>1, <1>4, <2>1, <3>1 DEF Located
  <2>3. f + n <= 2*HALF
    BY <1>1, <1>4, <2>1
  <2>4. /\ Located(module.id, o, n) \in Requests /\ Located(module.id, o, n).len = n /\ Located(module.id, o, n).addr = 81
        /\ Located(module.id, o, n).page = 0 /\ Located(module.id, o, n).off = f
    BY <1>1, <2>1, <2>2, <2>3 DEF Requests
  <2>5. \A k \in 1 .. n : WantedByte(r, i + k) = Byte(81, 0, f + k - 1)
    <3> SUFFICES ASSUME NEW k \in 1 .. n
                 PROVE  WantedByte(r, i + k) = Byte(81, 0, f + k - 1)
      OBVIOUS
    <3>1. PICK x \in Int : x = o + k - 1 /\ ~(x < 2*HALF) /\ x - 2*HALF = f + k - 1
      BY <1>1, <1>4, <2>1
    <3>2. k \in Int
      BY <1>1, <2>1
    <3>3. WantedByte(r, i + k)
            = IF x < 2*HALF THEN Byte(80, 0, x)
              ELSE IF module.id = "sfp" THEN Byte(81, 0, x - 2*HALF)
              ELSE Byte(80, (x - HALF) \div HALF, HALF + (x % HALF))
      BY ONLY <1>2, <3>1, <3>2, Zenon
    <3>4. WantedByte(r, i + k) = Byte(81, 0, x - 2*HALF)
      BY ONLY <1>4, <3>1, <3>3
    <3> QED BY <3>1, <3>4
  <2> QED BY <2>4, <2>5
<1>5. CASE o >= 2*HALF /\ module.id # "sfp"
  <2>1. PICK q \in Int, d \in 0 .. HALF - 1 : o - 2*HALF = q * HALF + d /\ (o - 2*HALF) \div HALF = q
    <3>1. PICK x \in Int : x = o - 2*HALF
      BY <1>1
    <3>2. x = (x \div HALF) * HALF + (x % HALF) /\ x \div HALF \in Int /\ x % HALF \in 0 .. HALF - 1
      BY <1>1
    <3> QED BY <3>1, <3>2
  <2>2. d \in Int /\ 0 <= d /\ d < HALF /\ o - (1 + q) * HALF = HALF + d
    BY <1>1, <2>1
  <2>3. Located(module.id, o, n) = [op |-> "flat", addr |-> 80, page |-> 1 + q, bank |-> 0, off |-> HALF + d,
                         len |-> IF HALF + d + n > 2*HALF THEN 2*HALF - (HALF + d) ELSE n]
    <3>1. PICK x \in Int : x = 2*HALF - (HALF + d) /\ 0 <= x /\ x <= 65535
      BY <1>1, <2>2, ModuleEepromAssumption
    <3>2. (2*HALF - (HALF + d)) % 65536 = 2*HALF - (HALF + d)
      BY ONLY <3>1, Fits16
    <3> QED BY <1>1, <1>5, <2>1, <2>2, <3>2 DEF Located
  <2>4. PICK l \in Int : /\ l = (IF HALF + d + n > 2*HALF THEN 2*HALF - (HALF + d) ELSE n)
                         /\ l > 0 /\ l <= n /\ d + l <= HALF
    <3>1. CASE HALF + d + n > 2*HALF
      BY <1>1, <2>2, <3>1
    <3>2. CASE ~(HALF + d + n > 2*HALF)
      BY <1>1, <2>2, <3>2
    <3> QED BY <3>1, <3>2
  <2>5. /\ Located(module.id, o, n) \in Requests /\ Located(module.id, o, n).len = l /\ Located(module.id, o, n).addr = 80
        /\ Located(module.id, o, n).page = 1 + q /\ Located(module.id, o, n).off = HALF + d
    BY <1>1, <2>2, <2>3, <2>4 DEF Requests
  <2>6. ASSUME NEW k \in 1 .. l
        PROVE  WantedByte(r, i + k) = Byte(80, 1 + q, HALF + d + k - 1)
    <3>1. PICK e \in 0 .. HALF - 1 : e = d + k - 1
      BY <1>1, <2>2, <2>4
    <3>2. PICK x \in Int : /\ x = o + k - 1 /\ x - HALF = (1 + q) * HALF + e
                           /\ x = (2 + q) * HALF + e
                           /\ ~(x < 2*HALF) /\ HALF + e = HALF + d + k - 1
      BY <1>1, <1>5, <2>1, <2>2, <3>1
    <3>3. (x - HALF) \div HALF = 1 + q /\ x % HALF = e
      BY <3>2, Halves
    <3>4. k \in Int
      BY <1>1, <2>4
    <3>5. WantedByte(r, i + k)
            = IF x < 2*HALF THEN Byte(80, 0, x)
              ELSE IF module.id = "sfp" THEN Byte(81, 0, x - 2*HALF)
              ELSE Byte(80, (x - HALF) \div HALF, HALF + (x % HALF))
      BY ONLY <1>2, <3>2, <3>4, Zenon
    <3>6. WantedByte(r, i + k) = Byte(80, (x - HALF) \div HALF, HALF + (x % HALF))
      BY ONLY <1>5, <3>2, <3>5
    <3> QED BY <3>2, <3>3, <3>6
  <2> QED BY <2>4, <2>5, <2>6
<1> QED BY <1>1, <1>3, <1>4, <1>5

---------------------------------------------------------------------------
\* Whatever module it takes there to be, it is a request.
LEMMA LocatedTyped ==
  ASSUME NEW m, NEW o \in Int, NEW n \in Int
  PROVE  Located(m, o, n) \in Requests
<1>1. HALF \in Nat \ {0}
  BY ModuleEepromAssumption
<1>2. PICK page \in Int : page = IF m = "sfp" \/ o < 2*HALF THEN 0 ELSE 1 + ((o - 2*HALF) \div HALF)
  BY <1>1
<1>3. PICK addr \in Int : addr = IF m = "sfp" /\ o >= 2*HALF THEN 81 ELSE 80
  OBVIOUS
<1>4. PICK off \in Int : off = IF m = "sfp" THEN (IF o >= 2*HALF THEN o - 2*HALF ELSE o) ELSE o - page * HALF
  <2>1. o - page * HALF \in Int /\ o - 2*HALF \in Int
    BY <1>1
  <2> QED BY <2>1
<1>5. PICK len \in Int : len = IF off + n > 2*HALF THEN (2*HALF - off) % 65536 ELSE n
  BY <1>1
<1>6. Located(m, o, n) = [op |-> "flat", addr |-> addr, page |-> page, bank |-> 0, off |-> off, len |-> len]
  BY ONLY <1>2, <1>3, <1>4, <1>5 DEF Located
<1> QED BY <1>6 DEF Requests

---------------------------------------------------------------------------
\* Between two calls there is nothing to answer.
LEMMA IdleHolds ==
  ASSUME NEW m \in Modules
  PROVE  EeAt(m, Idle)
<1>1. Flat(0, 1) \in Requests /\ Flat(0, 1).len = 1
  BY DEF Flat, Requests
<1>2. <<Zero>> \in Seq(Bytes) /\ Len(<<Zero>>) = 1 /\ <<Zero>>[1] = Zero
  BY DEF Zero, Bytes
<1>3. PICK q \in Requests, s \in Seq(Bytes) :
        q = Flat(0, 1) /\ s = <<Zero>> /\ Len(s) = 1 /\ s[1] = Zero /\ q.len = 1
  BY <1>1, <1>2
<1>4. PICK e : e = [pc |-> "idle", req |-> q, at |-> q, i |-> 0, data |-> s, ret |-> 0,
                    blind |-> 0, empty |-> FALSE]
  OBVIOUS
<1>5. e \in Calls /\ e.pc = "idle" /\ e.i = 0 /\ e.data = s /\ e.req = q
  BY <1>4 DEF Calls
<1>6. \A j \in 1 .. q.len : j = 1 /\ ~(j <= 0)
  BY <1>3
<1>7. SoFar(m, e)
  BY <1>3, <1>5, <1>6 DEF SoFar
<1>8. Sound(m, e)
  BY <1>5, <1>7 DEF Sound, Ends
<1>9. e = Idle
  BY <1>3, <1>4, Zenon DEF Idle
<1> QED BY <1>5, <1>8, <1>9 DEF EeAt

\* No request has been made.
LEMMA EeStarts == EeInit => EeInv
<1> SUFFICES ASSUME EeInit PROVE EeInv
  OBVIOUS
<1>1. module \in Modules
  BY DEF EeInit, Modules
<1> QED BY <1>1, IdleHolds DEF EeInv, EeInit

\* A call that ends with an error keeps the bytes it has.
LEMMA ErrorKeeps ==
  ASSUME EeInv, NEW r \in {EINVAL, EIO}, EeReturn(r), module' = module
  PROVE  EeInv'
<1>1. r \in Int /\ ~(r >= 0)
  BY DEF EINVAL, EIO
<1>2. ee \in Calls /\ module \in Modules /\ (ee.blind = 0 => SoFar(module, ee))
  BY DEF EeInv, EeAt, Sound
<1>3. PICK e \in Calls : /\ ee' = e /\ e.pc = "done" /\ e.req = ee.req /\ e.i = ee.i /\ e.data = ee.data
                         /\ e.ret = r /\ e.blind = ee.blind
  <2>1. PICK e : ee' = e /\ e = [ee EXCEPT !.pc = "done", !.ret = r]
    BY DEF EeReturn
  <2>2. /\ e \in Calls /\ e.pc = "done" /\ e.req = ee.req /\ e.i = ee.i /\ e.data = ee.data
        /\ e.ret = r /\ e.blind = ee.blind
    BY <1>1, <1>2, <2>1 DEF Calls
  <2> QED BY <2>1, <2>2
<1>4. ee.blind = 0 => SoFar(module, e)
  BY <1>2, <1>3 DEF SoFar
<1>5. Ends(e)
  BY <1>1, <1>3 DEF Ends
<1>6. EeAt(module, e)
  BY <1>2, <1>3, <1>4, <1>5 DEF EeAt, Sound
<1> QED BY <1>3, <1>6 DEF EeInv

\* A request begins with nothing read.
LEMMA AskKeeps ==
  ASSUME EeInv, Ask
  PROVE  EeInv'
<1>1. PICK r \in FlatRequests \cup PageRequests :
        ee' = [Idle EXCEPT !.req = r, !.at = r, !.pc = IF r.op = "flat" THEN "info" ELSE "select",
                           !.data = [j \in 1 .. r.len |-> Zero]]
  BY DEF Ask
<1>2. module' = module /\ module \in Modules
  BY DEF Ask, EeInv, EeAt
<1>3. /\ r \in Requests /\ r.len > 0 /\ r.len \in Nat
      /\ (r \in FlatRequests => r.op = "flat" /\ r.off >= 0) /\ (r.op = "flat" => r \in FlatRequests)
  BY Asked DEF Requests
<1>4. PICK d \in Seq(Bytes) : d = [j \in 1 .. r.len |-> Zero] /\ Len(d) = r.len /\ \A j \in 1 .. r.len : d[j] = Zero
  <2>1. PICK d : d = [j \in 1 .. r.len |-> Zero]
    OBVIOUS
  <2>2. Zero \in Bytes
    BY DEF Zero, Bytes
  <2>3. d \in [1 .. r.len -> Bytes] /\ \A j \in 1 .. r.len : d[j] = Zero
    BY <2>1, <2>2
  <2>4. d \in Seq(Bytes) /\ Len(d) = r.len
    BY <1>3, <2>3, LenProperties DEF Seq
  <2> QED BY <2>1, <2>3, <2>4
<1>5. Idle \in Calls
  BY <1>2, IdleHolds DEF EeAt
<1>6. Idle.i = 0
  BY DEF Idle
<1>7. PICK e \in Calls : /\ ee' = e /\ e.pc = (IF r.op = "flat" THEN "info" ELSE "select")
                         /\ e.req = r /\ e.at = r /\ e.i = 0 /\ e.data = d
  <2>1. PICK p \in {"info", "select"} : p = (IF r.op = "flat" THEN "info" ELSE "select")
    OBVIOUS
  <2>2. PICK e : ee' = e /\ e = [Idle EXCEPT !.req = r, !.at = r, !.pc = p, !.data = d]
    BY <1>1, <1>4, <2>1, Zenon
  <2>3. e \in Calls /\ e.pc = p /\ e.req = r /\ e.at = r /\ e.i = Idle.i /\ e.data = d
    BY <1>3, <1>5, <2>2 DEF Calls
  <2> QED BY <1>6, <2>1, <2>2, <2>3
<1>8. SoFar(module, e)
  <2>1. \A j \in 1 .. r.len : ~(j <= 0)
    BY <1>3
  <2> QED BY <1>3, <1>4, <1>7, <2>1 DEF SoFar
<1>9. CASE r.op = "flat"
  <2>1. e.pc = "info" /\ e.req.op = "flat" /\ e.req.off >= 0 /\ e.i < e.req.len
    BY <1>3, <1>7, <1>9
  <2>2. Sound(module, e)
    BY <1>7, <1>8, <2>1 DEF Sound, Ends
  <2> QED BY <1>2, <1>7, <2>2 DEF EeInv, EeAt
<1>10. CASE r.op # "flat"
  <2>1. r.op = "page" /\ e.pc = "select" /\ r.off \in Int /\ r.len \in Int
    BY <1>3, <1>7, <1>10 DEF Requests
  <2>2. More(module, e)
    BY <1>3, <1>7, <2>1 DEF More
  <2>3. ASSUME NEW k \in 1 .. r.len
        PROVE  Wanted(module, r, 0 + k) = Byte(r.addr, r.page, r.off + k - 1)
    <3>1. 0 + k = k
      BY <2>1
    <3> QED BY <2>1, <3>1 DEF Wanted
  <2>4. Aims(module, e)
    BY <1>3, <1>7, <2>1, <2>3 DEF Aims
  <2>5. Sound(module, e)
    BY <1>8, <2>1, <2>2, <2>4 DEF Sound, Ends
  <2> QED BY <1>2, <1>7, <2>5 DEF EeInv, EeAt
<1> QED BY <1>9, <1>10

\* The bounds of a request are checked against the module.
LEMMA InfoKeeps ==
  ASSUME EeInv, Info
  PROVE  EeInv'
<1>1. module' = module /\ ee.pc = "info"
  BY DEF Info
<1>2. CASE EeReturn(EINVAL) \/ EeReturn(EIO)
  BY <1>1, <1>2, ErrorKeeps
<1>3. CASE /\ ee' = [ee EXCEPT !.pc = "locate"]
           /\ ~(ee.req.off + ee.req.len > eeprom_len)
  <2>1. ee \in Calls /\ module \in Modules
    BY DEF EeInv, EeAt
  <2>2. PICK e \in Calls : /\ ee' = e /\ e.pc = "locate" /\ e.req = ee.req /\ e.i = ee.i /\ e.data = ee.data
                           /\ e.blind = ee.blind
    BY <1>3, <2>1 DEF Calls
  <2>3. ASSUME ee.blind = 0
        PROVE  Sound(module, e)
    <3>1. SoFar(module, ee) /\ ee.req.op = "flat" /\ ee.req.off >= 0 /\ ee.i < ee.req.len
      BY <1>1, <2>3 DEF EeInv, EeAt, Sound
    <3>2. SoFar(module, e)
      BY <2>2, <3>1 DEF SoFar
    <3>3. ee.req.off \in Int /\ ee.req.len \in Int /\ FlatLen(module) \in Int
      <4>1. ee.req \in Requests
        BY <2>1 DEF Calls
      <4>2. ee.req.off \in Int /\ ee.req.len \in Int
        BY <4>1 DEF Requests
      <4>3. HALF \in Int
        BY ModuleEepromAssumption
      <4>4. 4*HALF \in Int /\ 5*HALF \in Int
        BY <4>3
      <4>5. FlatLen(module) \in Int
        BY <4>4 DEF FlatLen
      <4> QED BY <4>2, <4>5
    <3>4. ee.req.off + ee.req.len <= FlatLen(module)
      BY <1>3, <3>3, OfThisModule
    <3>5. More(module, e)
      BY <2>2, <3>1, <3>4 DEF More
    <3> QED BY <2>2, <3>1, <3>2, <3>5 DEF Sound, Ends
  <2> QED BY <1>1, <2>1, <2>2, <2>3 DEF EeInv, EeAt
<1> QED BY <1>2, <1>3 DEF Info

\* Where the next round reads is where the bytes asked for are.
LEMMA LocateKeeps ==
  ASSUME EeInv, Locate
  PROVE  EeInv'
<1>1. module' = module /\ ee.pc = "locate" /\ ee \in Calls /\ module \in Modules
  BY DEF Locate, EeInv, EeAt
<1>2. CASE EeReturn(EINVAL) \/ EeReturn(EIO)
  BY <1>1, <1>2, ErrorKeeps
<1>3. ASSUME NEW m, ee' = [ee EXCEPT !.pc = "select", !.blind = @ + Blind(m, FALSE),
                                     !.at = Located(m, ee.req.off + ee.i, ee.req.len - ee.i)]
      PROVE  EeInv'
  <2>1. ee.req \in Requests /\ ee.req.off \in Int /\ ee.req.len \in Int /\ ee.i \in Int /\ ee.blind \in Nat
    BY <1>1 DEF Calls, Requests
  <2>2. PICK o \in Int, n \in Int : o = ee.req.off + ee.i /\ n = ee.req.len - ee.i
    BY <2>1
  <2>3. PICK l \in Requests : l = Located(m, o, n)
    BY LocatedTyped
  <2>4. PICK b \in Nat : b = ee.blind + Blind(m, FALSE) /\ (b = 0 => ee.blind = 0 /\ m = module.id)
    BY <2>1 DEF Blind
  <2>5. PICK e \in Calls : /\ ee' = e /\ e.pc = "select" /\ e.req = ee.req /\ e.i = ee.i
                           /\ e.data = ee.data /\ e.at = l /\ e.blind = b
    <3>1. PICK e : ee' = e /\ e = [ee EXCEPT !.pc = "select", !.blind = b, !.at = l]
      BY <1>3, <2>2, <2>3, <2>4, Zenon
    <3>2. /\ e \in Calls /\ e.pc = "select" /\ e.req = ee.req /\ e.i = ee.i
          /\ e.data = ee.data /\ e.at = l /\ e.blind = b
      BY <1>1, <3>1 DEF Calls
    <3> QED BY <3>1, <3>2
  <2>6. ASSUME b = 0
        PROVE  Sound(module, e)
    <3>1. SoFar(module, ee) /\ More(module, ee) /\ ee.req.op = "flat" /\ m = module.id
      BY <1>1, <2>4, <2>6 DEF EeInv, EeAt, Sound
    <3>2. o \in Nat /\ n \in Nat \ {0}
      BY <2>1, <2>2, <3>1 DEF More, SoFar
    <3>3. module.id = "sfp" => o + n <= 4*HALF
      BY <2>1, <2>2, <3>1 DEF More, FlatLen
    <3>4. /\ l.len > 0 /\ l.len <= n
          /\ \A k \in 1 .. l.len : WantedByte(ee.req, ee.i + k) = Byte(l.addr, l.page, l.off + k - 1)
      BY <2>1, <2>2, <2>3, <3>1, <3>2, <3>3, LocatedRight
    <3>5. SoFar(module, e)
      BY <2>5, <3>1 DEF SoFar
    <3>6. More(module, e)
      BY <2>5, <3>1 DEF More
    <3>7. \A k \in 1 .. l.len : Wanted(module, ee.req, ee.i + k) = Byte(l.addr, l.page, l.off + k - 1)
      BY <3>4, OfThisModule, Zenon
    <3>8. Aims(module, e)
      BY <2>2, <2>5, <3>4, <3>7 DEF Aims
    <3> QED BY <2>5, <3>5, <3>6, <3>8 DEF Sound, Ends
  <2> QED BY <1>1, <2>5, <2>6 DEF EeInv, EeAt
<1> QED BY <1>2, <1>3 DEF Locate

\* The page the round needs is the one the module shows.
LEMMA SelectPageKeeps ==
  ASSUME EeInv, SelectPage
  PROVE  EeInv'
<1>1. ee.pc = "select" /\ ee \in Calls /\ module \in Modules
  BY DEF SelectPage, EeInv, EeAt
<1>2. CASE (EeReturn(EINVAL) \/ EeReturn(EIO)) /\ module' = module
  BY <1>2, ErrorKeeps
<1>3. ASSUME NEW s, NEW lost \in BOOLEAN, Valid(s, ee.at), Selected(s, lost)
      PROVE  EeInv'
  <2>1. /\ ee.at \in Requests /\ ee.at.page \in Int /\ ee.at.len \in Int /\ ee.at.off \in Int
        /\ ee.blind \in Nat
    BY <1>1 DEF Calls, Requests
  <2>2. PICK b \in Nat : b = ee.blind + Blind(s, lost) /\ (b = 0 => ee.blind = 0 /\ s = module.id /\ ~lost)
    BY <2>1 DEF Blind
  <2>3. PICK e \in Calls : /\ ee' = e /\ e.pc = "read" /\ e.req = ee.req /\ e.i = ee.i
                           /\ e.data = ee.data /\ e.at = ee.at /\ e.blind = b
    <3>1. PICK e : ee' = e /\ e = [ee EXCEPT !.pc = "read", !.blind = b]
      BY <1>3, <2>2, Zenon DEF Selected
    <3>2. /\ e \in Calls /\ e.pc = "read" /\ e.req = ee.req /\ e.i = ee.i
          /\ e.data = ee.data /\ e.at = ee.at /\ e.blind = b
      BY <1>1, <3>1 DEF Calls
    <3> QED BY <3>1, <3>2
  <2>4. PICK m \in Modules : /\ module' = m /\ m.id = module.id
                             /\ m.page = (IF NeedsPage(s, ee.at) /\ ~lost THEN ee.at.page ELSE module.page)
    <3>1. PICK p \in Int : p = (IF NeedsPage(s, ee.at) /\ ~lost THEN ee.at.page ELSE module.page)
      BY <1>1, <2>1 DEF Modules
    <3>2. PICK m : module' = m /\ m = [module EXCEPT !.page = p]
      BY <1>3, <3>1 DEF Selected
    <3>3. m \in Modules /\ m.id = module.id /\ m.page = p
      BY <1>1, <3>2 DEF Modules
    <3> QED BY <3>1, <3>2, <3>3
  <2>5. ASSUME b = 0
        PROVE  Sound(m, e)
    <3>1. SoFar(module, ee) /\ More(module, ee) /\ Aims(module, ee) /\ s = module.id /\ ~lost
      BY <1>1, <2>2, <2>5 DEF EeInv, EeAt, Sound
    <3>2. (\A r, j : Wanted(m, r, j) = Wanted(module, r, j)) /\ FlatLen(m) = FlatLen(module)
      BY <2>4, SameKind
    <3>3. SoFar(m, e)
      BY <2>3, <3>1, <3>2 DEF SoFar
    <3>4. More(m, e)
      BY <2>3, <3>1, <3>2 DEF More
    <3>5. ASSUME NEW k \in 1 .. ee.at.len
          PROVE  Byte(ee.at.addr, ee.at.page, ee.at.off + k - 1) = Shown(m, ee.at.addr, ee.at.off + k - 1)
      <4>1. PICK x \in Int : x = ee.at.off + k - 1 /\ x < ee.at.off + ee.at.len
        BY <2>1
      <4>2. CASE module.id \notin Paged
        <5>1. ee.at.page = 0
          BY <1>3, <3>1, <4>2 DEF Valid
        <5> QED BY <2>4, <4>2, <5>1 DEF Shown
      <4>3. CASE module.id \in Paged /\ NeedsPage(s, ee.at)
        BY <2>4, <3>1, <4>3 DEF Shown
      <4>4. CASE module.id \in Paged /\ ~NeedsPage(s, ee.at)
        <5>1. x < HALF
          <6>1. ~(ee.at.off + ee.at.len >= HALF)
            BY <3>1, <4>4 DEF NeedsPage
          <6>2. HALF \in Int
            BY ModuleEepromAssumption
          <6> QED BY <2>1, <4>1, <6>1, <6>2
        <5>2. Byte(ee.at.addr, ee.at.page, x) = Shown(m, ee.at.addr, x)
          BY <5>1 DEF Byte, Shown
        <5> QED BY <4>1, <5>2
      <4> QED BY <4>2, <4>3, <4>4
    <3>6. Sees(m, e)
      BY <2>3, <3>1, <3>2, <3>5 DEF Aims, Sees
    <3> QED BY <2>3, <3>3, <3>4, <3>6 DEF Sound, Ends
  <2> QED BY <2>3, <2>4, <2>5 DEF EeInv, EeAt
<1>4. \/ (EeReturn(EINVAL) \/ EeReturn(EIO)) /\ module' = module
      \/ \E s \in Ids, lost \in BOOLEAN : Valid(s, ee.at) /\ Selected(s, lost)
  BY DEF SelectPage
<1> QED BY <1>2, <1>3, <1>4

\* The buffer after a transfer.
LEMMA FilledRight ==
  ASSUME ee \in Calls, module \in Modules, NEW n \in Int
  PROVE  /\ Filled(n) \in Seq(Bytes) /\ Len(Filled(n)) = Len(ee.data)
         /\ \A j \in 1 .. Len(ee.data) :
              Filled(n)[j] = IF j > ee.i /\ j <= ee.i + n
                             THEN Shown(module, ee.at.addr, ee.at.off + (j - ee.i) - 1) ELSE ee.data[j]
<1>1. /\ ee.at \in Requests /\ ee.at.off \in Int /\ ee.at.addr \in Int
      /\ ee.i \in Int /\ ee.data \in Seq(Bytes) /\ module.page \in Int
  BY DEF Calls, Requests, Modules
<1>2. /\ DOMAIN ee.data = 1 .. Len(ee.data) /\ Len(ee.data) \in Nat
      /\ \A j \in 1 .. Len(ee.data) : ee.data[j] \in Bytes
  BY <1>1
<1>3. ASSUME NEW x \in Int
      PROVE  Shows(ee.at.addr, x) = Shown(module, ee.at.addr, x) /\ Shows(ee.at.addr, x) \in Bytes
  BY <1>1, OfThisModule DEF Shows, Byte, Bytes
<1>4. ASSUME NEW j \in 1 .. Len(ee.data)
      PROVE  ee.at.off + (j - ee.i) - 1 \in Int
  BY <1>1, <1>2
<1>5. PICK w : w = Filled(n)
  OBVIOUS
<1>6. w = [j \in 1 .. Len(ee.data) |->
             IF j > ee.i /\ j <= ee.i + n THEN Shows(ee.at.addr, ee.at.off + (j - ee.i) - 1) ELSE ee.data[j]]
  BY <1>2, <1>5 DEF Filled
<1>7. \A j \in 1 .. Len(ee.data) :
        w[j] = IF j > ee.i /\ j <= ee.i + n THEN Shows(ee.at.addr, ee.at.off + (j - ee.i) - 1) ELSE ee.data[j]
  BY <1>6
<1>8. \A j \in 1 .. Len(ee.data) : w[j] \in Bytes
  BY <1>2, <1>3, <1>4, <1>7
<1>9. w \in [1 .. Len(ee.data) -> Bytes]
  BY <1>6, <1>8
<1>10. w \in Seq(Bytes) /\ Len(w) = Len(ee.data)
  BY <1>2, <1>9, LenProperties DEF Seq
<1> QED BY <1>3, <1>4, <1>5, <1>7, <1>10

\* A block that was read extends the bytes so far.
LEMMA ReadBlockKeeps ==
  ASSUME EeInv, ReadBlock
  PROVE  EeInv'
<1>1. ee.pc = "read" /\ module' = module /\ ee \in Calls /\ module \in Modules
  BY DEF ReadBlock, EeInv, EeAt
<1>2. CASE EeReturn(EIO)
  BY <1>1, <1>2, ErrorKeeps
<1>3. CASE ~EeReturn(EIO)
  <2>1. /\ ee.at \in Requests /\ ee.at.len \in Int /\ ee.at.off \in Int /\ ee.at.addr \in Int
        /\ ee.req \in Requests /\ ee.req.len \in Int /\ ee.req.off \in Int
        /\ ee.i \in Int /\ ee.data \in Seq(Bytes) /\ module.page \in Int
    BY <1>1 DEF Calls, Requests, Modules
  <2>2. PICK n \in Int :
          /\ n <= ee.at.len /\ (ee.at.len > 0 => n >= 0)
          /\ ee' = [ee EXCEPT
                 !.data = Filled(n), !.i = ee.i + n, !.empty = (n = 0),
                 !.pc = IF n = 0 \/ ee.i + n >= ee.req.len THEN "done"
                        ELSE IF ee.req.op = "flat" THEN "locate" ELSE "select",
                 !.at = IF ee.req.op = "flat" THEN @
                        ELSE [ee.req EXCEPT !.off = @ + (ee.i + n), !.len = @ - (ee.i + n)],
                 !.ret = IF ee.req.op = "flat" \/ n = 0 THEN 0 ELSE ee.i + n]
    <3>1. PICK b \in Int : b = Least2(ee.at.len, BLOCK_MAX) /\ b <= ee.at.len /\ (ee.at.len > 0 => b > 0)
      BY <2>1, ModuleEepromAssumption DEF Least2
    <3>2. \A n \in {b} \cup (IF Fails("short") THEN 0 .. b ELSE {}) :
            n \in Int /\ n <= ee.at.len /\ (ee.at.len > 0 => n >= 0)
      BY <2>1, <3>1
    <3> QED BY <1>3, <3>1, <3>2 DEF ReadBlock
  <2>3. PICK d \in Seq(Bytes) :
          /\ d = Filled(n) /\ Len(d) = Len(ee.data)
          /\ \A j \in 1 .. Len(ee.data) :
               d[j] = IF j > ee.i /\ j <= ee.i + n
                      THEN Shown(module, ee.at.addr, ee.at.off + (j - ee.i) - 1) ELSE ee.data[j]
    BY <1>1, FilledRight
  <2>4. PICK p \in {"done", "locate", "select"} :
          p = (IF n = 0 \/ ee.i + n >= ee.req.len THEN "done"
               ELSE IF ee.req.op = "flat" THEN "locate" ELSE "select")
    OBVIOUS
  <2>5. PICK a \in Requests :
          /\ a = (IF ee.req.op = "flat" THEN ee.at
                  ELSE [ee.req EXCEPT !.off = @ + (ee.i + n), !.len = @ - (ee.i + n)])
          /\ ee.req.op # "flat" =>
               /\ a.addr = ee.req.addr /\ a.page = ee.req.page
               /\ a.off = ee.req.off + (ee.i + n) /\ a.len = ee.req.len - (ee.i + n)
    <3>1. CASE ee.req.op = "flat"
      BY <2>1, <3>1
    <3>2. CASE ee.req.op # "flat"
      <4>1. PICK u \in Int, v \in Int : u = ee.req.off + (ee.i + n) /\ v = ee.req.len - (ee.i + n)
        <5>1. ee.req.off + (ee.i + n) \in Int /\ ee.req.len - (ee.i + n) \in Int
          BY <2>1, SMTT(20)
        <5> QED BY <5>1
      <4>2. PICK a : a = [ee.req EXCEPT !.off = u, !.len = v]
        OBVIOUS
      <4>3. a \in Requests /\ a.addr = ee.req.addr /\ a.page = ee.req.page /\ a.off = u /\ a.len = v
        BY <2>1, <4>2 DEF Requests
      <4>4. a = [ee.req EXCEPT !.off = @ + (ee.i + n), !.len = @ - (ee.i + n)]
        BY <4>1, <4>2
      <4> QED BY <3>2, <4>1, <4>3, <4>4
    <3> QED BY <3>1, <3>2
  <2>6. PICK z \in Int : z = (IF ee.req.op = "flat" \/ n = 0 THEN 0 ELSE ee.i + n)
    BY <2>1
  <2>7. PICK c \in Int : c = ee.i + n
    BY <2>1
  <2>8. PICK y \in BOOLEAN : y = (n = 0)
    OBVIOUS
  <2>9. PICK e \in Calls : /\ ee' = e /\ e.pc = p /\ e.req = ee.req /\ e.at = a /\ e.i = c /\ e.data = d
                           /\ e.ret = z /\ e.empty = y /\ e.blind = ee.blind
    <3>1. PICK e : /\ ee' = e
                   /\ e = [ee EXCEPT !.data = d, !.i = c, !.empty = y, !.pc = p, !.at = a, !.ret = z]
      BY <2>2, <2>3, <2>4, <2>5, <2>6, <2>7, <2>8, Zenon
    <3>2. /\ e \in Calls /\ e.pc = p /\ e.req = ee.req /\ e.at = a /\ e.i = c /\ e.data = d
          /\ e.ret = z /\ e.empty = y /\ e.blind = ee.blind
      BY <1>1, <3>1 DEF Calls
    <3> QED BY <3>1, <3>2
  <2>10. ASSUME ee.blind = 0
         PROVE  Sound(module, e)
    <3>1. SoFar(module, ee) /\ More(module, ee) /\ Sees(module, ee)
      BY <1>1, <2>10 DEF EeInv, EeAt, Sound
    <3>2. n \in Nat /\ n <= ee.at.len /\ ee.i \in Nat /\ Len(ee.data) = ee.req.len /\ ee.i < ee.req.len
      BY <2>1, <2>2, <3>1 DEF Sees, SoFar, More
    <3>3. ASSUME NEW j \in 1 .. ee.req.len
          PROVE  d[j] = IF j <= c THEN Wanted(module, ee.req, j) ELSE Zero
      <4>1. j \in Int /\ j >= 1
        BY <2>1
      <4>2. d[j] = IF j > ee.i /\ j <= ee.i + n
                   THEN Shown(module, ee.at.addr, ee.at.off + (j - ee.i) - 1) ELSE ee.data[j]
        BY <2>3, <3>2
      <4>3. ee.data[j] = IF j <= ee.i THEN Wanted(module, ee.req, j) ELSE Zero
        BY <3>1 DEF SoFar
      <4>4. CASE j <= ee.i
        <5>1. ~(j > ee.i) /\ j <= c
          BY <2>7, <3>2, <4>1, <4>4
        <5> QED BY <4>2, <4>3, <4>4, <5>1
      <4>5. CASE j > ee.i /\ j <= c
        <5>1. PICK k \in 1 .. ee.at.len : k = j - ee.i /\ ee.i + k = j
          <6>1. j - ee.i \in 1 .. ee.at.len /\ ee.i + (j - ee.i) = j
            BY <2>1, <2>7, <3>2, <4>1, <4>5
          <6> QED BY <6>1
        <5>2. Wanted(module, ee.req, ee.i + k) = Shown(module, ee.at.addr, ee.at.off + k - 1)
          BY <3>1 DEF Sees
        <5>3. d[j] = Shown(module, ee.at.addr, ee.at.off + k - 1)
          BY <2>7, <4>2, <4>5, <5>1
        <5> QED BY <4>5, <5>1, <5>2, <5>3
      <4>6. CASE j > ee.i /\ ~(j <= c)
        <5>1. ~(j <= ee.i)
          BY <3>2, <4>1, <4>6
        <5> QED BY <2>7, <4>2, <4>3, <4>6, <5>1
      <4> QED BY <3>2, <4>1, <4>4, <4>5, <4>6
    <3>4. c >= 0
      BY <2>7, <3>2
    <3>5. c <= ee.req.len /\ (p # "done" => c < ee.req.len)
      <4>1. n <= ee.req.len - ee.i
        BY <2>1, <3>1, <3>2 DEF Sees
      <4>2. p # "done" => ~(ee.i + n >= ee.req.len)
        BY <2>4
      <4> QED BY <2>1, <2>7, <3>2, <4>1, <4>2
    <3>6. SoFar(module, e)
      BY <2>3, <2>9, <3>2, <3>3, <3>4, <3>5 DEF SoFar
    <3>7. Ends(e)
      <4>1. ee.req.op # "flat" => z <= c
        BY <2>6, <2>7, <3>2
      <4>2. p = "done" /\ c < ee.req.len => y
        <5>1. p = "done" => n = 0 \/ ee.i + n >= ee.req.len
          BY <2>4
        <5>2. p = "done" /\ c < ee.req.len => n = 0
          BY <2>1, <2>7, <3>2, <5>1
        <5> QED BY <2>8, <5>2
      <4> QED BY <2>9, <4>1, <4>2 DEF Ends
    <3>8. CASE p = "done"
      BY <2>9, <3>6, <3>7, <3>8 DEF Sound
    <3>9. CASE p # "done"
      <4>1. More(module, e)
        BY <2>9, <3>1, <3>5, <3>9 DEF More
      <4>2. CASE ee.req.op = "flat"
        <5>1. p = "locate"
          BY <2>4, <3>9, <4>2
        <5> QED BY <2>9, <3>6, <3>7, <4>1, <4>2, <5>1 DEF Sound
      <4>3. CASE ee.req.op # "flat"
        <5>1. p = "select" /\ ee.req.op = "page"
          BY <2>1, <2>4, <3>9, <4>3 DEF Requests
        <5>2. ASSUME NEW k \in 1 .. a.len
              PROVE  Wanted(module, ee.req, c + k) = Byte(a.addr, a.page, a.off + k - 1)
          <6>1. PICK x \in Int : x = ee.req.off + (c + k) - 1 /\ x = a.off + k - 1
            <7>1. a.off \in Int /\ a.len \in Int
              BY DEF Requests
            <7>2. k \in Int
              BY <7>1
            <7>3. ee.req.off + (c + k) - 1 = a.off + k - 1 /\ a.off + k - 1 \in Int
              <8>1. a.off = ee.req.off + c
                BY <2>5, <2>7, <4>3
              <8> QED BY ONLY <2>1, <7>1, <7>2, <8>1, c \in Int
            <7> QED BY <7>3
          <6>2. Wanted(module, ee.req, c + k) = Byte(ee.req.addr, ee.req.page, x)
            BY <5>1, <6>1 DEF Wanted
          <6> QED BY <2>5, <4>3, <6>1, <6>2
        <5>3. a.len > 0
          BY <2>1, <2>5, <2>7, <3>5, <3>9, <4>3
        <5>4. Aims(module, e)
          <6>1. a.len <= ee.req.len - c
            BY <2>1, <2>5, <2>7, <4>3
          <6> QED BY <2>9, <5>2, <5>3, <6>1 DEF Aims
        <5> QED BY <2>9, <3>6, <3>7, <4>1, <5>1, <5>4 DEF Sound
      <4> QED BY <4>2, <4>3
    <3> QED BY <3>8, <3>9
  <2> QED BY <1>1, <2>9, <2>10 DEF EeInv, EeAt
<1> QED BY <1>2, <1>3

\* The request is over.
LEMMA AnsweredKeeps ==
  ASSUME EeInv, Answered
  PROVE  EeInv'
<1>1. module' = module /\ module \in Modules /\ ee' = Idle
  BY DEF Answered, EeInv, EeAt
<1>2. EeAt(module, Idle)
  BY <1>1, IdleHolds
<1> QED BY <1>1, <1>2 DEF EeInv

---------------------------------------------------------------------------
\* The bytes so far are right after every step.
LEMMA EeInvariance == EeSpec => []EeInv
<1>1. ASSUME EeInv, [EeNext]_eeVars
      PROVE  EeInv'
  <2>1. CASE Ask
    BY <1>1, <2>1, AskKeeps
  <2>2. CASE Info
    BY <1>1, <2>2, InfoKeeps
  <2>3. CASE Locate
    BY <1>1, <2>3, LocateKeeps
  <2>4. CASE SelectPage
    BY <1>1, <2>4, SelectPageKeeps
  <2>5. CASE ReadBlock
    BY <1>1, <2>5, ReadBlockKeeps
  <2>6. CASE Answered
    BY <1>1, <2>6, AnsweredKeeps
  <2>7. CASE UNCHANGED eeVars
    <3>1. module' = module /\ ee' = ee
      BY <2>7 DEF eeVars
    <3> QED BY <1>1, <3>1 DEF EeInv
  <2> QED BY <1>1, <2>1, <2>2, <2>3, <2>4, <2>5, <2>6, <2>7 DEF EeNext, EeRequest
<1> QED BY <1>1, EeStarts, PTL DEF EeSpec

\* Every byte that mqnic_get_module_eeprom and mqnic_get_module_eeprom_by_page
\* have read and hand out is the one that was asked for, and the others are 0 and
\* follow a transfer without bytes: for every size of the windows and of a
\* transfer, every module, every fault and whatever page the calls before left
\* selected.
THEOREM BytesAskedFor == EeSpec => []EepromTrue
<1>1. ASSUME EeInv
      PROVE  EepromTrue
  <2>1. SUFFICES ASSUME ee.pc = "done", ee.ret >= 0, ee.blind = 0, NEW j \in Handed
                 PROVE  IF j <= ee.i THEN ee.data[j] = WantedByte(ee.req, j)
                        ELSE ee.empty /\ ee.data[j] = Zero
    BY DEF EepromTrue
  <2>2. SoFar(module, ee) /\ Ends(ee) /\ ee \in Calls
    BY <1>1, <2>1 DEF EeInv, EeAt, Sound
  <2>3. ee.req.len \in Int /\ ee.i \in Int /\ ee.ret \in Int
    BY <2>2 DEF Calls, Requests
  <2>4. j \in 1 .. ee.req.len
    BY <2>1, <2>2, <2>3 DEF Handed, Ends, SoFar
  <2>5. ee.data[j] = IF j <= ee.i THEN Wanted(module, ee.req, j) ELSE Zero
    BY <2>2, <2>4 DEF SoFar
  <2>6. ~(j <= ee.i) => ee.i < ee.req.len
    BY <2>3, <2>4
  <2>7. ~(j <= ee.i) => ee.empty
    BY <2>1, <2>2, <2>6 DEF Ends
  <2> QED BY <2>5, <2>7, OfThisModule
<1> QED BY <1>1, EeInvariance, PTL

---------------------------------------------------------------------------
(* The presets of a transceiver.                                           *)

\* The registers of a channel that a preset sets and an eye scan must leave
\* alone, and an update that does.
Rate == {"tx_reset", "rx_reset", "tx_qpll_sel", "rx_qpll_sel", "base", "eq", "rx_lpm_en",
         "lost"}
Same(r, s) ==
  /\ DOMAIN s = DOMAIN r
  /\ s.tx_reset = r.tx_reset /\ s.rx_reset = r.rx_reset
  /\ s.tx_qpll_sel = r.tx_qpll_sel /\ s.rx_qpll_sel = r.rx_qpll_sel
  /\ s.base = r.base /\ s.eq = r.eq /\ s.rx_lpm_en = r.rx_lpm_en /\ s.lost = r.lost

\* PresetsCoherent, of one channel with the registers r, when QPLL1 is off (1)
\* or on (0); a GTH stays at 10G.
Missed(r, ws) == r.lost \cap ws # {}
Coherent(pd, r) ==
  /\ Rate \subseteq DOMAIN r /\ r.rx_lpm_en \in BOOLEAN
  /\ family \in {"gthe3", "gthe4"} => r.base = "10g"
  /\ r.tx_reset = 0 \/ Missed(r, {"tx_release", "tx_clear"})
  /\ r.rx_reset = 0 \/ Missed(r, {"rx_release", "rx_clear"})
  /\ r.tx_qpll_sel = r.rx_qpll_sel \/ Missed(r, {"tx_qpll_sel", "rx_qpll_sel"})
  /\ (r.tx_qpll_sel = 1 => pd = 0) \/ Missed(r, {"qpll1_pd"})
  /\ \/ family \in {"gtye3", "gtye4"} /\ q25g => (r.tx_qpll_sel = 0 <=> r.base = "25g")
     \/ Missed(r, {"tx_qpll_sel", "base"})
  /\ r.eq[1] \in {r.base, "any"} \/ Missed(r, {"base", "eq"})
  /\ (r.rx_lpm_en <=> r.eq[2] = "lpm") \/ Missed(r, {"eq", "rx_lpm_en"})

XcvrInv ==
  /\ family \in Families /\ q25g \in BOOLEAN /\ xopt.preset \in Presets
  /\ pll \in [qpll1_pd : {0, 1}]
  /\ DOMAIN reg = Channels /\ \A c \in Channels : Coherent(pll.qpll1_pd, reg[c])

\* A channel stays coherent when only other registers change ...
LEMMA SameCoherent ==
  ASSUME NEW r, NEW s, NEW pd, Coherent(pd, r), Same(r, s)
  PROVE  Coherent(pd, s)
  BY DEF Same, Coherent, Missed

\* ... and when QPLL1 is powered up.
LEMMA PoweredUp ==
  ASSUME NEW r, NEW pd, Coherent(pd, r)
  PROVE  Coherent(0, r)
  BY DEF Coherent

\* Leaving the rate alone twice leaves it alone.
LEMMA SameTwice ==
  ASSUME NEW r, NEW s, NEW u, Same(r, s), Same(s, u)
  PROVE  Same(r, u)
  BY DEF Same

\* The updates of an eye scan.
LEMMA ScanUpdates ==
  ASSUME NEW r, Rate \subseteq DOMAIN r
  PROVE  /\ \A v : Same(r, SetV(r, v))
         /\ \A h : Same(r, [r EXCEPT !.horz = h])
         /\ \A h, p : Same(r, [r EXCEPT !.horz = h, !.prescale = p])
         /\ \A u : Same(r, [r EXCEPT !.ut_sign = u])
         /\ \A h, u, p, m : Same(r, Pulse([r EXCEPT !.horz = h, !.ut_sign = u, !.prescale = p,
                                                  !.mask = m], "rx_pma_reset"))
<1>1. ASSUME NEW v PROVE Same(r, SetV(r, v))
  BY DEF Same, SetV, Rate
<1>2. ASSUME NEW h PROVE Same(r, [r EXCEPT !.horz = h])
  BY DEF Same, Rate
<1>3. ASSUME NEW h, NEW p PROVE Same(r, [r EXCEPT !.horz = h, !.prescale = p])
  BY DEF Same, Rate
<1>4. ASSUME NEW u PROVE Same(r, [r EXCEPT !.ut_sign = u])
  BY DEF Same, Rate
<1>5. ASSUME NEW h, NEW u, NEW p, NEW m
      PROVE  Same(r, Pulse([r EXCEPT !.horz = h, !.ut_sign = u, !.prescale = p, !.mask = m],
                           "rx_pma_reset"))
  <2>1. PICK s : s = [r EXCEPT !.horz = h, !.ut_sign = u, !.prescale = p, !.mask = m]
    OBVIOUS
  <2>2. Same(r, s)
    BY <2>1 DEF Same, Rate
  <2>3. Same(s, Pulse(s, "rx_pma_reset"))
    BY <2>2 DEF Same, Rate, Pulse
  <2> QED BY <2>1, <2>2, <2>3, SameTwice
<1> QED BY <1>1, <1>2, <1>3, <1>4, <1>5, Zenon

\* What leaves the rate alone keeps its fields.
LEMMA SameDomain ==
  ASSUME NEW r, NEW s, Same(r, s), Rate \subseteq DOMAIN r
  PROVE  Rate \subseteq DOMAIN s
  BY DEF Same

\* Centring the sampler leaves the rate alone.
LEMMA CentreSame ==
  ASSUME NEW r, NEW horz, NEW mask, Rate \subseteq DOMAIN r
  PROVE  Same(r, Centre(r, horz, mask))
<1>1. PICK s : s = SetV(r, 0)
  OBVIOUS
<1>2. Same(r, s) /\ Rate \subseteq DOMAIN s
  BY <1>1, ScanUpdates, SameDomain
<1>3. Same(s, Centre(r, horz, mask))
  BY <1>1, <1>2, ScanUpdates DEF Centre
<1> QED BY <1>2, <1>3, SameTwice

\* So does going to the corner of the grid.
LEMMA CornerSame ==
  ASSUME NEW r, NEW horz, NEW mask, NEW bits, Rate \subseteq DOMAIN r
  PROVE  Same(r, Corner(r, horz, mask, bits))
<1>1. PICK s : s = Centre(r, horz, mask)
  OBVIOUS
<1>2. Same(r, s) /\ Rate \subseteq DOMAIN s
  BY <1>1, CentreSame, SameDomain
<1>3. PICK u : u = SetV(s, -V_STOP)
  OBVIOUS
<1>4. Same(s, u) /\ Rate \subseteq DOMAIN u
  BY <1>2, <1>3, ScanUpdates, SameDomain
<1>5. Same(u, Corner(r, horz, mask, bits))
  BY <1>1, <1>3, <1>4, ScanUpdates DEF Corner
<1> QED BY <1>2, <1>4, <1>5, SameTwice

\* The start of a scan and each of its steps leave the preset alone, in every family.
LEMMA StartSame ==
  ASSUME NEW r, NEW aligned, NEW bits, Rate \subseteq DOMAIN r, family \in Families
  PROVE  Same(r, gt_ch_eyescan_start(r, aligned, bits))
<1>1. family \in {"gthe3", "gthe4", "gtye3", "gtye4"}
  BY TransceiverAssumption
<1>2. \A horz, mask : Same(r, IF aligned THEN Corner(r, horz, mask, bits) ELSE Centre(r, horz, mask))
  BY CentreSame, CornerSame, Zenon
<1>3. CASE family = "gthe3"
  BY <1>2, <1>3 DEF gt_ch_eyescan_start, gthe3_ch_eyescan_start
<1>4. CASE family = "gthe4"
  BY <1>2, <1>4 DEF gt_ch_eyescan_start, gthe4_ch_eyescan_start
<1>5. CASE family = "gtye3"
  BY <1>2, <1>5 DEF gt_ch_eyescan_start, gtye3_ch_eyescan_start
<1>6. CASE family = "gtye4"
  BY <1>2, <1>6 DEF gt_ch_eyescan_start, gtye4_ch_eyescan_start
<1> QED BY <1>1, <1>3, <1>4, <1>5, <1>6

\* So does going to the next point.
LEMMA AdvanceSame ==
  ASSUME NEW p, NEW r, NEW horz, Rate \subseteq DOMAIN r
  PROVE  Same(r, Advance(p, r, horz).reg)
<1> DEFINE sign == NextUt(p)
           up == ~sign /\ p.v < V_STOP
           right == ~sign /\ ~up /\ p.h < H_STOP
           p2 == [p EXCEPT !.ut = IF sign THEN 1 ELSE 0,
                           !.v = IF sign THEN @ ELSE IF up THEN @ + GRID_STEP ELSE -V_STOP,
                           !.h = IF right THEN @ + GRID_STEP ELSE @,
                           !.running = sign \/ up \/ right]
           r2 == [r EXCEPT !.ut_sign = p2.ut]
           r3 == IF sign THEN r2 ELSE SetV(r2, p2.v)
<1>1. Advance(p, r, horz).reg = IF right THEN [r3 EXCEPT !.horz = horz[p2.h]] ELSE r3
  BY DEF Advance
<1> HIDE DEF p2
<1>2. Same(r, r2) /\ Rate \subseteq DOMAIN r2
  BY ScanUpdates, SameDomain
<1> HIDE DEF r2
<1>3. Same(r, r3) /\ Rate \subseteq DOMAIN r3
  BY <1>2, ScanUpdates, SameTwice, SameDomain
<1> HIDE DEF r3
<1>4. Same(r, IF right THEN [r3 EXCEPT !.horz = horz[p2.h]] ELSE r3)
  BY <1>3, ScanUpdates, SameTwice
<1> QED BY <1>1, <1>4

\* So does a step of an eye scan, in every family.
LEMMA StepSame ==
  ASSUME NEW p, NEW r, Rate \subseteq DOMAIN r, family \in Families
  PROVE  Same(r, gt_ch_eyescan_step(p, r).reg)
<1>1. family \in {"gthe3", "gthe4", "gtye3", "gtye4"}
  BY TransceiverAssumption
<1>2. \A horz : Same(r, Advance(p, r, horz).reg)
  BY AdvanceSame
<1>3. CASE family = "gthe3"
  BY <1>2, <1>3 DEF gt_ch_eyescan_step, gthe3_ch_eyescan_step
<1>4. CASE family = "gthe4"
  BY <1>2, <1>4 DEF gt_ch_eyescan_step, gthe4_ch_eyescan_step
<1>5. CASE family = "gtye3"
  BY <1>2, <1>5 DEF gt_ch_eyescan_step, gtye3_ch_eyescan_step
<1>6. CASE family = "gtye4"
  BY <1>2, <1>6 DEF gt_ch_eyescan_step, gtye4_ch_eyescan_step
<1> QED BY <1>1, <1>3, <1>4, <1>5, <1>6

\* The parts of a rate that a write leaves alone, and the writes that failed,
\* which are not forgotten.
Grows(r, s) == DOMAIN s = DOMAIN r /\ r.lost \subseteq s.lost
SameResets(r, s) == s.tx_reset = r.tx_reset /\ s.rx_reset = r.rx_reset
SamePll(r, s) == s.tx_qpll_sel = r.tx_qpll_sel /\ s.rx_qpll_sel = r.rx_qpll_sel
SameTables(r, s) == s.base = r.base /\ s.eq = r.eq /\ s.rx_lpm_en = r.rx_lpm_en

\* Holding a channel in reset leaves the PLL and the tables alone ...
LEMMA HoldFields ==
  ASSUME NEW r, NEW lost, NEW s, s = HoldReset(r, lost), Rate \subseteq DOMAIN r
  PROVE  Grows(r, s) /\ SamePll(r, s) /\ SameTables(r, s)
  BY DEF HoldReset, Rate, Grows, SamePll, SameTables, Lost

\* ... and its release ends the reset, unless the write fails.
LEMMA ReleaseFields ==
  ASSUME NEW r, NEW lost, NEW s, s = Release(r, lost), Rate \subseteq DOMAIN r
  PROVE  /\ Grows(r, s) /\ SamePll(r, s) /\ SameTables(r, s)
         /\ s.tx_reset = 0 \/ "tx_release" \in s.lost
         /\ s.rx_reset = 0 \/ "rx_release" \in s.lost
  BY DEF Release, AfterWrite, Rate, Grows, SamePll, SameTables, Lost

\* Powering QPLL1 up is no write to a channel.
LEMMA PowerUpFields ==
  ASSUME NEW r, NEW lost, NEW s, s = PowerUp(r, lost), Rate \subseteq DOMAIN r
  PROVE  /\ Grows(r, s) /\ SameResets(r, s) /\ SamePll(r, s) /\ SameTables(r, s)
         /\ "qpll1_pd" \in lost => "qpll1_pd" \in s.lost
  BY DEF PowerUp, Rate, Grows, SameResets, SamePll, SameTables, Lost

\* The PLL of a direction is the one selected, unless the write fails.
LEMMA SelectFields ==
  ASSUME NEW r, NEW lost, NEW k, NEW s, s = Select(r, lost, k), Rate \subseteq DOMAIN r
  PROVE  /\ Grows(r, s) /\ SameResets(r, s) /\ SameTables(r, s)
         /\ s.tx_qpll_sel = k \/ (s.tx_qpll_sel = r.tx_qpll_sel /\ "tx_qpll_sel" \in s.lost)
         /\ s.rx_qpll_sel = k \/ "rx_qpll_sel" \in s.lost
  BY DEF Select, AfterWrite, Rate, Grows, SameResets, SameTables, Lost

\* The base table, whole unless a write fails.
LEMMA BaseFields ==
  ASSUME NEW r, NEW lost, NEW rate, NEW s, s = BaseTable(r, lost, rate), Rate \subseteq DOMAIN r
  PROVE  /\ Grows(r, s) /\ SameResets(r, s) /\ SamePll(r, s)
         /\ s.eq = r.eq /\ s.rx_lpm_en = r.rx_lpm_en
         /\ s.base = rate \/ "base" \in s.lost
  BY DEF BaseTable, AfterWrite, Rate, Grows, SameResets, SamePll, Lost

\* The equaliser table and the mode of the equaliser.
LEMMA EqFields ==
  ASSUME NEW r, NEW lost, NEW rate, NEW p \in Presets, NEW s, s = EqTable(r, lost, rate, p),
         Rate \subseteq DOMAIN r, r.rx_lpm_en \in BOOLEAN
  PROVE  /\ Grows(r, s) /\ SameResets(r, s) /\ SamePll(r, s)
         /\ s.base = r.base /\ s.rx_lpm_en \in BOOLEAN
         /\ s.eq[1] = rate \/ "eq" \in s.lost
         /\ (s.rx_lpm_en <=> s.eq[2] = "lpm") \/ "eq" \in s.lost \/ "rx_lpm_en" \in s.lost
<1>1. PICK e : e = <<rate, IF IsLpm(p) THEN "lpm" ELSE "dfe">>
  OBVIOUS
<1>2. PICK b : b = IsLpm(p)
  OBVIOUS
<1>20. b \in BOOLEAN
  BY ONLY <1>2 DEF IsLpm
<1>3. e[1] = rate /\ (b <=> e[2] = "lpm")
  BY <1>1, <1>2
<1>4. PICK e1 : e1 = AfterWrite(lost, "eq", <<"mixed", "mixed">>, e)
  OBVIOUS
<1>5. PICK b1 : b1 = AfterWrite(lost, "rx_lpm_en", r.rx_lpm_en, b)
  OBVIOUS
<1>6. PICK l : l = Lost(r, lost, {"eq", "rx_lpm_en"})
  OBVIOUS
<1>7. s = [r EXCEPT !.eq = e1, !.rx_lpm_en = b1, !.lost = l]
  BY <1>1, <1>2, <1>4, <1>5, <1>6 DEF EqTable
<1>8. /\ e1 = e \/ "eq" \in l
      /\ b1 = b \/ "rx_lpm_en" \in l
      /\ r.lost \subseteq l
  BY <1>4, <1>5, <1>6 DEF AfterWrite, Lost
<1>9. b1 \in BOOLEAN
  BY <1>20, <1>5 DEF AfterWrite
<1>10. /\ DOMAIN s = DOMAIN r /\ s.tx_reset = r.tx_reset /\ s.rx_reset = r.rx_reset
       /\ s.tx_qpll_sel = r.tx_qpll_sel /\ s.rx_qpll_sel = r.rx_qpll_sel /\ s.base = r.base
       /\ s.eq = e1 /\ s.rx_lpm_en = b1 /\ s.lost = l
  BY <1>7 DEF Rate
<1> QED BY <1>3, <1>8, <1>9, <1>10 DEF Grows, SameResets, SamePll

\* The reset of -t, of the receiver and of the transmitter.
LEMMA ResetFields ==
  ASSUME NEW r, NEW lost, Rate \subseteq DOMAIN r
  PROVE  /\ \A s : s = RxReset(r, lost) =>
              /\ Grows(r, s) /\ SamePll(r, s) /\ SameTables(r, s) /\ s.tx_reset = r.tx_reset
              /\ s.rx_reset \in {0, r.rx_reset} \/ "rx_clear" \in s.lost
         /\ \A s : s = TxReset(r, lost) =>
              /\ Grows(r, s) /\ SamePll(r, s) /\ SameTables(r, s) /\ s.rx_reset = r.rx_reset
              /\ s.tx_reset \in {0, r.tx_reset} \/ "tx_clear" \in s.lost
<1>1. ASSUME NEW s, s = RxReset(r, lost)
      PROVE  /\ Grows(r, s) /\ SamePll(r, s) /\ SameTables(r, s) /\ s.tx_reset = r.tx_reset
             /\ s.rx_reset \in {0, r.rx_reset} \/ "rx_clear" \in s.lost
  BY <1>1 DEF RxReset, AfterWrite, Rate, Grows, SamePll, SameTables, Lost
<1>2. ASSUME NEW s, s = TxReset(r, lost)
      PROVE  /\ Grows(r, s) /\ SamePll(r, s) /\ SameTables(r, s) /\ s.rx_reset = r.rx_reset
             /\ s.tx_reset \in {0, r.tx_reset} \/ "tx_clear" \in s.lost
  BY <1>2 DEF TxReset, AfterWrite, Rate, Grows, SamePll, SameTables, Lost
<1> QED BY <1>1, <1>2, Zenon

\* A channel on which a base and an equaliser table have been written between a
\* reset and its release, whatever was lost on the way.
LEMMA LoadedCoherent ==
  ASSUME NEW x, NEW pd, NEW lost, NEW rate, NEW eqRate \in {rate, "any"}, NEW p \in Presets,
         Rate \subseteq DOMAIN x, x.rx_lpm_en \in BOOLEAN, family \in {"gtye3", "gtye4"},
         x.tx_qpll_sel = x.rx_qpll_sel \/ Missed(x, {"tx_qpll_sel", "rx_qpll_sel"}),
         (x.tx_qpll_sel = 1 => pd = 0) \/ Missed(x, {"qpll1_pd"}),
         q25g => (x.tx_qpll_sel = 0 <=> rate = "25g") \/ Missed(x, {"tx_qpll_sel"})
  PROVE  Coherent(pd, Release(EqTable(BaseTable(x, lost, rate), lost, eqRate, p), lost))
<1>1. PICK y : y = BaseTable(x, lost, rate)
  OBVIOUS
<1>2. /\ Grows(x, y) /\ SamePll(x, y) /\ y.rx_lpm_en = x.rx_lpm_en
      /\ y.base = rate \/ "base" \in y.lost
  BY <1>1, BaseFields
<1>3. PICK z : z = EqTable(y, lost, eqRate, p)
  OBVIOUS
<1>4. Rate \subseteq DOMAIN y /\ y.rx_lpm_en \in BOOLEAN
  BY <1>2 DEF Grows
<1>5. /\ Grows(y, z) /\ SamePll(y, z) /\ z.base = y.base /\ z.rx_lpm_en \in BOOLEAN
      /\ z.eq[1] = eqRate \/ "eq" \in z.lost
      /\ (z.rx_lpm_en <=> z.eq[2] = "lpm") \/ "eq" \in z.lost \/ "rx_lpm_en" \in z.lost
  BY <1>3, <1>4, EqFields
<1>6. PICK s : s = Release(z, lost)
  OBVIOUS
<1>7. Rate \subseteq DOMAIN z
  BY <1>4, <1>5 DEF Grows
<1>8. /\ Grows(z, s) /\ SamePll(z, s) /\ SameTables(z, s)
      /\ s.tx_reset = 0 \/ "tx_release" \in s.lost
      /\ s.rx_reset = 0 \/ "rx_release" \in s.lost
  BY <1>6, <1>7, ReleaseFields
<1>9. /\ Rate \subseteq DOMAIN s /\ x.lost \subseteq s.lost
      /\ s.tx_qpll_sel = x.tx_qpll_sel /\ s.rx_qpll_sel = x.rx_qpll_sel
      /\ s.base = rate \/ "base" \in s.lost
      /\ s.eq[1] = eqRate \/ "eq" \in s.lost
      /\ (s.rx_lpm_en <=> s.eq[2] = "lpm") \/ "eq" \in s.lost \/ "rx_lpm_en" \in s.lost
      /\ s.rx_lpm_en \in BOOLEAN
  BY <1>2, <1>5, <1>7, <1>8 DEF Grows, SamePll, SameTables
<1>10. Coherent(pd, s)
  BY <1>8, <1>9 DEF Coherent, Missed
<1> QED BY <1>1, <1>3, <1>6, <1>10

\* A preset of a GTH, which has no base table to load.
LEMMA GthCoherent ==
  ASSUME NEW r, NEW pd, NEW lost, NEW p \in Presets, Coherent(pd, r), family \in {"gthe3", "gthe4"}
  PROVE  Coherent(pd, Release(EqTable(HoldReset(r, lost), lost, "10g", p), lost))
<1>1. PICK y : y = HoldReset(r, lost)
  OBVIOUS
<1>2. Rate \subseteq DOMAIN r /\ r.rx_lpm_en \in BOOLEAN /\ r.base = "10g"
  BY DEF Coherent
<1>3. Grows(r, y) /\ SamePll(r, y) /\ SameTables(r, y)
  BY <1>1, <1>2, HoldFields
<1>4. PICK z : z = EqTable(y, lost, "10g", p)
  OBVIOUS
<1>5. Rate \subseteq DOMAIN y /\ y.rx_lpm_en \in BOOLEAN
  BY <1>2, <1>3 DEF Grows, SameTables
<1>6. /\ Grows(y, z) /\ SamePll(y, z) /\ z.base = y.base /\ z.rx_lpm_en \in BOOLEAN
      /\ z.eq[1] = "10g" \/ "eq" \in z.lost
      /\ (z.rx_lpm_en <=> z.eq[2] = "lpm") \/ "eq" \in z.lost \/ "rx_lpm_en" \in z.lost
  BY <1>4, <1>5, EqFields
<1>7. PICK s : s = Release(z, lost)
  OBVIOUS
<1>8. Rate \subseteq DOMAIN z
  BY <1>5, <1>6 DEF Grows
<1>9. /\ Grows(z, s) /\ SamePll(z, s) /\ SameTables(z, s)
      /\ s.tx_reset = 0 \/ "tx_release" \in s.lost
      /\ s.rx_reset = 0 \/ "rx_release" \in s.lost
  BY <1>7, <1>8, ReleaseFields
<1>10. /\ Rate \subseteq DOMAIN s /\ r.lost \subseteq s.lost
       /\ s.tx_qpll_sel = r.tx_qpll_sel /\ s.rx_qpll_sel = r.rx_qpll_sel
       /\ s.base = "10g"
       /\ s.eq[1] = "10g" \/ "eq" \in s.lost
       /\ (s.rx_lpm_en <=> s.eq[2] = "lpm") \/ "eq" \in s.lost \/ "rx_lpm_en" \in s.lost
       /\ s.rx_lpm_en \in BOOLEAN
  BY <1>2, <1>3, <1>6, <1>8, <1>9 DEF Grows, SamePll, SameTables
<1>11. Coherent(pd, s)
  BY <1>9, <1>10 DEF Coherent, Missed
<1> QED BY <1>1, <1>4, <1>7, <1>11

\* The two rates of a GTY.
LEMMA GtyCoherent ==
  ASSUME NEW r, NEW pd, NEW lost, NEW p \in Presets, Coherent(pd, r), family \in {"gtye3", "gtye4"}
  PROVE  /\ \A eqRate \in {"10g", "any"} :
              (q25g => pd = 0 \/ "qpll1_pd" \in lost) => Coherent(pd, Gty10G(r, lost, eqRate, p))
         /\ \A eqRate \in {"25g", "any"} : q25g => Coherent(pd, Gty25G(r, lost, eqRate, p))
<1>1. Rate \subseteq DOMAIN r /\ r.rx_lpm_en \in BOOLEAN
  BY DEF Coherent
<1>2. ASSUME NEW eqRate \in {"10g", "any"}, q25g => pd = 0 \/ "qpll1_pd" \in lost
      PROVE  Coherent(pd, Gty10G(r, lost, eqRate, p))
  <2>1. CASE q25g
    <3>1. PICK a : a = PowerUp(r, lost)
      OBVIOUS
    <3>2. /\ Grows(r, a) /\ SameTables(r, a)
          /\ "qpll1_pd" \in lost => "qpll1_pd" \in a.lost
      BY <1>1, <3>1, PowerUpFields
    <3>3. PICK b : b = HoldReset(a, lost)
      OBVIOUS
    <3>4. Rate \subseteq DOMAIN a
      BY <1>1, <3>2 DEF Grows
    <3>5. Grows(a, b) /\ SameTables(a, b)
      BY <3>3, <3>4, HoldFields
    <3>6. PICK x : x = Select(b, lost, 1)
      OBVIOUS
    <3>7. Rate \subseteq DOMAIN b
      BY <3>4, <3>5 DEF Grows
    <3>8. /\ Grows(b, x) /\ SameTables(b, x)
          /\ x.tx_qpll_sel = 1 \/ "tx_qpll_sel" \in x.lost
          /\ x.rx_qpll_sel = 1 \/ "rx_qpll_sel" \in x.lost
      BY <3>6, <3>7, SelectFields
    <3>9. Rate \subseteq DOMAIN x /\ x.rx_lpm_en \in BOOLEAN
      BY <1>1, <3>2, <3>5, <3>7, <3>8 DEF Grows, SameTables
    <3>10. pd = 0 \/ "qpll1_pd" \in x.lost
      BY <1>2, <2>1, <3>2, <3>5, <3>8 DEF Grows
    <3>11. Coherent(pd, Release(EqTable(BaseTable(x, lost, "10g"), lost, eqRate, p), lost))
      <4>1. x.tx_qpll_sel = x.rx_qpll_sel \/ Missed(x, {"tx_qpll_sel", "rx_qpll_sel"})
        BY <3>8 DEF Missed
      <4>2. (x.tx_qpll_sel = 1 => pd = 0) \/ Missed(x, {"qpll1_pd"})
        BY <3>10 DEF Missed
      <4>3. (x.tx_qpll_sel = 0 <=> "10g" = "25g") \/ Missed(x, {"tx_qpll_sel"})
        BY <3>8 DEF Missed
      <4>4. PICK rate : rate = "10g"
        OBVIOUS
      <4>5. Coherent(pd, Release(EqTable(BaseTable(x, lost, rate), lost, eqRate, p), lost))
        BY <3>9, <4>1, <4>2, <4>3, <4>4, LoadedCoherent
      <4> QED BY <4>4, <4>5
    <3>12. Gty10G(r, lost, eqRate, p) = Release(EqTable(BaseTable(x, lost, "10g"), lost, eqRate, p), lost)
      BY <2>1, <3>1, <3>3, <3>6 DEF Gty10G
    <3> QED BY <3>11, <3>12
  <2>2. CASE ~q25g
    <3>1. PICK x : x = HoldReset(r, lost)
      OBVIOUS
    <3>2. Grows(r, x) /\ SamePll(r, x) /\ SameTables(r, x)
      BY <1>1, <3>1, HoldFields
    <3>3. /\ Rate \subseteq DOMAIN x /\ x.rx_lpm_en \in BOOLEAN
          /\ x.tx_qpll_sel = x.rx_qpll_sel \/ Missed(x, {"tx_qpll_sel", "rx_qpll_sel"})
          /\ (x.tx_qpll_sel = 1 => pd = 0) \/ Missed(x, {"qpll1_pd"})
      BY <3>2 DEF Coherent, Grows, SamePll, SameTables, Missed
    <3>4. PICK rate : rate = "10g"
      OBVIOUS
    <3>5. Coherent(pd, Release(EqTable(BaseTable(x, lost, rate), lost, eqRate, p), lost))
      BY <2>2, <3>3, <3>4, LoadedCoherent
    <3>6. Gty10G(r, lost, eqRate, p) = Release(EqTable(BaseTable(x, lost, rate), lost, eqRate, p), lost)
      BY <2>2, <3>1, <3>4 DEF Gty10G
    <3> QED BY <3>5, <3>6
  <2> QED BY <2>1, <2>2
<1>3. ASSUME NEW eqRate \in {"25g", "any"}, q25g
      PROVE  Coherent(pd, Gty25G(r, lost, eqRate, p))
  <2>1. PICK b : b = HoldReset(r, lost)
    OBVIOUS
  <2>2. Grows(r, b) /\ SamePll(r, b) /\ SameTables(r, b)
    BY <1>1, <2>1, HoldFields
  <2>3. PICK x : x = Select(b, lost, 0)
    OBVIOUS
  <2>4. Rate \subseteq DOMAIN b
    BY <1>1, <2>2 DEF Grows
  <2>5. /\ Grows(b, x) /\ SameTables(b, x)
        /\ x.tx_qpll_sel = 0 \/ (x.tx_qpll_sel = b.tx_qpll_sel /\ "tx_qpll_sel" \in x.lost)
        /\ x.rx_qpll_sel = 0 \/ "rx_qpll_sel" \in x.lost
    BY <2>3, <2>4, SelectFields
  <2>6. Rate \subseteq DOMAIN x /\ x.rx_lpm_en \in BOOLEAN /\ r.lost \subseteq x.lost
    BY <1>1, <2>2, <2>4, <2>5 DEF Grows, SameTables
  <2>7. x.tx_qpll_sel = x.rx_qpll_sel \/ Missed(x, {"tx_qpll_sel", "rx_qpll_sel"})
    BY <2>5 DEF Missed
  <2>8. (x.tx_qpll_sel = 1 => pd = 0) \/ Missed(x, {"qpll1_pd"})
    <3>1. CASE x.tx_qpll_sel = 0
      BY <3>1
    <3>2. CASE x.tx_qpll_sel = r.tx_qpll_sel
      BY <2>6, <3>2 DEF Coherent, Missed
    <3> QED BY <2>2, <2>5, <3>1, <3>2 DEF SamePll
  <2>9. PICK rate : rate = "25g"
    OBVIOUS
  <2>10. (x.tx_qpll_sel = 0 <=> rate = "25g") \/ Missed(x, {"tx_qpll_sel"})
    BY <2>5, <2>9 DEF Missed
  <2>11. Coherent(pd, Release(EqTable(BaseTable(x, lost, rate), lost, eqRate, p), lost))
    BY <2>6, <2>7, <2>8, <2>9, <2>10, LoadedCoherent
  <2>12. Gty25G(r, lost, eqRate, p) = Release(EqTable(BaseTable(x, lost, rate), lost, eqRate, p), lost)
    BY <2>1, <2>3, <2>9 DEF Gty25G
  <2> QED BY <2>11, <2>12
<1> QED BY <1>2, <1>3

\* The presets of each family keep a channel coherent, with QPLL1 as the preset
\* leaves it, whichever of their writes fail.
LEMMA PresetCoherent ==
  ASSUME XcvrInv, NEW c \in Channels, NEW lost
  PROVE  Coherent(PllFor(xopt.preset, lost).qpll1_pd, gt_ch_load_preset(reg[c], lost, xopt.preset))
<1>1. PICK p \in Presets : p = xopt.preset
  BY DEF XcvrInv
<1>2. PICK r : r = reg[c] /\ Coherent(pll.qpll1_pd, r)
  BY DEF XcvrInv
<1>4. family \in {"gthe3", "gthe4", "gtye3", "gtye4"}
  BY TransceiverAssumption DEF XcvrInv
<1>5. PICK pd : pd = PllFor(p, lost).qpll1_pd
  OBVIOUS
<1>6. (family \in {"gtye3", "gtye4"} /\ Is10G(p) /\ q25g) => pd = 0 \/ "qpll1_pd" \in lost
  BY <1>5 DEF PllFor, XcvrInv, AfterWrite
<1>7. pd = 0 \/ pd = pll.qpll1_pd
  BY <1>5 DEF PllFor, XcvrInv, AfterWrite
<1>8. Coherent(pd, r)
  BY <1>2, <1>7, PoweredUp
<1> SUFFICES Coherent(pd, gt_ch_load_preset(r, lost, p))
  BY <1>1, <1>2, <1>5
<1>11. CASE family = "gthe3"
  BY <1>8, <1>11, GthCoherent DEF gt_ch_load_preset, gthe3_ch_load_preset
<1>12. CASE family = "gthe4"
  BY <1>8, <1>12, GthCoherent DEF gt_ch_load_preset, gthe4_ch_load_preset
<1>13. CASE family = "gtye3"
  <2>1. gt_ch_load_preset(r, lost, p) = gtye3_ch_load_preset(r, lost, p)
    BY <1>13 DEF gt_ch_load_preset
  <2>2. CASE Is10G(p)
    BY <1>6, <1>8, <1>13, <2>1, <2>2, GtyCoherent DEF gtye3_ch_load_preset
  <2>3. CASE ~Is10G(p) /\ Is25G(p) /\ q25g
    BY <1>8, <1>13, <2>1, <2>3, GtyCoherent DEF gtye3_ch_load_preset
  <2>4. CASE ~Is10G(p) /\ ~(Is25G(p) /\ q25g)
    BY <1>8, <2>1, <2>4 DEF gtye3_ch_load_preset
  <2> QED BY <2>2, <2>3, <2>4
<1>14. CASE family = "gtye4"
  <2>1. gt_ch_load_preset(r, lost, p) = gtye4_ch_load_preset(r, lost, p)
    BY <1>14 DEF gt_ch_load_preset
  <2>2. CASE Is10G(p)
    BY <1>6, <1>8, <1>14, <2>1, <2>2, GtyCoherent DEF gtye4_ch_load_preset
  <2>3. CASE ~Is10G(p) /\ Is25G(p) /\ q25g
    BY <1>8, <1>14, <2>1, <2>3, GtyCoherent DEF gtye4_ch_load_preset
  <2>4. CASE ~Is10G(p) /\ ~(Is25G(p) /\ q25g)
    BY <1>8, <2>1, <2>4 DEF gtye4_ch_load_preset
  <2> QED BY <2>2, <2>3, <2>4
<1> QED BY <1>4, <1>11, <1>12, <1>13, <1>14

\* The tool has loaded nothing.
LEMMA XcvrStarts == XcvrInit => XcvrInv
<1> SUFFICES ASSUME XcvrInit PROVE XcvrInv
  OBVIOUS
<1>1. /\ family \in Families /\ q25g \in BOOLEAN /\ xopt.preset \in Presets
      /\ pll \in [qpll1_pd : {0, 1}]
  BY DEF XcvrInit
<1>2. PICK dw \in [Channels -> RawWidths], lpm \in BOOLEAN :
        reg = [c \in Channels |->
                [tx_reset |-> 0, rx_reset |-> 0, rx_pma_reset |-> 0, tx_qpll_sel |-> 0, rx_qpll_sel |-> 0,
                 base |-> quad_rate, eq |-> <<quad_rate, IF lpm THEN "lpm" ELSE "dfe">>, rx_lpm_en |-> lpm,
                 dw |-> dw[c], idw |-> IDW, mask |-> {}, prescale |-> 0,
                 horz |-> 0, neg_dir |-> FALSE, vs_code |-> 0, ut_sign |-> 0, lost |-> {}]]
  BY DEF XcvrInit
<1>3. PICK rate : rate = quad_rate
  OBVIOUS
<1>4. PICK e : e = <<rate, IF lpm THEN "lpm" ELSE "dfe">>
  OBVIOUS
<1>5. e[1] = rate /\ (lpm <=> e[2] = "lpm")
  BY <1>4
<1>6. /\ family \in {"gtye3", "gtye4"} /\ q25g => rate = "25g"
      /\ family \in {"gthe3", "gthe4"} => rate = "10g"
  BY <1>3 DEF quad_rate
<1>7. ASSUME NEW c \in Channels
      PROVE  Coherent(pll.qpll1_pd, reg[c])
  <2>1. PICK r : r = reg[c]
    OBVIOUS
  <2>2. r = [tx_reset |-> 0, rx_reset |-> 0, rx_pma_reset |-> 0, tx_qpll_sel |-> 0, rx_qpll_sel |-> 0,
             base |-> rate, eq |-> e, rx_lpm_en |-> lpm,
             dw |-> dw[c], idw |-> IDW, mask |-> {}, prescale |-> 0,
             horz |-> 0, neg_dir |-> FALSE, vs_code |-> 0, ut_sign |-> 0, lost |-> {}]
    BY <1>2, <1>3, <1>4, <2>1, Zenon
  <2>3. /\ Rate \subseteq DOMAIN r
        /\ r.tx_reset = 0 /\ r.rx_reset = 0 /\ r.tx_qpll_sel = 0 /\ r.rx_qpll_sel = 0
        /\ r.base = rate /\ r.eq = e /\ r.rx_lpm_en = lpm
    BY <2>2 DEF Rate
  <2> QED BY <1>5, <1>6, <2>1, <2>3 DEF Coherent
<1>8. DOMAIN reg = Channels
  BY <1>2
<1> QED BY <1>1, <1>7, <1>8 DEF XcvrInv

\* The registers of one channel change, and stay coherent.
LEMMA OneChannel ==
  ASSUME XcvrInv, NEW k, NEW s, reg' = [reg EXCEPT ![k] = s],
         k \in Channels => Coherent(pll.qpll1_pd, s)', pll' \in [qpll1_pd : {0, 1}],
         pll' = pll \/ pll'.qpll1_pd = 0, UNCHANGED <<family, q25g, xopt>>
  PROVE  XcvrInv'
<1>1. DOMAIN reg' = Channels
  BY DEF XcvrInv
<1>2. ASSUME NEW c \in Channels
      PROVE  Coherent(pll.qpll1_pd, reg[c])'
  <2>1. CASE c = k
    <3>1. reg'[c] = s
      BY <2>1 DEF XcvrInv
    <3> QED BY <2>1, <3>1
  <2>2. CASE c # k
    <3>1. reg'[c] = reg[c]
      BY <2>2 DEF XcvrInv
    <3>2. Coherent(pll'.qpll1_pd, reg[c])
      BY PoweredUp DEF XcvrInv
    <3> QED BY <3>1, <3>2 DEF Coherent
  <2> QED BY <2>1, <2>2
<1> QED BY <1>1, <1>2 DEF XcvrInv

\* A step of a scan, which leaves the preset alone.
LEMMA ScanKeeps ==
  ASSUME XcvrInv, NEW k, NEW s, reg' = [reg EXCEPT ![k] = s], k \in Channels => Same(reg[k], s),
         UNCHANGED <<family, q25g, xopt, pll>>
  PROVE  XcvrInv'
<1>1. ASSUME k \in Channels
      PROVE  Coherent(pll.qpll1_pd, s)'
  <2>1. Coherent(pll.qpll1_pd, s)
    BY <1>1, SameCoherent DEF XcvrInv
  <2> QED BY <2>1 DEF Coherent
<1> QED BY <1>1, OneChannel DEF XcvrInv

\* A preset is loaded whole, but for what is lost.
LEMMA LoadPresetKeeps ==
  ASSUME XcvrInv, LoadPreset
  PROVE  XcvrInv'
<1>1. PICK k : k = thread.ch
  OBVIOUS
<1>2. PICK lost \in Losses :
        /\ pll' = PllFor(xopt.preset, lost)
        /\ reg' = [reg EXCEPT ![k] =
                    LET r == gt_ch_load_preset(@, lost, xopt.preset) IN
                    IF xopt.reset THEN TxReset(RxReset(r, lost), lost) ELSE r]
  BY <1>1 DEF LoadPreset
<1>3. PICK r : r = gt_ch_load_preset(reg[k], lost, xopt.preset)
  OBVIOUS
<1>4. PICK s : s = IF xopt.reset THEN TxReset(RxReset(r, lost), lost) ELSE r
  OBVIOUS
<1>5. reg' = [reg EXCEPT ![k] = s]
  BY <1>2, <1>3, <1>4
<1>6. UNCHANGED <<family, q25g, xopt>>
  BY DEF LoadPreset
<1>7. pll' \in [qpll1_pd : {0, 1}] /\ (pll' = pll \/ pll'.qpll1_pd = 0)
  BY <1>2 DEF PllFor, XcvrInv, AfterWrite
<1>8. ASSUME k \in Channels
      PROVE  Coherent(pll.qpll1_pd, s)'
  <2>1. Coherent(pll'.qpll1_pd, r)
    BY <1>2, <1>3, <1>8, PresetCoherent
  <2>2. Coherent(pll'.qpll1_pd, s)
    <3>1. CASE ~xopt.reset
      BY <1>4, <2>1, <3>1
    <3>2. CASE xopt.reset
      <4>1. PICK q : q = RxReset(r, lost)
        OBVIOUS
      <4>2. s = TxReset(q, lost)
        BY <1>4, <3>2, <4>1
      <4>3. Rate \subseteq DOMAIN r
        BY <2>1 DEF Coherent
      <4>4. /\ Grows(r, q) /\ SamePll(r, q) /\ SameTables(r, q) /\ q.tx_reset = r.tx_reset
            /\ q.rx_reset \in {0, r.rx_reset} \/ "rx_clear" \in q.lost
        BY <4>1, <4>3, ResetFields
      <4>5. Rate \subseteq DOMAIN q
        BY <4>3, <4>4 DEF Grows
      <4>6. /\ Grows(q, s) /\ SamePll(q, s) /\ SameTables(q, s) /\ s.rx_reset = q.rx_reset
            /\ s.tx_reset \in {0, q.tx_reset} \/ "tx_clear" \in s.lost
        BY <4>2, <4>5, ResetFields
      <4>7. Coherent(pll'.qpll1_pd, q)
        BY <2>1, <4>4, <4>5 DEF Coherent, Grows, SamePll, SameTables, Missed
      <4> QED BY <4>5, <4>6, <4>7 DEF Coherent, Grows, SamePll, SameTables, Missed
    <3> QED BY <3>1, <3>2
  <2> QED BY <1>6, <2>2 DEF Coherent
<1> QED BY <1>5, <1>6, <1>7, <1>8, OneChannel

\* Aligning the sampler leaves the presets alone.
LEMMA AlignKeeps ==
  ASSUME XcvrInv, NEW o, Align(o)
  PROVE  XcvrInv'
<1>1. PICK k : k = thread.ch
  OBVIOUS
<1>2. PICK r : r = gt_ch_eyescan_start(reg[k], FALSE, target)
  OBVIOUS
<1>3. UNCHANGED <<family, q25g, xopt, pll>>
  BY DEF Align
<1>4. ASSUME k \in Channels
      PROVE  Same(reg[k], r) /\ Rate \subseteq DOMAIN r
  <2>1. Rate \subseteq DOMAIN reg[k] /\ family \in Families
    BY <1>4 DEF XcvrInv, Coherent
  <2> QED BY <1>2, <2>1, StartSame, SameDomain
<1>5. CASE o = "high"
  <2>1. PICK h : h = 2048
    OBVIOUS
  <2>2. PICK s : s = [r EXCEPT !.horz = h]
    OBVIOUS
  <2>3. reg' = [reg EXCEPT ![k] = s]
    BY <1>1, <1>2, <1>5, <2>1, <2>2 DEF Align
  <2>4. k \in Channels => Same(reg[k], s)
    BY <1>4, <2>2, ScanUpdates, SameTwice
  <2> QED BY <1>3, <2>3, <2>4, ScanKeeps
<1>6. CASE o # "high"
  <2>1. reg' = [reg EXCEPT ![k] = r]
    BY <1>1, <1>2, <1>6 DEF Align
  <2> QED BY <1>3, <1>4, <2>1, ScanKeeps
<1> QED BY <1>5, <1>6

\* A measurement changes no register of the rate.
LEMMA MeasureKeeps ==
  ASSUME XcvrInv, Measure
  PROVE  XcvrInv'
<1>1. PICK k : k = thread.ch
  OBVIOUS
<1>2. PICK s : s = gt_ch_eyescan_start(reg[k], TRUE, target)
  OBVIOUS
<1>3. reg' = [reg EXCEPT ![k] = s] /\ UNCHANGED <<family, q25g, xopt, pll>>
  BY <1>1, <1>2 DEF Measure, XcvrStart
<1>4. k \in Channels => Same(reg[k], s)
  BY <1>2, StartSame DEF XcvrInv, Coherent
<1> QED BY <1>3, <1>4, ScanKeeps

\* Neither does a step from one point to the next.
LEMMA StepPointKeeps ==
  ASSUME XcvrInv, StepPoint
  PROVE  XcvrInv'
<1>1. PICK k : k = thread.ch
  OBVIOUS
<1>2. PICK s : s = gt_ch_eyescan_step(priv[k], reg[k]).reg
  OBVIOUS
<1>3. reg' = [reg EXCEPT ![k] = s] /\ UNCHANGED <<family, q25g, xopt, pll>>
  BY <1>1, <1>2 DEF StepPoint, XcvrStart
<1>4. k \in Channels => Same(reg[k], s)
  BY <1>2, StepSame DEF XcvrInv, Coherent
<1> QED BY <1>3, <1>4, ScanKeeps

\* The presets are whole after every step.
LEMMA XcvrInvariance == XcvrSpec => []XcvrInv
<1>1. ASSUME XcvrInv, [XcvrNext]_xcvrVars
      PROVE  XcvrInv'
  <2>1. CASE LoadPreset
    BY <1>1, <2>1, LoadPresetKeeps
  <2>2. ASSUME NEW o, Align(o) PROVE XcvrInv'
    BY <1>1, <2>2, AlignKeeps
  <2>3. CASE Measure
    BY <1>1, <2>3, MeasureKeeps
  <2>4. CASE StepPoint
    BY <1>1, <2>4, StepPointKeeps
  <2>5. CASE UNCHANGED <<family, q25g, xopt, pll, reg>>
    BY <1>1, <2>5 DEF XcvrInv, Coherent
  <2>6. CASE Skip \/ StepIdle \/ UNCHANGED xcvrVars \/ \E c \in Channels : EyeDone(c)
    <3>1. UNCHANGED <<family, q25g, xopt, pll, reg>>
      BY <2>6 DEF Skip, StepIdle, EyeDone, xcvrVars
    <3> QED BY <2>5, <3>1
  <2> QED BY <1>1, <2>1, <2>2, <2>3, <2>4, <2>6 DEF XcvrNext, XcvrTool
<1> QED BY <1>1, XcvrStarts, PTL DEF XcvrSpec

\* In each of the four families, for every quad, mask, preset and number of
\* channels, and whichever writes fail: what a preset leaves incoherent is what a
\* write that failed was to set, and no step of a scan that follows touches what a
\* preset has set.
THEOREM PresetsWhole == XcvrSpec => []PresetsCoherent
<1>1. ASSUME XcvrInv
      PROVE  PresetsCoherent
  BY <1>1 DEF XcvrInv, Coherent, PresetsCoherent, Missed
<1> QED BY <1>1, XcvrInvariance, PTL

---------------------------------------------------------------------------
(* The reset after a firmware update.                                      *)

\* An erase that is followed by a reset comes with a read or a write, without
\* which a run that finds no flash goes on to the reset.
Careful == \A o \in Options : o.erase /\ (o.boot \/ o.reset) => o.read \/ o.write

\* A chip an FPGA can load from.
Readable(ch) == ch.busy = FALSE /\ ch.mode # "status"
IsChip(ch) == {"busy", "mode"} \subseteq DOMAIN ch /\ ch.busy \in BOOLEAN
AllQuiet(C, ch) == \A c \in C : Readable(ch[c])

\* The work of the tool, as far as it matters here.
IsJobs(s) == \E S : s \in Seq(S) /\ \A j \in S : {"c", "left"} \subseteq DOMAIN j

\* While it works on flash the tool leaves one chip at most in another mode or
\* busy, and only within an operation on it.
Working(C, ch, u) ==
  /\ IsJobs(u.jobs) /\ u.then \in {"write", "written"}
  /\ u.jobs = <<>> => u.sub = "issue"
  /\ \A c \in C : Readable(ch[c]) \/ (u.jobs # <<>> /\ c = u.jobs[1].c)
  /\ u.sub # "wait" => \A c \in C : ch[c].busy = FALSE
  /\ \/ AllQuiet(C, ch) \/ u.sub = "wait"
     \/ (u.sub = "issue" /\ u.jobs # <<>> /\ u.jobs[1].left > 0)

\* The device is off the bus or its FPGA is loading.
Gone(h) == h.fpga = "loading" \/ ~h.present
Hosts == [dev : {"file", "direct", "none"}, fatal : {"on", "off", "missed"},
          driver : {"bound", "unbound", "missed"}, present : BOOLEAN, fpga : {"up", "loading"}]
\* The port has been prepared, as far as the tool can tell.
Tried(h) == h.fatal # "on" /\ h.driver # "bound" /\ h.dev # "file"

Fields == {"pc", "then", "jobs", "sub", "ret"}
FlashAt(C, o, ch, u, h) ==
  /\ h \in Hosts
  /\ Fields \subseteq DOMAIN u
  /\ DOMAIN ch = C /\ \A c \in C : IsChip(ch[c])
  /\ Gone(h) => u.pc \in {"close", "remove", "rescan", "end"} /\ Tried(h) /\ AllQuiet(C, ch)
  /\ ~h.present => h.dev = "none"
  /\ u.pc \in {"boot", "iprog", "close", "remove", "rescan"} => Tried(h)
  /\ u.pc \in {"boot", "remove", "rescan"} => h.dev = "none"
  /\ u.pc = "close" => h.present
  /\ u.pc \in {"erase", "write", "written", "read", "reset", "boot", "iprog", "close", "remove", "rescan"} =>
       AllQuiet(C, ch)
  /\ u.pc = "open" => /\ \A c \in C : ch[c].busy = FALSE
                      /\ AllQuiet(C, ch) \/ o.erase \/ o.write
  /\ u.pc = "skip" => AllQuiet(C, ch) \/ (u.ret # 0 /\ (o.erase \/ o.write))
  /\ u.pc = "job" => Working(C, ch, u) /\ (o.erase \/ o.write)
  /\ u.sub # "issue" => u.pc \in {"job", "end"}

FlashInv == set \in Setups /\ opt \in Options /\ FlashAt(Chips, opt, chip, t, host)

\* The invariant says what is claimed of a reset.
LEMMA QuietEnough ==
  ASSUME FlashInv
  PROVE  QuietReset
  BY DEF FlashInv, FlashAt, Gone, Tried, AllQuiet, Readable, QuietReset

\* Nothing changes the build, the options or the number of chips.
LEMMA FlashMoves ==
  ASSUME FlashInv, UNCHANGED <<set, opt>>, FlashAt(Chips, opt, chip', t', host')
  PROVE  FlashInv'
<1>1. Chips' = Chips
  BY DEF Chips
<1> QED BY <1>1 DEF FlashInv

\* Sequences of jobs.
LEMMA JobsRest ==
  ASSUME NEW s, IsJobs(s), s # <<>>
  PROVE  IsJobs(Tail(s)) /\ {"c", "left"} \subseteq DOMAIN s[1]
<1>1. PICK S : s \in Seq(S) /\ \A j \in S : {"c", "left"} \subseteq DOMAIN j
  BY DEF IsJobs
<1>2. Tail(s) \in Seq(S) /\ s[1] \in S
  BY <1>1
<1> QED BY <1>1, <1>2 DEF IsJobs

\* Jobs with another first one are jobs.
LEMMA JobsFront ==
  ASSUME NEW s, IsJobs(s), s # <<>>, NEW j, {"c", "left"} \subseteq DOMAIN j
  PROVE  LET r == <<j>> \o Tail(s) IN IsJobs(r) /\ r # <<>> /\ r[1] = j
<1>1. PICK S : s \in Seq(S) /\ \A x \in S : {"c", "left"} \subseteq DOMAIN x
  BY DEF IsJobs
<1>2. PICK W : W = S \cup {j}
  OBVIOUS
<1>3. PICK r : r = Tail(s)
  OBVIOUS
<1>4. r \in Seq(S)
  BY <1>1, <1>3
<1>5. r \in Seq(W)
  BY <1>2, <1>4, SeqDef
<1>6. <<j>> \in Seq(W) /\ Len(<<j>>) = 1 /\ <<j>>[1] = j
  BY <1>2
<1>7. /\ <<j>> \o r \in Seq(W) /\ Len(<<j>> \o r) = 1 + Len(r) /\ (<<j>> \o r)[1] = j
  BY <1>5, <1>6, ConcatProperties
<1>8. <<j>> \o r # <<>>
  BY <1>5, <1>7
<1>9. \A x \in W : {"c", "left"} \subseteq DOMAIN x
  BY <1>1, <1>2
<1> QED BY <1>3, <1>7, <1>8, <1>9 DEF IsJobs

\* The jobs of an operation on every chip are jobs.
LEMMA JobsBegin ==
  ASSUME NEW op, NEW a, NEW n
  PROVE  IsJobs(PerChip(op, a, n))
<1>1. \A c : {"c", "left"} \subseteq DOMAIN Job(op, c, a, n)
  BY DEF Job
<1>2. PICK x, y : x = Job(op, 1, a, n) /\ y = Job(op, 2, a, n)
  OBVIOUS
<1>3. PICK S : S = {x, y}
  OBVIOUS
<1>4. <<x, y>> \in Seq(S) /\ <<x>> \in Seq(S)
  BY <1>3
<1>5. \A j \in S : {"c", "left"} \subseteq DOMAIN j
  BY <1>1, <1>2, <1>3
<1>6. \A s \in Seq(S) : IsJobs(s)
  BY <1>5 DEF IsJobs
<1>7. IsJobs(<<x, y>>) /\ IsJobs(<<x>>)
  BY <1>4, <1>6
<1> QED BY <1>2, <1>7 DEF PerChip

\* Jobs followed by jobs are jobs.
LEMMA JobsBoth ==
  ASSUME NEW s, IsJobs(s), NEW r, IsJobs(r)
  PROVE  IsJobs(s \o r)
<1>1. PICK S : s \in Seq(S) /\ \A x \in S : {"c", "left"} \subseteq DOMAIN x
  BY DEF IsJobs
<1>2. PICK R : r \in Seq(R) /\ \A x \in R : {"c", "left"} \subseteq DOMAIN x
  BY DEF IsJobs
<1>3. PICK W : W = S \cup R
  OBVIOUS
<1>4. s \in Seq(W) /\ r \in Seq(W)
  BY <1>1, <1>2, <1>3, SeqDef
<1>5. s \o r \in Seq(W)
  BY <1>4, ConcatProperties
<1> QED BY <1>1, <1>2, <1>3, <1>5 DEF IsJobs

\* The commands of a driver: the fields of a chip stay.
LEMMA CellUpdates ==
  ASSUME NEW ch
  PROVE  /\ \A a, n : DOMAIN ErasedAt(ch, a, n) = DOMAIN ch
         /\ \A a, n, buf, base : DOMAIN ProgramAt(ch, a, n, buf, base) = DOMAIN ch
         /\ \A a : DOMAIN Unlock(ch, a) = DOMAIN ch
         /\ \A ok : DOMAIN Status(ch, ok) = DOMAIN ch
         /\ \A m : DOMAIN [ch EXCEPT !.mode = m] = DOMAIN ch
<1>1. \A a, n : DOMAIN ErasedAt(ch, a, n) = DOMAIN ch
  BY DEF ErasedAt
<1>2. \A a, n, buf, base : DOMAIN ProgramAt(ch, a, n, buf, base) = DOMAIN ch
  BY DEF ProgramAt
<1>3. \A a : DOMAIN Unlock(ch, a) = DOMAIN ch
  BY DEF Unlock
<1>4. \A ok : DOMAIN Status(ch, ok) = DOMAIN ch
  BY DEF Status
<1>5. \A m : DOMAIN [ch EXCEPT !.mode = m] = DOMAIN ch
  OBVIOUS
<1> QED BY <1>1, <1>2, <1>3, <1>4, <1>5

\* Erasing a sector keeps the fields of a chip.
LEMMA EraseFields ==
  ASSUME set \in Setups, NEW ch, NEW a, NEW n, NEW ok
  PROVE  DOMAIN SectorErase(ch, a, n, ok) = DOMAIN ch
<1>1. /\ set.kind = "bpi" => set.ops \in {"intel", "amd", "micron"}
      /\ set.kind # "bpi" => set.ops = "none"
  BY FlashAssumption
<1>2. CASE set.kind # "bpi"
  BY <1>1, <1>2, CellUpdates DEF SectorErase, spi_flash_erase
<1>3. CASE set.kind = "bpi" /\ set.ops = "intel"
  <2>1. PICK x : x = IF ok THEN ErasedAt(Unlock(ch, a), a, n) ELSE Unlock(ch, a)
    OBVIOUS
  <2>2. DOMAIN x = DOMAIN ch
    BY <2>1, CellUpdates
  <2>3. PICK y : y = Status(x, ok) /\ DOMAIN y = DOMAIN ch
    BY <2>2, CellUpdates
  <2>4. SectorErase(ch, a, n, ok) = [y EXCEPT !.mode = "status"]
    BY <1>3, <2>1, <2>3 DEF SectorErase, bpi_flash_intel_sector_erase
  <2> QED BY <2>3, <2>4
<1>4. CASE set.kind = "bpi" /\ set.ops = "amd"
  BY <1>4, CellUpdates DEF SectorErase, bpi_flash_amd_sector_erase
<1>5. CASE set.kind = "bpi" /\ set.ops = "micron"
  BY <1>5, CellUpdates DEF SectorErase, bpi_flash_micron_sector_erase
<1> QED BY <1>1, <1>2, <1>3, <1>4, <1>5

\* So does programming.
LEMMA ProgramFields ==
  ASSUME set \in Setups, NEW ch, NEW a, NEW n, NEW buf, NEW base, NEW ok
  PROVE  DOMAIN Program(ch, a, n, buf, base, ok) = DOMAIN ch
<1>1. /\ set.kind = "bpi" => set.ops \in {"intel", "amd", "micron"}
      /\ set.kind # "bpi" => set.ops = "none"
  BY FlashAssumption
<1>2. CASE set.kind # "bpi"
  BY <1>1, <1>2, CellUpdates DEF Program, spi_flash_write
<1>3. CASE set.kind = "bpi" /\ set.ops = "intel"
  <2> DEFINE can == ok /\ BlockOf(a) \notin ch.locked
             x == IF can THEN ProgramAt(ch, a, n, buf, base) ELSE ch
             y == Status(x, can)
  <2>1. Program(ch, a, n, buf, base, ok) = [y EXCEPT !.mode = "status"]
    BY <1>3 DEF Program, bpi_flash_intel_buffered_program
  <2>2. DOMAIN x = DOMAIN ch
    BY CellUpdates
  <2> HIDE DEF x
  <2>3. DOMAIN y = DOMAIN ch
    BY <2>2, CellUpdates
  <2> HIDE DEF y
  <2> QED BY <2>1, <2>3
<1>4. CASE set.kind = "bpi" /\ set.ops = "amd"
  BY <1>4, CellUpdates DEF Program, bpi_flash_amd_buffered_program
<1>5. CASE set.kind = "bpi" /\ set.ops = "micron"
  BY <1>5, CellUpdates DEF Program, bpi_flash_micron_buffered_program
<1> QED BY <1>1, <1>2, <1>3, <1>4, <1>5

\* A chip that is told to read its array, or is opened, is in no status mode.
LEMMA Deselected ==
  ASSUME NEW ch, IsChip(ch)
  PROVE  IsChip(Deselect(ch)) /\ Deselect(ch).busy = ch.busy /\ Deselect(ch).mode # "status"
  BY DEF IsChip, Deselect

\* A flash that was just opened reads as an array.
LEMMA Opened ==
  ASSUME NEW ch, IsChip(ch)
  PROVE  IsChip(FlashOpen(ch)) /\ FlashOpen(ch).busy = ch.busy /\ FlashOpen(ch).mode # "status"
<1>1. CASE set.kind # "bpi"
  BY <1>1 DEF IsChip, FlashOpen, spi_flash_init
<1>2. CASE set.kind = "bpi"
  <2>1. PICK q : FlashOpen(ch) = Deselect([ch EXCEPT !.mode = q])
    BY <1>2 DEF FlashOpen, bpi_flash_init
  <2>2. PICK d : d = [ch EXCEPT !.mode = q]
    OBVIOUS
  <2>3. IsChip(d) /\ d.busy = ch.busy
    BY <2>2 DEF IsChip
  <2> QED BY <2>1, <2>2, <2>3, Deselected
<1> QED BY <1>1, <1>2

\* Nothing has touched the chips.
LEMMA FlashStarts == FlashInit => FlashInv
<1> SUFFICES ASSUME FlashInit PROVE FlashInv
  OBVIOUS
<1>1. set \in Setups /\ opt \in Options /\ t = FwStart
  BY DEF FlashInit
<1>2. host \in Hosts /\ ~Gone(host)
  BY DEF FlashInit, Gone, Hosts
<1>3. PICK mode \in {"array"} \union (CASE set.ops = "intel" -> {"sync"} [] set.ops = "amd" -> {"abort"}
                                       [] OTHER -> {}) :
        chip = [c \in Chips |-> [mem |-> [a \in 0..ChipSize-1 |-> OldByte], mode |-> mode,
                                locked |-> {BlockOf(a) : a \in 0..SIZE-1}, busy |-> FALSE, err |-> FALSE]]
  BY DEF FlashInit
<1>4. mode # "status"
  <2>1. PICK M : M = CASE set.ops = "intel" -> {"sync"} [] set.ops = "amd" -> {"abort"} [] OTHER -> {}
    OBVIOUS
  <2>2. M \in {{"sync"}, {"abort"}, {}}
    BY <2>1, Zenon
  <2>3. mode = "array" \/ mode \in M
    BY <2>1, Zenon
  <2> QED BY <2>2, <2>3
<1>5. PICK m, l : chip = [c \in Chips |-> [mem |-> m, mode |-> mode, locked |-> l, busy |-> FALSE, err |-> FALSE]]
  BY <1>3
<1>6. DOMAIN chip = Chips /\ AllQuiet(Chips, chip) /\ \A c \in Chips : IsChip(chip[c])
  <2>1. PICK b : b = [mem |-> m, mode |-> mode, locked |-> l, busy |-> FALSE, err |-> FALSE]
    OBVIOUS
  <2>2. IsChip(b) /\ Readable(b)
    BY <1>4, <2>1 DEF IsChip, Readable
  <2>3. DOMAIN chip = Chips /\ \A c \in Chips : chip[c] = b
    BY <1>5, <2>1
  <2> QED BY <2>2, <2>3 DEF AllQuiet
<1>7. Fields \subseteq DOMAIN t /\ t.pc = "open" /\ t.sub = "issue"
  BY <1>1 DEF FwStart, Fields
<1> QED BY <1>1, <1>2, <1>6, <1>7 DEF FlashInv, FlashAt, AllQuiet, Readable, Gone

\* What holds wherever the tool is.
LEMMA FlashShapes ==
  ASSUME FlashInv
  PROVE  /\ set \in Setups /\ opt \in Options
         /\ host \in Hosts
         /\ Fields \subseteq DOMAIN t
         /\ DOMAIN chip = Chips /\ \A c \in Chips : IsChip(chip[c])
         /\ t.pc \notin {"close", "remove", "rescan", "end"} => ~Gone(host)
         /\ ~host.present => host.dev = "none"
  BY DEF FlashInv, FlashAt

\* Steps of the tool outside of its work on flash, with every chip quiet.
LEMMA QuietStep ==
  ASSUME FlashInv, UNCHANGED <<set, opt>>, Fields \subseteq DOMAIN t', t'.sub = "issue", t'.pc # "job",
         DOMAIN chip' = Chips, \A c \in Chips : IsChip(chip'[c]), AllQuiet(Chips, chip'),
         host' \in Hosts,
         Gone(host') => t'.pc \in {"close", "remove", "rescan", "end"} /\ Tried(host'),
         ~host'.present => host'.dev = "none",
         t'.pc \in {"boot", "iprog", "close", "remove", "rescan"} => Tried(host'),
         t'.pc \in {"boot", "remove", "rescan"} => host'.dev = "none",
         t'.pc = "close" => host'.present
  PROVE  FlashInv'
<1>1. FlashAt(Chips, opt, chip', t', host')
  BY DEF FlashAt, AllQuiet, Readable
<1> QED BY <1>1, FlashMoves

\* The end of the tool before it has touched the host: no chip matters any more.
LEMMA EndsEarly ==
  ASSUME FlashInv, UNCHANGED <<set, opt, host>>, Fields \subseteq DOMAIN t', t'.pc = "end",
         DOMAIN chip' = Chips, \A c \in Chips : IsChip(chip'[c]), ~Gone(host)
  PROVE  FlashInv'
<1>1. FlashAt(Chips, opt, chip', t', host')
  BY FlashShapes DEF FlashAt
<1> QED BY <1>1, FlashMoves

\* A stage that was not asked for leaves the chips alone.
LEMMA SkipStageKeeps ==
  ASSUME FlashInv, SkipStage
  PROVE  FlashInv'
<1>1. UNCHANGED <<set, opt, chip, host>> /\ t.pc \in {"erase", "write", "read"}
  BY DEF SkipStage
<1>2. AllQuiet(Chips, chip) /\ t.sub = "issue"
  BY <1>1 DEF FlashInv, FlashAt
<1>3. PICK p \in {"write", "read", "skip"} : t' = [t EXCEPT !.pc = p]
  BY DEF SkipStage, Goto
<1>4. t'.pc = p /\ t'.sub = "issue" /\ Fields \subseteq DOMAIN t'
  BY <1>2, <1>3, FlashShapes DEF Fields
<1> QED BY <1>1, <1>2, <1>4, FlashShapes, QuietStep

\* So does the end of a write.
LEMMA WrittenKeeps ==
  ASSUME FlashInv, Written
  PROVE  FlashInv'
<1>1. UNCHANGED <<set, opt, chip, host>> /\ t.pc = "written" /\ t' = [t EXCEPT !.pc = "read", !.done = TRUE]
  BY DEF Written
<1>2. AllQuiet(Chips, chip) /\ t.sub = "issue"
  BY <1>1 DEF FlashInv, FlashAt
<1>3. t'.pc = "read" /\ t'.sub = "issue" /\ Fields \subseteq DOMAIN t'
  BY <1>1, <1>2, FlashShapes DEF Fields
<1> QED BY <1>1, <1>2, <1>3, FlashShapes, QuietStep

\* So does the start of reading back.
LEMMA ReadSegmentKeeps ==
  ASSUME FlashInv, ReadSegment
  PROVE  FlashInv'
<1>1. UNCHANGED <<set, opt, chip, host>> /\ t.pc = "read" /\ t' = [t EXCEPT !.pc = "skip"]
  BY DEF ReadSegment, Goto
<1>2. AllQuiet(Chips, chip) /\ t.sub = "issue"
  BY <1>1 DEF FlashInv, FlashAt
<1>3. t'.pc = "skip" /\ t'.sub = "issue" /\ Fields \subseteq DOMAIN t'
  BY <1>1, <1>2, FlashShapes DEF Fields
<1> QED BY <1>1, <1>2, <1>3, FlashShapes, QuietStep

\* A tool that leaves the flash out or gives up resets only quiet chips.
LEMMA SkipFlashKeeps ==
  ASSUME FlashInv, SkipFlash, opt.erase /\ (opt.boot \/ opt.reset) => opt.read \/ opt.write
  PROVE  FlashInv'
<1>1. UNCHANGED <<set, opt, chip, host>> /\ t.pc = "skip"
  BY DEF SkipFlash
<1>2. t.sub = "issue" /\ (AllQuiet(Chips, chip) \/ (t.ret # 0 /\ (opt.erase \/ opt.write)))
  BY <1>1 DEF FlashInv, FlashAt
<1>3. CASE t' = [t EXCEPT !.pc = "end"]
  <2>1. t'.pc = "end" /\ Fields \subseteq DOMAIN t'
    BY <1>3, FlashShapes DEF Fields
  <2> QED BY <1>1, <2>1, FlashShapes, EndsEarly
<1>4. CASE t' = [t EXCEPT !.pc = "end", !.ret = 0]
  <2>1. t'.pc = "end" /\ Fields \subseteq DOMAIN t'
    BY <1>4, FlashShapes DEF Fields
  <2> QED BY <1>1, <2>1, FlashShapes, EndsEarly
<1>5. CASE /\ t' = [t EXCEPT !.pc = "reset", !.ret = 0]
           /\ opt.boot \/ opt.reset
           /\ ~(t.ret # 0 /\ (opt.read \/ opt.write))
  <2>1. AllQuiet(Chips, chip)
    BY <1>2, <1>5
  <2>2. t'.pc = "reset" /\ t'.sub = "issue" /\ Fields \subseteq DOMAIN t'
    BY <1>2, <1>5, FlashShapes DEF Fields
  <2> QED BY <1>1, <2>1, <2>2, FlashShapes, QuietStep
<1> QED BY <1>3, <1>4, <1>5 DEF SkipFlash, Goto

\* The reset: the host and the place of the tool in it.
LEMMA HostStep ==
  ASSUME FlashInv, UNCHANGED <<set, opt, chip>>,
         t.pc \in {"reset", "boot", "iprog", "close", "remove", "rescan"},
         Fields \subseteq DOMAIN t', t'.sub = t.sub,
         t'.pc \in {"boot", "iprog", "close", "remove", "rescan", "end"},
         host' \in Hosts, ~host'.present => host'.dev = "none",
         \/ t'.pc = "end" /\ ~Gone(host')
         \/ /\ Tried(host')
            /\ t'.pc \in {"boot", "iprog"} => ~Gone(host')
            /\ t'.pc \in {"boot", "remove", "rescan"} => host'.dev = "none"
            /\ t'.pc = "close" => host'.present
  PROVE  FlashInv'
<1>1. AllQuiet(Chips, chip) /\ t.sub = "issue"
  BY DEF FlashInv, FlashAt
<1> QED BY <1>1, FlashShapes, QuietStep

\* Asking for a reset begins with quiet chips, whether or not the port obeys.
LEMMA PrepareKeeps ==
  ASSUME FlashInv, NEW yes, Prepare(yes)
  PROVE  FlashInv'
<1>1. UNCHANGED <<set, opt, chip>> /\ t.pc = "reset" /\ ~Gone(host)
  BY FlashShapes DEF Prepare
<1>2. CASE yes
  <2>1. PICK p \in {"boot", "remove"} : t' = [t EXCEPT !.pc = p]
    BY <1>2 DEF Prepare, Goto
  <2>2. t'.pc = p /\ t'.sub = t.sub /\ Fields \subseteq DOMAIN t'
    BY <2>1, FlashShapes DEF Fields
  <2>3. PICK missed : host' = Prepared(missed)
    BY <1>2 DEF Prepare
  <2>4. PICK f, d : /\ f \in {"missed", "off"} /\ d \in {"missed", "unbound"}
                    /\ host' = [host EXCEPT !.fatal = f, !.dev = "none", !.driver = d]
    <3>1. PICK f : f = IF "fatal" \in missed THEN "missed" ELSE "off"
      OBVIOUS
    <3>2. PICK d : d = IF "driver" \in missed THEN "missed" ELSE "unbound"
      OBVIOUS
    <3>3. host' = [host EXCEPT !.fatal = f, !.dev = "none", !.driver = d]
      BY <2>3, <3>1, <3>2 DEF Prepared
    <3>4. f \in {"missed", "off"} /\ d \in {"missed", "unbound"}
      BY <3>1, <3>2
    <3> QED BY <3>3, <3>4
  <2>5. /\ host' \in Hosts /\ host'.fatal = f /\ host'.driver = d /\ host'.dev = "none"
        /\ host'.fpga = host.fpga /\ host'.present = host.present
    BY <2>4, FlashShapes DEF Hosts
  <2>6. ~Gone(host') /\ Tried(host')
    BY <1>1, <2>4, <2>5 DEF Gone, Tried
  <2> QED BY <1>1, <2>2, <2>5, <2>6, HostStep
<1>3. CASE ~yes
  <2>1. t' = [t EXCEPT !.pc = "end"] /\ host' = host
    BY <1>3 DEF Prepare, Goto
  <2>2. t'.pc = "end" /\ t'.sub = t.sub /\ Fields \subseteq DOMAIN t'
    BY <2>1, FlashShapes DEF Fields
  <2> QED BY <1>1, <2>1, <2>2, FlashShapes, HostStep
<1> QED BY <1>2, <1>3

\* The tool gives up in the middle of a reset.
LEMMA GivesUp ==
  ASSUME FlashInv, UNCHANGED <<set, opt, chip, host>>, t.pc \in {"boot", "remove", "rescan"},
         NEW r, Quit(r)
  PROVE  FlashInv'
<1>1. t' = [t EXCEPT !.pc = "end", !.ret = r]
  BY DEF Quit
<1>2. t'.pc = "end" /\ t'.sub = t.sub /\ Fields \subseteq DOMAIN t'
  BY <1>1, FlashShapes DEF Fields
<1>3. Tried(host)
  BY DEF FlashInv, FlashAt
<1> QED BY <1>2, <1>3, FlashShapes, HostStep

\* The device is opened again.
LEMMA BootKeeps ==
  ASSUME FlashInv, NEW opened, Boot(opened)
  PROVE  FlashInv'
<1>1. UNCHANGED <<set, opt, chip>> /\ t.pc = "boot"
  BY DEF Boot
<1>2. CASE opened
  <2>1. host' = [host EXCEPT !.dev = "direct"] /\ t' = [t EXCEPT !.pc = "iprog"]
    BY <1>2 DEF Boot, Goto
  <2>2. t'.pc = "iprog" /\ t'.sub = t.sub /\ Fields \subseteq DOMAIN t'
    BY <2>1, FlashShapes DEF Fields
  <2>3. Tried(host) /\ ~Gone(host)
    BY <1>1 DEF FlashInv, FlashAt
  <2>4. /\ host' \in Hosts /\ host'.fatal = host.fatal /\ host'.driver = host.driver
        /\ host'.dev = "direct" /\ host'.fpga = host.fpga /\ host'.present = host.present
    BY <2>1, FlashShapes DEF Hosts
  <2>5. Tried(host') /\ ~Gone(host') /\ host'.present
    BY <2>3, <2>4 DEF Tried, Gone
  <2> QED BY <1>1, <2>2, <2>4, <2>5, HostStep
<1>3. CASE ~opened
  BY <1>1, <1>3, GivesUp DEF Boot
<1> QED BY <1>2, <1>3

\* The FPGA reboots with quiet chips, or the tool crashes.
LEMMA IprogKeeps ==
  ASSUME FlashInv, NEW alive, Iprog(alive)
  PROVE  FlashInv'
<1>1. UNCHANGED <<set, opt, chip>> /\ t.pc = "iprog"
  BY DEF Iprog
<1>2. Tried(host) /\ ~Gone(host)
  BY <1>1 DEF FlashInv, FlashAt
<1>3. CASE alive
  <2>1. host' = [host EXCEPT !.fpga = "loading"] /\ t' = [t EXCEPT !.pc = "close"]
    BY <1>3 DEF Iprog, Goto
  <2>2. t'.pc = "close" /\ t'.sub = t.sub /\ Fields \subseteq DOMAIN t'
    BY <2>1, FlashShapes DEF Fields
  <2>3. /\ host' \in Hosts /\ host'.fatal = host.fatal /\ host'.driver = host.driver
        /\ host'.dev = host.dev /\ host'.present = host.present
    BY <2>1, FlashShapes DEF Hosts
  <2>4. Tried(host') /\ host'.present
    BY <1>2, <2>3 DEF Tried, Gone
  <2> QED BY <1>1, <2>2, <2>3, <2>4, HostStep
<1>4. CASE ~alive
  <2>1. host' = [host EXCEPT !.dev = "none"] /\ t' = [t EXCEPT !.pc = "end", !.ret = -1]
    BY <1>4 DEF Iprog, Quit
  <2>2. t'.pc = "end" /\ t'.sub = t.sub /\ Fields \subseteq DOMAIN t'
    BY <2>1, FlashShapes DEF Fields
  <2>3. /\ host' \in Hosts /\ host'.dev = "none"
        /\ host'.fpga = host.fpga /\ host'.present = host.present
    BY <2>1, FlashShapes DEF Hosts
  <2>4. ~Gone(host')
    BY <1>2, <2>3 DEF Gone
  <2> QED BY <1>1, <2>2, <2>3, <2>4, HostStep
<1> QED BY <1>3, <1>4

\* The handle that triggered the reload is closed.
LEMMA DisconnectKeeps ==
  ASSUME FlashInv, Disconnect
  PROVE  FlashInv'
<1>1. /\ UNCHANGED <<set, opt, chip>> /\ t.pc = "close"
      /\ host' = [host EXCEPT !.dev = "none"] /\ t' = [t EXCEPT !.pc = "remove"]
  BY DEF Disconnect, Goto
<1>2. t'.pc = "remove" /\ t'.sub = t.sub /\ Fields \subseteq DOMAIN t'
  BY <1>1, FlashShapes DEF Fields
<1>3. Tried(host)
  BY <1>1 DEF FlashInv, FlashAt
<1>4. host' \in Hosts /\ host'.fatal = host.fatal /\ host'.driver = host.driver /\ host'.dev = "none"
  BY <1>1, FlashShapes DEF Hosts
<1>5. Tried(host')
  BY <1>3, <1>4 DEF Tried
<1> QED BY <1>1, <1>2, <1>4, <1>5, HostStep

\* The PCIe device is removed.
LEMMA RemoveKeeps ==
  ASSUME FlashInv, NEW ok, Remove(ok)
  PROVE  FlashInv'
<1>1. UNCHANGED <<set, opt, chip>> /\ t.pc = "remove"
  BY DEF Remove
<1>2. CASE ok
  <2>1. host' = [host EXCEPT !.present = FALSE] /\ t' = [t EXCEPT !.pc = "rescan", !.tries = 5]
    BY <1>2 DEF Remove
  <2>2. t'.pc = "rescan" /\ t'.sub = t.sub /\ Fields \subseteq DOMAIN t'
    BY <2>1, FlashShapes DEF Fields
  <2>3. Tried(host) /\ host.dev = "none"
    BY <1>1 DEF FlashInv, FlashAt
  <2>4. /\ host' \in Hosts /\ host'.fatal = host.fatal /\ host'.driver = host.driver
        /\ host'.dev = host.dev
    BY <2>1, FlashShapes DEF Hosts
  <2>5. Tried(host') /\ host'.dev = "none"
    BY <2>3, <2>4 DEF Tried
  <2> QED BY <1>1, <2>2, <2>4, <2>5, HostStep
<1>3. CASE ~ok
  BY <1>1, <1>3, GivesUp DEF Remove
<1> QED BY <1>2, <1>3

\* The bus is scanned for the device again.
LEMMA RescanKeeps ==
  ASSUME FlashInv, NEW ok, Rescan(ok)
  PROVE  FlashInv'
<1>1. UNCHANGED <<set, opt, chip>> /\ t.pc = "rescan"
  BY DEF Rescan
<1>2. Tried(host) /\ host.dev = "none"
  BY <1>1 DEF FlashInv, FlashAt
<1>3. CASE ~ok
  BY <1>1, <1>3, GivesUp DEF Rescan
<1>4. CASE ok
  <2>1. host' \in {host, [host EXCEPT !.present = TRUE]}
    BY <1>4 DEF Rescan
  <2>2. /\ host' \in Hosts /\ host'.fatal = host.fatal /\ host'.driver = host.driver
        /\ host'.dev = host.dev
    BY <2>1, FlashShapes DEF Hosts
  <2>3. Tried(host') /\ host'.dev = "none"
    BY <1>2, <2>2 DEF Tried
  <2>4. \/ t' = [t EXCEPT !.pc = "end"]
        \/ t' = [t EXCEPT !.tries = @ - 1]
    BY <1>4 DEF Rescan, Goto
  <2>5. t'.pc \in {"rescan", "end"} /\ t'.sub = t.sub /\ Fields \subseteq DOMAIN t'
    BY <1>1, <2>4, FlashShapes DEF Fields
  <2> QED BY <1>1, <2>2, <2>3, <2>5, HostStep
<1> QED BY <1>3, <1>4

\* The FPGA has loaded its image.
LEMMA FpgaUpKeeps ==
  ASSUME FlashInv, FpgaUp
  PROVE  FlashInv'
<1>1. UNCHANGED <<set, opt, chip, t>> /\ host' = [host EXCEPT !.fpga = "up"] /\ host.fpga = "loading"
  BY DEF FpgaUp
<1>2. /\ host' \in Hosts /\ host'.fatal = host.fatal /\ host'.driver = host.driver
      /\ host'.dev = host.dev /\ host'.present = host.present
  BY <1>1, FlashShapes DEF Hosts
<1>3. FlashAt(Chips, opt, chip, t, host) /\ Gone(host)
  BY <1>1 DEF FlashInv, Gone
<1>4. FlashAt(Chips, opt, chip, t, host')
  BY <1>2, <1>3 DEF FlashAt, Tried
<1> QED BY <1>1, <1>4, FlashMoves

---------------------------------------------------------------------------
\* A flash that is opened is left reading as an array.
LEMMA OpenKeeps ==
  ASSUME FlashInv, NEW found, Open(found)
  PROVE  FlashInv'
<1>1. UNCHANGED <<set, opt, host>> /\ t.pc = "open"
  BY DEF Open
<1>2. /\ \A c \in Chips : chip[c].busy = FALSE
      /\ AllQuiet(Chips, chip) \/ opt.erase \/ opt.write
      /\ t.sub = "issue" /\ ~Gone(host)
  BY <1>1, FlashShapes DEF FlashInv, FlashAt
<1>3. CASE found
  <2>1. chip' = [c \in Chips |-> FlashOpen(chip[c])]
    BY <1>3 DEF Open
  <2>2. DOMAIN chip' = Chips /\ (\A c \in Chips : IsChip(chip'[c])) /\ AllQuiet(Chips, chip')
    <3>1. \A c \in Chips : chip'[c] = FlashOpen(chip[c])
      BY <2>1
    <3> QED BY <1>2, <2>1, <3>1, FlashShapes, Opened DEF AllQuiet, Readable
  <2>3. \/ t' = [t EXCEPT !.pc = "skip", !.ret = -1]
        \/ \E g : t' = [t EXCEPT !.pc = "erase", !.seg = g]
        \/ t' = [t EXCEPT !.pc = "end", !.ret = -1]
    BY <1>3 DEF Open, Quit
  <2>4. t'.pc \in {"skip", "erase", "end"} /\ t'.sub = "issue" /\ Fields \subseteq DOMAIN t'
    BY <1>2, <2>3, FlashShapes DEF Fields
  <2> QED BY <1>1, <1>2, <2>2, <2>4, FlashShapes, QuietStep
<1>4. CASE ~found
  <2>1. chip' = chip /\ t' = [t EXCEPT !.pc = "skip", !.ret = -1]
    BY <1>4 DEF Open
  <2>2. t'.pc = "skip" /\ t'.sub = "issue" /\ t'.ret # 0 /\ Fields \subseteq DOMAIN t'
    BY <1>2, <2>1, FlashShapes DEF Fields
  <2>3. FlashAt(Chips, opt, chip, t', host)
    BY <1>2, <2>2, FlashShapes DEF FlashAt
  <2> QED BY <1>1, <2>1, <2>3, FlashMoves
<1> QED BY <1>3, <1>4

\* A tool that is killed leaves a chip busy only in the middle of its work.
LEMMA KillKeeps ==
  ASSUME FlashInv, Kill
  PROVE  FlashInv'
<1>1. UNCHANGED <<set, opt, host>> /\ t.pc = "job" /\ t' = FwStart
  BY DEF Kill
<1>2. (opt.erase \/ opt.write) /\ ~Gone(host)
  BY <1>1, FlashShapes DEF FlashInv, FlashAt
<1>3. t'.pc = "open" /\ t'.sub = "issue" /\ Fields \subseteq DOMAIN t'
  BY <1>1 DEF FwStart, Fields
<1>4. chip' = [c \in Chips |-> [chip[c] EXCEPT !.busy = FALSE,
                 !.mode = IF set.ops = "amd" /\ t.sub = "wait" THEN "abort" ELSE @]]
  BY DEF Kill
<1>5. ASSUME NEW c \in Chips
      PROVE  chip'[c].busy = FALSE /\ IsChip(chip'[c])
  <2>1. IsChip(chip[c])
    BY FlashShapes
  <2>2. chip'[c] = [chip[c] EXCEPT !.busy = FALSE,
                      !.mode = IF set.ops = "amd" /\ t.sub = "wait" THEN "abort" ELSE @]
    BY <1>4
  <2> QED BY <2>1, <2>2 DEF IsChip
<1>6. DOMAIN chip' = Chips
  BY <1>4
<1>7. FlashAt(Chips, opt, chip', t', host)
  BY <1>2, <1>3, <1>5, <1>6, FlashShapes DEF FlashAt
<1> QED BY <1>1, <1>7, FlashMoves

\* What holds while the tool works on flash.
LEMMA AtWork ==
  ASSUME FlashInv, t.pc = "job"
  PROVE  /\ Working(Chips, chip, t) /\ (opt.erase \/ opt.write) /\ ~Gone(host)
         /\ IsJobs(t.jobs) /\ t.then \in {"write", "written"}
         /\ t.jobs = <<>> => t.sub = "issue" /\ AllQuiet(Chips, chip)
         /\ \A c \in Chips : Readable(chip[c]) \/ (t.jobs # <<>> /\ c = J.c)
         /\ t.sub # "wait" => \A c \in Chips : chip[c].busy = FALSE
<1>1. Working(Chips, chip, t) /\ (opt.erase \/ opt.write) /\ ~Gone(host)
  BY FlashShapes DEF FlashInv, FlashAt
<1> QED BY <1>1 DEF Working, AllQuiet, J

\* It goes on with its work ...
LEMMA WorkStep ==
  ASSUME FlashInv, UNCHANGED <<set, opt, host>>, ~Gone(host), opt.erase \/ opt.write,
         Fields \subseteq DOMAIN t', t'.pc = "job", Working(Chips, chip', t'),
         DOMAIN chip' = Chips, \A c \in Chips : IsChip(chip'[c])
  PROVE  FlashInv'
<1>1. FlashAt(Chips, opt, chip', t', host')
  BY FlashShapes DEF FlashAt
<1> QED BY <1>1, FlashMoves

\* ... which is easy with quiet chips ...
LEMMA QuietWork ==
  ASSUME FlashInv, UNCHANGED <<set, opt, host>>, ~Gone(host), opt.erase \/ opt.write,
         Fields \subseteq DOMAIN t', t'.pc = "job", IsJobs(t'.jobs), t'.then \in {"write", "written"},
         t'.jobs = <<>> => t'.sub = "issue", AllQuiet(Chips, chip'),
         DOMAIN chip' = Chips, \A c \in Chips : IsChip(chip'[c])
  PROVE  FlashInv'
<1>1. Working(Chips, chip', t')
  BY DEF Working, AllQuiet, Readable
<1> QED BY <1>1, WorkStep

\* ... or ends it with an error.
LEMMA JobFailsKeeps ==
  ASSUME FlashInv, JobFails, t.pc = "job", UNCHANGED <<set, opt, host>>
  PROVE  FlashInv'
<1>1. t' = [t EXCEPT !.pc = "end", !.ret = -1]
  BY DEF JobFails, Quit
<1>2. t'.pc = "end" /\ Fields \subseteq DOMAIN t'
  BY <1>1, FlashShapes DEF Fields
<1>3. PICK k : k = J.c
  OBVIOUS
<1>4. chip' = [chip EXCEPT ![k] = Deselect(chip[k])]
  BY <1>3 DEF JobFails
<1>5. DOMAIN chip' = Chips /\ \A c \in Chips : IsChip(chip'[c])
  BY <1>4, FlashShapes, Deselected
<1> QED BY <1>2, <1>5, FlashShapes, EndsEarly

\* Erasing begins, with its jobs.
LEMMA EraseKeeps ==
  ASSUME FlashInv, NEW yes, Erase(yes)
  PROVE  FlashInv'
<1>1. UNCHANGED <<set, opt, chip, host>> /\ t.pc = "erase" /\ opt.erase
  BY DEF Erase
<1>2. AllQuiet(Chips, chip) /\ t.sub = "issue" /\ ~Gone(host)
  BY <1>1, FlashShapes DEF FlashInv, FlashAt
<1>3. CASE ~yes
  <2>1. t' = [t EXCEPT !.pc = "end", !.ret = 0]
    BY <1>3 DEF Erase, Quit
  <2>2. t'.pc = "end" /\ Fields \subseteq DOMAIN t'
    BY <2>1, FlashShapes DEF Fields
  <2> QED BY <1>1, <1>2, <2>2, FlashShapes, EndsEarly
<1>4. CASE yes
  <2>1. PICK s : s = PerChip("erase", Half(t.seg.start), Half(t.seg.len)) /\ IsJobs(s)
    BY JobsBegin
  <2>2. t' = [t EXCEPT !.pc = "job", !.then = "write", !.jobs = s]
    BY <1>4, <2>1 DEF Erase
  <2>3. /\ t'.pc = "job" /\ t'.then = "write" /\ t'.jobs = s /\ t'.sub = "issue"
        /\ Fields \subseteq DOMAIN t'
    BY <1>2, <2>2, FlashShapes DEF Fields
  <2> QED BY <1>1, <1>2, <2>1, <2>3, FlashShapes, QuietWork
<1> QED BY <1>3, <1>4

\* Writing begins, with its jobs.
LEMMA WriteKeeps ==
  ASSUME FlashInv, NEW yes, Write(yes)
  PROVE  FlashInv'
<1>1. UNCHANGED <<set, opt, chip, host>> /\ t.pc = "write" /\ opt.write
  BY DEF Write
<1>2. AllQuiet(Chips, chip) /\ t.sub = "issue" /\ ~Gone(host)
  BY <1>1, FlashShapes DEF FlashInv, FlashAt
<1>3. CASE ~FileUsable \/ ~yes
  <2>1. PICK r : t' = [t EXCEPT !.pc = "end", !.ret = r]
    BY <1>3 DEF Write, Quit
  <2>2. t'.pc = "end" /\ Fields \subseteq DOMAIN t'
    BY <2>1, FlashShapes DEF Fields
  <2> QED BY <1>1, <1>2, <2>2, FlashShapes, EndsEarly
<1>4. CASE FileUsable /\ yes
  <2>1. PICK s : /\ s = PerChip("erase", Half(t.seg.start), WriteLen)
                          \o PerChip("write", Half(t.seg.start), WriteLen)
                 /\ IsJobs(s)
    BY JobsBegin, JobsBoth
  <2>2. t' = [t EXCEPT !.pc = "job", !.then = "written", !.jobs = s]
    BY <1>4, <2>1 DEF Write
  <2>3. /\ t'.pc = "job" /\ t'.then = "written" /\ t'.jobs = s /\ t'.sub = "issue"
        /\ Fields \subseteq DOMAIN t'
    BY <1>2, <2>2, FlashShapes DEF Fields
  <2> QED BY <1>1, <1>2, <2>1, <2>3, FlashShapes, QuietWork
<1> QED BY <1>3, <1>4

\* Between two steps of a job no chip is left in another mode.
LEMMA NextSegKeeps ==
  ASSUME FlashInv, NextSeg
  PROVE  FlashInv'
<1>1. /\ UNCHANGED <<set, opt, chip, host>>
      /\ t.pc = "job" /\ t.jobs # <<>> /\ J.left = 0 /\ t.sub = "issue"
  BY DEF NextSeg
<1>2. AllQuiet(Chips, chip)
  BY <1>1, AtWork DEF Working, J
<1>3. PICK s : t' = [t EXCEPT !.jobs = s] /\ IsJobs(s)
  <2>1. CASE J.remain = 0
    <3>1. t' = [t EXCEPT !.jobs = Tail(t.jobs)]
      BY <1>1, <2>1 DEF NextSeg
    <3> QED BY <1>1, <3>1, AtWork, JobsRest
  <2>2. CASE J.remain # 0
    <3>1. PICK n : n = SegLen(J.addr, J.remain, StepSize)
      OBVIOUS
    <3>2. PICK j : j = [J EXCEPT !.cur = J.addr, !.left = n]
      OBVIOUS
    <3>3. {"c", "left"} \subseteq DOMAIN J
      BY <1>1, AtWork, JobsRest DEF J
    <3>4. {"c", "left"} \subseteq DOMAIN j
      BY <3>2, <3>3
    <3>5. t' = [t EXCEPT !.jobs = <<j>> \o Tail(t.jobs)]
      BY <1>1, <2>2, <3>1, <3>2 DEF NextSeg, WithJob
    <3> QED BY <1>1, <3>4, <3>5, AtWork, JobsFront
  <2> QED BY <2>1, <2>2
<1>4. /\ t'.pc = "job" /\ t'.then = t.then /\ t'.jobs = s /\ t'.sub = "issue"
      /\ Fields \subseteq DOMAIN t'
  BY <1>1, <1>3, FlashShapes DEF Fields
<1> QED BY <1>1, <1>2, <1>3, <1>4, AtWork, FlashShapes, QuietWork

\* All jobs are done, so the chips are quiet.
LEMMA NextStageKeeps ==
  ASSUME FlashInv, NextStage
  PROVE  FlashInv'
<1>1. /\ UNCHANGED <<set, opt, chip, host>> /\ t.pc = "job" /\ t.jobs = <<>>
      /\ t' = [t EXCEPT !.pc = t.then]
  BY DEF NextStage, Goto
<1>2. AllQuiet(Chips, chip) /\ t.sub = "issue" /\ t.then \in {"write", "written"} /\ ~Gone(host)
  BY <1>1, AtWork
<1>3. t'.pc = t.then /\ t'.sub = "issue" /\ Fields \subseteq DOMAIN t'
  BY <1>1, <1>2, FlashShapes DEF Fields
<1> QED BY <1>1, <1>2, <1>3, FlashShapes, QuietStep

\* A chip that does not take the write enable fails its job.
LEMMA NotEnabledKeeps ==
  ASSUME FlashInv, NotEnabled
  PROVE  FlashInv'
  BY JobFailsKeeps DEF NotEnabled, Issue

\* A command makes one chip busy, the one of the job.
LEMMA CommandKeeps ==
  ASSUME FlashInv, Issue, NEW ch, J.c \in Chips => DOMAIN ch = DOMAIN chip[J.c], Command(ch),
         t' = [t EXCEPT !.sub = "wait"], UNCHANGED <<set, opt, host>>
  PROVE  FlashInv'
<1>1. t.pc = "job" /\ t.jobs # <<>>
  BY DEF Issue
<1>2. /\ t'.pc = "job" /\ t'.then = t.then /\ t'.jobs = t.jobs /\ t'.sub = "wait"
      /\ Fields \subseteq DOMAIN t'
  BY <1>1, FlashShapes DEF Fields
<1>3. PICK k : k = J.c /\ k = t'.jobs[1].c
  BY <1>2 DEF J
<1>4. chip' = [chip EXCEPT ![k] = IF chip[k].busy THEN chip[k] ELSE [ch EXCEPT !.busy = TRUE]]
  BY <1>3 DEF Command
<1>5. DOMAIN chip' = Chips /\ \A c \in Chips : c # k => chip'[c] = chip[c]
  BY <1>4, FlashShapes
<1>6. ASSUME k \in Chips
      PROVE  IsChip(chip'[k])
  <2>1. IsChip(chip[k]) /\ DOMAIN ch = DOMAIN chip[k]
    BY <1>3, <1>6, FlashShapes
  <2>2. CASE chip[k].busy
    BY <1>4, <1>6, <2>1, <2>2, FlashShapes
  <2>3. CASE ~chip[k].busy
    <3>1. PICK d : d = [ch EXCEPT !.busy = TRUE]
      OBVIOUS
    <3>2. chip'[k] = d
      BY <1>4, <1>6, <2>3, <3>1, FlashShapes
    <3>3. IsChip(d)
      BY <2>1, <3>1 DEF IsChip
    <3> QED BY <3>2, <3>3
  <2> QED BY <2>2, <2>3
<1>7. \A c \in Chips : IsChip(chip'[c])
  BY <1>5, <1>6, FlashShapes
<1>8. \A c \in Chips : Readable(chip'[c]) \/ c = k
  BY <1>1, <1>3, <1>5, AtWork
<1>9. Working(Chips, chip', t')
  BY <1>1, <1>2, <1>3, <1>8, AtWork DEF Working
<1> QED BY <1>1, <1>2, <1>5, <1>7, <1>9, AtWork, WorkStep

\* An erase command makes the chip of the job busy.
LEMMA IssueEraseKeeps ==
  ASSUME FlashInv, NEW ok, IssueErase(ok)
  PROVE  FlashInv'
<1>1. UNCHANGED <<set, opt, host>> /\ Issue
  BY DEF IssueErase
<1>2. PICK b : b = EraseBlock(J.cur, J.left)
  OBVIOUS
<1>3. CASE b = 0
  BY <1>1, <1>2, <1>3, JobFailsKeeps DEF IssueErase, Issue
<1>4. CASE b # 0
  <2>1. PICK ch : ch = SectorErase(chip[J.c], J.cur, b, ok)
    OBVIOUS
  <2>2. DOMAIN ch = DOMAIN chip[J.c]
    BY <2>1, FlashShapes, EraseFields
  <2>3. Command(ch) /\ t' = [t EXCEPT !.sub = "wait"]
    BY <1>2, <1>4, <2>1 DEF IssueErase
  <2> QED BY <1>1, <2>2, <2>3, CommandKeeps
<1> QED BY <1>3, <1>4

\* So does a program command.
LEMMA IssueProgramKeeps ==
  ASSUME FlashInv, NEW ok, IssueProgram(ok)
  PROVE  FlashInv'
<1>1. UNCHANGED <<set, opt, host>> /\ Issue /\ t' = [t EXCEPT !.sub = "wait"]
  BY DEF IssueProgram
<1>2. PICK ch : ch = Program(chip[J.c], J.cur, ProgramLen(J.cur, J.left), Buffer(J.c), J.base, ok)
  OBVIOUS
<1>3. DOMAIN ch = DOMAIN chip[J.c]
  BY <1>2, FlashShapes, ProgramFields
<1>4. Command(ch)
  BY <1>2 DEF IssueProgram
<1> QED BY <1>1, <1>3, <1>4, CommandKeeps

\* The chip of the job, once it is ready and told to read its array, is quiet.
LEMMA DeselectQuiet ==
  ASSUME FlashInv, t.pc = "job", NEW k, k = J.c, ~chip[k].busy, chip' = [chip EXCEPT ![k] = Deselect(chip[k])]
  PROVE  DOMAIN chip' = Chips /\ (\A c \in Chips : IsChip(chip'[c])) /\ AllQuiet(Chips, chip')
<1>1. DOMAIN chip' = Chips /\ \A c \in Chips : c # k => chip'[c] = chip[c]
  BY FlashShapes
<1>2. ASSUME k \in Chips
      PROVE  IsChip(chip'[k]) /\ Readable(chip'[k])
  <2>1. chip'[k] = Deselect(chip[k]) /\ IsChip(chip[k])
    BY <1>2, FlashShapes
  <2>2. chip[k].busy = FALSE
    BY <2>1 DEF IsChip
  <2> QED BY <2>1, <2>2, Deselected DEF Readable
<1>3. \A c \in Chips : c # k => Readable(chip'[c]) /\ IsChip(chip'[c])
  BY <1>1, AtWork, FlashShapes
<1> QED BY <1>1, <1>2, <1>3 DEF AllQuiet

\* The tool waits until the chip of the job is not busy.
LEMMA WaitKeeps ==
  ASSUME FlashInv, Wait
  PROVE  FlashInv'
<1>1. UNCHANGED <<set, opt, host>> /\ t.pc = "job" /\ t.sub = "wait" /\ ~chip[J.c].busy
  BY DEF Wait, Ready
<1>2. t.jobs # <<>>
  BY <1>1, AtWork
<1>3. {"c", "left"} \subseteq DOMAIN J
  BY <1>1, <1>2, AtWork, JobsRest DEF J
<1>4. PICK n : n = IF J.op = "erase" THEN EraseBlock(J.cur, J.left) ELSE ProgramLen(J.cur, J.left)
  OBVIOUS
<1>5. PICK j : j = [J EXCEPT !.cur = @ + n, !.left = @ - n]
  OBVIOUS
<1>6. {"c", "left"} \subseteq DOMAIN j /\ j.c = J.c
  BY <1>3, <1>5
<1>7. CASE chip[J.c].err
  <2>1. JobFails
    BY <1>7 DEF Wait
  <2> QED BY <1>1, <2>1, JobFailsKeeps
<1>8. CASE ~chip[J.c].err /\ j.left > 0
  <2>1. chip' = chip /\ t' = [WithJob(j) EXCEPT !.sub = "issue"]
    BY <1>4, <1>5, <1>8 DEF Wait
  <2>2. PICK s : s = <<j>> \o Tail(t.jobs) /\ IsJobs(s) /\ s # <<>> /\ s[1] = j
    <3>1. PICK s : s = <<j>> \o Tail(t.jobs)
      OBVIOUS
    <3>2. IsJobs(s) /\ s # <<>> /\ s[1] = j
      BY <1>1, <1>2, <1>6, <3>1, AtWork, JobsFront
    <3> QED BY <3>1, <3>2
  <2>3. t' = [[t EXCEPT !.jobs = s] EXCEPT !.sub = "issue"]
    BY <2>1, <2>2 DEF WithJob
  <2>4. /\ t'.pc = "job" /\ t'.then = t.then /\ t'.jobs = s /\ t'.sub = "issue"
        /\ Fields \subseteq DOMAIN t'
    BY <1>1, <2>3, FlashShapes DEF Fields
  <2>5. \A c \in Chips : Readable(chip[c]) \/ c = s[1].c
    BY <1>1, <1>6, <2>2, AtWork
  <2>6. \A c \in Chips : chip[c].busy = FALSE
    <3>1. ASSUME NEW c \in Chips, c = J.c PROVE chip[c].busy = FALSE
      BY <1>1, <3>1, FlashShapes DEF IsChip
    <3> QED BY <1>1, <3>1, AtWork DEF Readable
  <2>7. Working(Chips, chip, t')
    BY <1>1, <1>8, <2>2, <2>4, <2>5, <2>6, AtWork DEF Working
  <2> QED BY <1>1, <2>1, <2>4, <2>7, AtWork, FlashShapes, WorkStep
<1>9. CASE ~chip[J.c].err /\ ~(j.left > 0)
  <2>1. PICK k : k = J.c
    OBVIOUS
  <2>2. chip' = [chip EXCEPT ![k] = Deselect(chip[k])]
    BY <1>4, <1>5, <1>9, <2>1 DEF Wait
  <2>3. DOMAIN chip' = Chips /\ (\A c \in Chips : IsChip(chip'[c])) /\ AllQuiet(Chips, chip')
    BY <1>1, <2>1, <2>2, DeselectQuiet
  <2>4. PICK s : IsJobs(s) /\ s # <<>> /\ (\/ t' = [[t EXCEPT !.jobs = s] EXCEPT !.sub = "issue"]
                                           \/ t' = [[t EXCEPT !.jobs = s] EXCEPT !.sub = "verify", !.tries = 3])
    <3>1. CASE J.op = "erase"
      <4>1. PICK z : z = SegOf(J)
        OBVIOUS
      <4>2. PICK i : i = [j EXCEPT !.addr = j.cur, !.remain = @ - z]
        OBVIOUS
      <4>3. {"c", "left"} \subseteq DOMAIN i
        BY <1>6, <4>2
      <4>4. t' = [WithJob(i) EXCEPT !.sub = "issue"]
        BY <1>4, <1>5, <1>9, <3>1, <4>1, <4>2 DEF Wait
      <4>5. PICK s : s = <<i>> \o Tail(t.jobs) /\ IsJobs(s) /\ s # <<>>
        BY <1>1, <1>2, <4>3, AtWork, JobsFront
      <4>6. WithJob(i) = [t EXCEPT !.jobs = s]
        BY <4>5 DEF WithJob
      <4> QED BY <4>4, <4>5, <4>6
    <3>2. CASE J.op # "erase"
      <4>1. t' = [WithJob(j) EXCEPT !.sub = "verify", !.tries = 3]
        BY <1>4, <1>5, <1>9, <3>2 DEF Wait
      <4>2. PICK s : s = <<j>> \o Tail(t.jobs) /\ IsJobs(s) /\ s # <<>>
        BY <1>1, <1>2, <1>6, AtWork, JobsFront
      <4>3. WithJob(j) = [t EXCEPT !.jobs = s]
        BY <4>2 DEF WithJob
      <4> QED BY <4>1, <4>2, <4>3
    <3> QED BY <3>1, <3>2
  <2>5. t'.pc = "job" /\ t'.then = t.then /\ t'.jobs = s /\ Fields \subseteq DOMAIN t'
    BY <1>1, <2>4, FlashShapes DEF Fields
  <2> QED BY <1>1, <2>3, <2>4, <2>5, AtWork, QuietWork
<1> QED BY <1>7, <1>8, <1>9

\* Reading back what was written leaves the chips quiet.
LEMMA VerifyKeeps ==
  ASSUME FlashInv, NEW flaky, Verify(flaky)
  PROVE  FlashInv'
<1>1. UNCHANGED <<set, opt, host>> /\ t.pc = "job" /\ t.sub = "verify"
  BY DEF Verify
<1>2. t.jobs # <<>> /\ AllQuiet(Chips, chip)
  BY <1>1, AtWork DEF Working
<1>3. CASE JobFails
  BY <1>1, <1>3, JobFailsKeeps
<1>4. CASE chip' = chip /\ t' = [t EXCEPT !.tries = @ - 1]
  <2>1. t'.pc = "job" /\ t'.then = t.then /\ t'.jobs = t.jobs /\ Fields \subseteq DOMAIN t'
    BY <1>1, <1>4, FlashShapes DEF Fields
  <2> QED BY <1>1, <1>2, <1>4, <2>1, AtWork, FlashShapes, QuietWork
<1>5. CASE /\ chip' = chip
           /\ t' = [WithJob([J EXCEPT !.addr = J.cur, !.remain = @ - SegOf(J)]) EXCEPT !.sub = "issue"]
  <2>1. PICK z : z = SegOf(J)
    OBVIOUS
  <2>2. PICK i : i = [J EXCEPT !.addr = J.cur, !.remain = @ - z]
    OBVIOUS
  <2>3. {"c", "left"} \subseteq DOMAIN i
    <3>1. {"c", "left"} \subseteq DOMAIN J
      BY <1>1, <1>2, AtWork, JobsRest DEF J
    <3> QED BY <2>2, <3>1
  <2>4. PICK s : s = <<i>> \o Tail(t.jobs) /\ IsJobs(s) /\ s # <<>>
    BY <1>1, <1>2, <2>3, AtWork, JobsFront
  <2>5. t' = [[t EXCEPT !.jobs = s] EXCEPT !.sub = "issue"]
    BY <1>5, <2>1, <2>2, <2>4 DEF WithJob
  <2>6. t'.pc = "job" /\ t'.then = t.then /\ t'.jobs = s /\ Fields \subseteq DOMAIN t'
    BY <1>1, <2>5, FlashShapes DEF Fields
  <2> QED BY <1>1, <1>2, <1>5, <2>4, <2>6, AtWork, FlashShapes, QuietWork
<1> QED BY <1>3, <1>4, <1>5 DEF Verify

\* A chip finishes on its own: only a busy one, so not during a reset.
LEMMA ChipDoneKeeps ==
  ASSUME FlashInv, NEW k \in Chips, ChipDone(k)
  PROVE  FlashInv'
<1>1. UNCHANGED <<set, opt, host, t>> /\ chip[k].busy /\ chip' = [chip EXCEPT ![k].busy = FALSE]
  BY DEF ChipDone
<1>2. IsChip(chip[k])
  BY FlashShapes
<1>3. PICK d : d = [chip[k] EXCEPT !.busy = FALSE] /\ IsChip(d) /\ d.busy = FALSE /\ d.mode = chip[k].mode
  <2>1. PICK d : d = [chip[k] EXCEPT !.busy = FALSE]
    OBVIOUS
  <2>2. IsChip(d) /\ d.busy = FALSE /\ d.mode = chip[k].mode
    BY <1>2, <2>1 DEF IsChip
  <2> QED BY <2>1, <2>2
<1>4. /\ DOMAIN chip' = Chips /\ chip'[k] = d
      /\ \A c \in Chips : c # k => chip'[c] = chip[c]
  BY <1>1, <1>3, FlashShapes
<1>5. \A c \in Chips : /\ IsChip(chip'[c]) /\ (Readable(chip[c]) => Readable(chip'[c]))
                       /\ (chip[c].busy = FALSE => chip'[c].busy = FALSE)
  BY <1>3, <1>4, FlashShapes DEF Readable
<1>6. AllQuiet(Chips, chip) => AllQuiet(Chips, chip')
  BY <1>5 DEF AllQuiet
<1>7. Working(Chips, chip, t) => Working(Chips, chip', t)
  BY <1>5, <1>6 DEF Working
<1>8. FlashAt(Chips, opt, chip', t, host)
  BY <1>4, <1>5, <1>6, <1>7 DEF FlashInv, FlashAt
<1> QED BY <1>1, <1>8, FlashMoves

\* Every step keeps the invariant ...
LEMMA FlashStep ==
  ASSUME FlashInv, [FlashNext]_flashVars, opt.erase /\ (opt.boot \/ opt.reset) => opt.read \/ opt.write
  PROVE  FlashInv'
<1>1. CASE Kill
  BY <1>1, KillKeeps
<1>2. CASE FpgaUp
  BY <1>2, FpgaUpKeeps
<1>3. CASE \E c \in Chips : ChipDone(c)
  BY <1>3, ChipDoneKeeps
<1>4. CASE FwTool
  <2>1. CASE \/ SkipStage \/ Written \/ NextSeg \/ NextStage \/ NotEnabled \/ Wait
             \/ ReadSegment \/ SkipFlash \/ Disconnect
    BY <2>1, SkipStageKeeps, WrittenKeeps, NextSegKeeps, NextStageKeeps, NotEnabledKeeps,
       WaitKeeps, ReadSegmentKeeps, SkipFlashKeeps, DisconnectKeeps
  <2>2. ASSUME NEW b \in BOOLEAN,
               \/ Open(b) \/ Erase(b) \/ Write(b) \/ IssueErase(b) \/ IssueProgram(b)
               \/ Verify(b) \/ Prepare(b) \/ Boot(b) \/ Iprog(b) \/ Remove(b) \/ Rescan(b)
        PROVE  FlashInv'
    BY <2>2, OpenKeeps, EraseKeeps, WriteKeeps, IssueEraseKeeps, IssueProgramKeeps,
       VerifyKeeps, PrepareKeeps, BootKeeps, IprogKeeps, RemoveKeeps, RescanKeeps
  <2> QED BY <1>4, <2>1, <2>2 DEF FwTool
<1>5. CASE UNCHANGED flashVars
  <2>1. UNCHANGED <<set, opt, chip, t, host>>
    BY <1>5 DEF flashVars
  <2>2. FlashAt(Chips, opt, chip', t', host')
    BY <2>1 DEF FlashInv
  <2> QED BY <2>1, <2>2, FlashMoves
<1> QED BY <1>1, <1>2, <1>3, <1>4, <1>5 DEF FlashNext

\* ... with options that are careful.
LEMMA FlashInvariance ==
  ASSUME Careful
  PROVE  FlashSpec => []FlashInv
<1>1. ASSUME FlashInv, [FlashNext]_flashVars
      PROVE  FlashInv'
  <2>1. opt.erase /\ (opt.boot \/ opt.reset) => opt.read \/ opt.write
    BY <1>1, FlashShapes DEF Careful
  <2> QED BY <1>1, <2>1, FlashStep
<1> QED BY <1>1, FlashStarts, PTL DEF FlashSpec

\* For every build, size and number of failures and kills: whatever the work on
\* flash came to, when the tool of mqnic-fw.c takes the device off the bus or
\* makes its FPGA load, it has tried to prepare the port, its first handle and, off
\* the bus, the second are closed, and every chip is idle and readable.
THEOREM ResetIsQuiet ==
  ASSUME Careful
  PROVE  FlashSpec => []QuietReset
<1> QED BY FlashInvariance, QuietEnough, PTL

---------------------------------------------------------------------------
(* What a run leaves alone.                                                *)

\* Every segment ends, on each chip, with an erase block: lengths are rounded up
\* to whole blocks.
Aligned ==
  \A u \in Setups : \A k \in Nat : k < Len(Segments(u)) =>
    LET g == Segments(u)[k + 1]
        half(n) == IF u.kind = "dual" THEN n \div 2 ELSE n
    IN (half(g.start) + half(g.len)) % (IF u.kind = "bpi" THEN BLOCK1 ELSE SUBSECTOR) = 0

\* The slot, its segment if there is one, and what that is of each chip.
Slot == IF opt.slot < 0 THEN set.dflt ELSE opt.slot
SlotThere == Segments(set) = <<>> \/ Slot < Len(Segments(set))
Goal == IF Segments(set) = <<>> THEN NoSeg ELSE Segments(set)[Slot + 1]
Lo == Half(Goal.start)
Hi == Half(Goal.start + Goal.len)

\* A chip that is as it was outside of the segment.
Spared(ch) ==
  /\ "mem" \in DOMAIN ch /\ DOMAIN ch.mem = 0..ChipSize-1
  /\ \A x \in 0..ChipSize-1 : x \notin Lo..Hi-1 => ch.mem[x] = OldByte

\* Work that stays inside: what a job has left, and the step it is at.
JobFields == {"op", "c", "base", "addr", "remain", "cur", "left"}
JobIn(j) ==
  /\ JobFields \subseteq DOMAIN j
  /\ j.addr \in Nat /\ j.remain \in Nat /\ j.cur \in Nat /\ j.left \in Nat
  /\ Lo <= j.addr /\ j.addr + j.remain <= Hi
  /\ j.addr <= j.cur /\ j.cur + j.left <= j.addr + j.remain
JobsIn(s) == \E S : s \in Seq(S) /\ \A j \in S : JobIn(j)

ToolFields == {"pc", "then", "jobs", "sub", "seg"}
IntactAt(u, ch) ==
  /\ ToolFields \subseteq DOMAIN u
  /\ DOMAIN ch = Chips /\ \A c \in Chips : Spared(ch[c])
  /\ u.pc \in {"erase", "write", "job"} => u.seg = Goal
  /\ u.pc \in {"open", "erase", "write"} => u.sub = "issue"
  /\ u.pc = "job" => /\ JobsIn(u.jobs) /\ u.then \in {"write", "written"}
                     /\ u.jobs = <<>> => u.sub = "issue"
                     /\ u.sub = "verify" => u.jobs[1].left = 0
IntactInv ==
  /\ set \in Setups /\ opt \in Options /\ file.len \in Nat
  /\ SlotThere => IntactAt(t, chip)

\* Nothing changes the build, the options or the file.
LEMMA IntactMoves ==
  ASSUME IntactInv, UNCHANGED <<set, opt, file>>, SlotThere => IntactAt(t', chip')
  PROVE  IntactInv'
<1>1. Chips' = Chips /\ Slot' = Slot /\ Goal' = Goal
  BY DEF Chips, Slot, Goal
<1>2. ChipSize' = ChipSize /\ Lo' = Lo /\ Hi' = Hi /\ SlotThere' = SlotThere
  BY <1>1 DEF ChipSize, Lo, Hi, Half, SlotThere
<1>3. \A ch : Spared(ch)' <=> Spared(ch)
  BY <1>2 DEF Spared
<1>4. \A s : JobsIn(s)' <=> JobsIn(s)
  <2>1. \A j : JobIn(j)' <=> JobIn(j)
    BY <1>2 DEF JobIn
  <2> QED BY <2>1 DEF JobsIn
<1>5. \A u, ch : IntactAt(u, ch)' <=> IntactAt(u, ch)
  BY <1>1, <1>3, <1>4 DEF IntactAt
<1> QED BY <1>2, <1>5 DEF IntactInv

\* The segments of a build.
LEMMA SegmentKinds ==
  ASSUME NEW u
  PROVE  \E h : /\ h = IF u.seg0 = 0 THEN SIZE \div 2 ELSE u.seg0
               /\ \/ Segments(u) = Even(1)
                  \/ Segments(u) = <<[start |-> 0, len |-> h], [start |-> h, len |-> SIZE - h]>> /\ u.seg0 <= SIZE
                  \/ Segments(u) = Even(u.config) /\ u.config \in {4, 8}
                  \/ Segments(u) = <<>>
<1>1. PICK h : h = IF u.seg0 = 0 THEN SIZE \div 2 ELSE u.seg0
  OBVIOUS
<1>2. PICK p : p = <<[start |-> 0, len |-> h], [start |-> h, len |-> SIZE - h]>>
  OBVIOUS
<1>3. PICK x, y, z : x = Even(1) /\ y = Even(u.config) /\ z = <<>>
  OBVIOUS
<1>4. Segments(u) = CASE u.config \in {0, 1} -> x
                      [] u.config = 2 /\ u.seg0 <= SIZE -> p
                      [] u.config \in {4, 8} -> y
                      [] OTHER -> z
  BY <1>1, <1>2, <1>3 DEF Segments
<1>5. \/ Segments(u) = x \/ (Segments(u) = p /\ u.seg0 <= SIZE)
      \/ (Segments(u) = y /\ u.config \in {4, 8}) \/ Segments(u) = z
  BY <1>4, Zenon
<1> QED BY <1>1, <1>2, <1>3, <1>5, Zenon

\* Segments of one length.
LEMMA EvenLen ==
  ASSUME NEW n \in Nat \ {0}, NEW q \in Nat, q = SIZE \div n
  PROVE  Len(Even(n)) = n
<1>1. Even(n) = [i \in 1..n |-> [start |-> (i - 1) * q, len |-> q]]
  BY DEF Even
<1>2. DOMAIN Even(n) = 1..n
  BY <1>1
<1>3. PICK S : S = {[start |-> (i - 1) * q, len |-> q] : i \in 1..n}
  OBVIOUS
<1>4. Even(n) \in [1..n -> S]
  BY <1>1, <1>3
<1>5. Even(n) \in Seq(S)
  BY <1>4, SeqDef
<1> QED BY <1>2, <1>5

\* Segments start at and are as long as a number says.
LEMMA SegmentNumbers ==
  ASSUME NEW u \in Setups, NEW k \in Nat, k < Len(Segments(u))
  PROVE  Segments(u)[k + 1].start \in Nat /\ Segments(u)[k + 1].len \in Nat
<1>1. SIZE \in Nat \ {0} /\ u.seg0 \in Nat
  BY FlashAssumption
<1>2. PICK h : /\ h = IF u.seg0 = 0 THEN SIZE \div 2 ELSE u.seg0
               /\ \/ Segments(u) = Even(1)
                  \/ Segments(u) = <<[start |-> 0, len |-> h], [start |-> h, len |-> SIZE - h]>> /\ u.seg0 <= SIZE
                  \/ Segments(u) = Even(u.config) /\ u.config \in {4, 8}
                  \/ Segments(u) = <<>>
  BY SegmentKinds
<1>4. CASE u.seg0 <= SIZE /\ Segments(u) = <<[start |-> 0, len |-> h], [start |-> h, len |-> SIZE - h]>>
  <2>1. h \in 0..SIZE
    BY <1>1, <1>2, <1>4
  <2>2. PICK a, b : a = [start |-> 0, len |-> h] /\ b = [start |-> h, len |-> SIZE - h]
    OBVIOUS
  <2>3. a.start \in Nat /\ a.len \in Nat /\ b.start \in Nat /\ b.len \in Nat
    BY <1>1, <2>1, <2>2
  <2>4. PICK s : s = <<a, b>>
    OBVIOUS
  <2>5. Len(s) = 2 /\ s[1] = a /\ s[2] = b
    BY <2>4
  <2>6. k = 0 \/ k = 1
    BY <1>4, <2>2, <2>4, <2>5
  <2> QED BY <1>4, <2>2, <2>3, <2>4, <2>5, <2>6
<1>5. ASSUME NEW n \in Nat \ {0}, Segments(u) = Even(n)
      PROVE  Segments(u)[k + 1].start \in Nat /\ Segments(u)[k + 1].len \in Nat
  <2>1. PICK q \in Nat : q = SIZE \div n
    BY <1>1
  <2>2. Even(n) = [i \in 1..n |-> [start |-> (i - 1) * q, len |-> q]]
    BY <2>1 DEF Even
  <2>3. Len(Even(n)) = n
    BY <2>1, EvenLen
  <2>4. k + 1 \in 1..n /\ k + 1 - 1 = k
    BY <1>5, <2>3
  <2>5. PICK i \in 1..n : i = k + 1
    BY <2>4
  <2>6. PICK p : p = (i - 1) * q
    OBVIOUS
  <2>7. p \in Nat
    <3>1. PICK e \in Nat : e = i - 1
      BY <2>5
    <3>2. p = e * q
      BY <2>6, <3>1
    <3> QED BY <3>2
  <2>8. Even(n)[i] = [start |-> p, len |-> q]
    BY <2>2, <2>6
  <2> QED BY <1>5, <2>1, <2>5, <2>7, <2>8
<1>6. CASE Segments(u) = <<>>
  BY <1>6
<1>7. CASE Segments(u) = Even(1)
  BY <1>5, <1>7
<1>8. CASE Segments(u) = Even(u.config) /\ u.config \in {4, 8}
  BY <1>5, <1>8
<1> QED BY <1>2, <1>4, <1>6, <1>7, <1>8

\* What is asked for is a part of each chip that ends with an erase block.
LEMMA GoalWithin ==
  ASSUME IntactInv, SlotThere, Aligned
  PROVE  /\ Goal.start \in Nat /\ Goal.len \in Nat
         /\ Lo \in Nat /\ Hi \in Nat /\ Half(Goal.len) \in Nat /\ Lo + Half(Goal.len) <= Hi
         /\ erase_block_size \in Nat \ {0} /\ (Lo + Half(Goal.len)) % erase_block_size = 0
<1>1. SUBSECTOR \in Nat \ {0} /\ BLOCK1 \in Nat \ {0}
  BY FlashAssumption
<1>2. Goal.start \in Nat /\ Goal.len \in Nat /\ (Half(Goal.start) + Half(Goal.len)) % erase_block_size = 0
  <2>1. CASE Segments(set) = <<>>
    <3>1. Goal.start = 0 /\ Goal.len = 0
      BY <2>1 DEF Goal, NoSeg
    <3> QED BY <1>1, <3>1 DEF Half, erase_block_size
  <2>2. CASE Segments(set) # <<>>
    <3>1. set \in Setups /\ Slot \in Nat /\ Slot < Len(Segments(set))
      BY <2>2, FlashAssumption DEF IntactInv, SlotThere, Slot
    <3>2. PICK k \in Nat : k = Slot
      BY <3>1
    <3>3. Goal = Segments(set)[k + 1]
      BY <2>2, <3>2 DEF Goal
    <3>4. Goal.start \in Nat /\ Goal.len \in Nat
      BY <3>1, <3>2, <3>3, SegmentNumbers
    <3>5. LET g == Segments(set)[k + 1]
              half(n) == IF set.kind = "dual" THEN n \div 2 ELSE n
          IN (half(g.start) + half(g.len)) % (IF set.kind = "bpi" THEN BLOCK1 ELSE SUBSECTOR) = 0
      BY <3>1, <3>2, Zenon DEF Aligned
    <3> QED BY <3>3, <3>4, <3>5 DEF Half, erase_block_size
  <2> QED BY <2>1, <2>2
<1>3. PICK s \in Nat, n \in Nat : s = Goal.start /\ n = Goal.len
  BY <1>2
<1>4. Half(s) \in Nat /\ Half(n) \in Nat /\ Half(s + n) \in Nat /\ Half(s) + Half(n) <= Half(s + n)
  BY DEF Half
<1> QED BY <1>1, <1>2, <1>3, <1>4 DEF Lo, Hi, erase_block_size

\* The invariant says what is claimed of the other segments.
LEMMA IntactEnough ==
  ASSUME IntactInv
  PROVE  OthersIntact
<1> SUFFICES ASSUME SlotThere, NEW c \in Chips, NEW a \in 0..ChipSize-1, chip[c].mem[a] # OldByte
             PROVE  LET g == Segments(set)[Slot + 1] IN a \in Half(g.start)..Half(g.start + g.len)-1
  BY DEF OthersIntact, SlotThere, Slot
<1>1. Spared(chip[c])
  BY DEF IntactInv, IntactAt
<1>2. a \in Lo..Hi-1
  BY <1>1 DEF Spared
<1>3. CASE Segments(set) = <<>>
  <2>1. Lo = 0 /\ Hi = 0
    BY <1>3 DEF Lo, Hi, Goal, NoSeg, Half
  <2> QED BY <1>2, <2>1
<1>4. CASE Segments(set) # <<>>
  BY <1>2, <1>4 DEF Lo, Hi, Goal
<1> QED BY <1>3, <1>4

\* Jobs inside, as sequences.
LEMMA InsideRest ==
  ASSUME NEW s, JobsIn(s), s # <<>>
  PROVE  JobsIn(Tail(s)) /\ JobIn(s[1])
<1>1. PICK S : s \in Seq(S) /\ \A j \in S : JobIn(j)
  BY DEF JobsIn
<1>2. Tail(s) \in Seq(S) /\ s[1] \in S
  BY <1>1
<1> QED BY <1>1, <1>2 DEF JobsIn

\* Jobs with another first one that is inside.
LEMMA InsideFront ==
  ASSUME NEW s, JobsIn(s), s # <<>>, NEW j, JobIn(j)
  PROVE  LET r == <<j>> \o Tail(s) IN JobsIn(r) /\ r # <<>> /\ r[1] = j
<1>1. PICK S : s \in Seq(S) /\ \A x \in S : JobIn(x)
  BY DEF JobsIn
<1>2. PICK W : W = S \cup {j}
  OBVIOUS
<1>3. PICK r : r = Tail(s)
  OBVIOUS
<1>4. r \in Seq(S)
  BY <1>1, <1>3
<1>5. r \in Seq(W)
  BY <1>2, <1>4, SeqDef
<1>6. <<j>> \in Seq(W) /\ Len(<<j>>) = 1 /\ <<j>>[1] = j
  BY <1>2
<1>7. /\ <<j>> \o r \in Seq(W) /\ Len(<<j>> \o r) = 1 + Len(r) /\ (<<j>> \o r)[1] = j
  BY <1>5, <1>6, ConcatProperties
<1>8. <<j>> \o r # <<>>
  BY <1>5, <1>7
<1>9. \A x \in W : JobIn(x)
  BY <1>1, <1>2
<1> QED BY <1>3, <1>7, <1>8, <1>9 DEF JobsIn

\* An operation on a part of the segment, on every chip.
LEMMA InsideBegin ==
  ASSUME NEW op, NEW a \in Nat, NEW n \in Nat, Lo <= a, a + n <= Hi
  PROVE  JobsIn(PerChip(op, a, n))
<1>1. \A c : JobIn(Job(op, c, a, n))
  <2> TAKE c
  <2>1. PICK j : j = Job(op, c, a, n)
    OBVIOUS
  <2>2. /\ JobFields \subseteq DOMAIN j /\ j.addr = a /\ j.remain = n /\ j.cur = a /\ j.left = 0
    BY <2>1 DEF Job, JobFields
  <2>3. JobIn(j)
    BY <2>2 DEF JobIn
  <2> QED BY <2>1, <2>3
<1>2. PICK x, y : x = Job(op, 1, a, n) /\ y = Job(op, 2, a, n)
  OBVIOUS
<1>3. PICK S : S = {x, y}
  OBVIOUS
<1>4. <<x, y>> \in Seq(S) /\ <<x>> \in Seq(S)
  BY <1>3
<1>5. \A j \in S : JobIn(j)
  BY <1>1, <1>2, <1>3
<1>6. \A s \in Seq(S) : JobsIn(s)
  BY <1>5 DEF JobsIn
<1>7. JobsIn(<<x, y>>) /\ JobsIn(<<x>>)
  BY <1>4, <1>6
<1> QED BY <1>2, <1>7 DEF PerChip

\* Jobs inside followed by jobs inside.
LEMMA InsideBoth ==
  ASSUME NEW s, JobsIn(s), NEW r, JobsIn(r)
  PROVE  JobsIn(s \o r)
<1>1. PICK S : s \in Seq(S) /\ \A x \in S : JobIn(x)
  BY DEF JobsIn
<1>2. PICK R : r \in Seq(R) /\ \A x \in R : JobIn(x)
  BY DEF JobsIn
<1>3. PICK W : W = S \cup R
  OBVIOUS
<1>4. s \in Seq(W) /\ r \in Seq(W)
  BY <1>1, <1>2, <1>3, SeqDef
<1>5. s \o r \in Seq(W)
  BY <1>4, ConcatProperties
<1> QED BY <1>1, <1>2, <1>3, <1>5 DEF JobsIn

---------------------------------------------------------------------------
\* A chip with the same cells is as spared as before.
LEMMA SparedStays ==
  ASSUME NEW a, Spared(a), NEW b, DOMAIN b = DOMAIN a, b.mem = a.mem
  PROVE  Spared(b)
  BY DEF Spared

\* What a command does apart from erasing and programming keeps the cells.
LEMMA CellsStay ==
  ASSUME NEW ch, "mem" \in DOMAIN ch
  PROVE  /\ \A a : DOMAIN Unlock(ch, a) = DOMAIN ch /\ Unlock(ch, a).mem = ch.mem
         /\ \A ok : DOMAIN Status(ch, ok) = DOMAIN ch /\ Status(ch, ok).mem = ch.mem
         /\ \A m : LET d == [ch EXCEPT !.mode = m] IN DOMAIN d = DOMAIN ch /\ d.mem = ch.mem
         /\ \A b : LET d == [ch EXCEPT !.busy = b] IN DOMAIN d = DOMAIN ch /\ d.mem = ch.mem
<1>1. \A a : DOMAIN Unlock(ch, a) = DOMAIN ch /\ Unlock(ch, a).mem = ch.mem
  BY DEF Unlock
<1>2. \A ok : DOMAIN Status(ch, ok) = DOMAIN ch /\ Status(ch, ok).mem = ch.mem
  BY DEF Status
<1>3. \A m : LET d == [ch EXCEPT !.mode = m] IN DOMAIN d = DOMAIN ch /\ d.mem = ch.mem
  OBVIOUS
<1>4. \A b : LET d == [ch EXCEPT !.busy = b] IN DOMAIN d = DOMAIN ch /\ d.mem = ch.mem
  OBVIOUS
<1> QED BY <1>1, <1>2, <1>3, <1>4

\* Spared chips stay spared.
LEMMA SparedSteps ==
  ASSUME NEW ch, Spared(ch)
  PROVE  /\ \A a : Spared(Unlock(ch, a))
         /\ \A ok : Spared(Status(ch, ok))
         /\ \A m : Spared([ch EXCEPT !.mode = m])
         /\ \A b : Spared([ch EXCEPT !.busy = b])
         /\ Spared(Deselect(ch)) /\ Spared(FlashOpen(ch))
<1>1. "mem" \in DOMAIN ch
  BY DEF Spared
<1>2. \A a : Spared(Unlock(ch, a))
  BY <1>1, CellsStay, SparedStays
<1>3. \A ok : Spared(Status(ch, ok))
  BY <1>1, CellsStay, SparedStays
<1>4. ASSUME NEW m PROVE Spared([ch EXCEPT !.mode = m])
  <2>1. PICK d : d = [ch EXCEPT !.mode = m]
    OBVIOUS
  <2>2. DOMAIN d = DOMAIN ch /\ d.mem = ch.mem
    BY <1>1, <2>1
  <2>3. Spared(d)
    BY <2>2, SparedStays
  <2> QED BY <2>1, <2>3
<1>5. ASSUME NEW b PROVE Spared([ch EXCEPT !.busy = b])
  <2>1. PICK d : d = [ch EXCEPT !.busy = b]
    OBVIOUS
  <2>2. DOMAIN d = DOMAIN ch /\ d.mem = ch.mem
    BY <1>1, <2>1
  <2>3. Spared(d)
    BY <2>2, SparedStays
  <2> QED BY <2>1, <2>3
<1>6. ASSUME NEW d, Spared(d) PROVE Spared(Deselect(d))
  <2>1. "mem" \in DOMAIN d
    BY <1>6 DEF Spared
  <2>2. PICK e : e = Deselect(d)
    OBVIOUS
  <2>3. DOMAIN e = DOMAIN d /\ e.mem = d.mem
    BY <2>1, <2>2 DEF Deselect
  <2>4. Spared(e)
    BY <1>6, <2>3, SparedStays
  <2> QED BY <2>2, <2>4
<1>7. Spared(FlashOpen(ch))
  <2>1. CASE set.kind # "bpi"
    BY <1>4, <2>1 DEF FlashOpen, spi_flash_init
  <2>2. CASE set.kind = "bpi"
    <3>1. PICK q : FlashOpen(ch) = Deselect([ch EXCEPT !.mode = q])
      BY <2>2 DEF FlashOpen, bpi_flash_init
    <3> QED BY <1>4, <1>6, <3>1
  <2> QED BY <2>1, <2>2
<1> QED BY <1>2, <1>3, <1>4, <1>5, <1>6, <1>7

\* An erase inside the segment.
LEMMA EraseSpares ==
  ASSUME NEW ch, Spared(ch), NEW a \in Nat, NEW n \in Nat, Lo \in Nat, Hi \in Nat, Lo <= a, a + n <= Hi
  PROVE  Spared(ErasedAt(ch, a, n))
<1>1. "mem" \in DOMAIN ch /\ DOMAIN ch.mem = 0..ChipSize-1
  BY DEF Spared
<1>2. PICK m : m = [x \in DOMAIN ch.mem |-> IF x \in a..a+n-1 THEN Erased ELSE ch.mem[x]]
  OBVIOUS
<1>3. PICK d : d = [ch EXCEPT !.mem = m]
  OBVIOUS
<1>4. ErasedAt(ch, a, n) = d
  BY <1>2, <1>3 DEF ErasedAt
<1>5. DOMAIN d = DOMAIN ch /\ d.mem = m
  BY <1>1, <1>3
<1>6. DOMAIN m = 0..ChipSize-1
  BY <1>1, <1>2
<1>7. ASSUME NEW x \in 0..ChipSize-1, x \notin Lo..Hi-1
      PROVE  m[x] = OldByte
  <2>1. x \notin a..a+n-1
    BY <1>7
  <2>2. m[x] = ch.mem[x]
    BY <1>1, <1>2, <1>7, <2>1
  <2> QED BY <1>7, <2>2 DEF Spared
<1> QED BY <1>1, <1>4, <1>5, <1>6, <1>7 DEF Spared

\* Up to the end of a page addresses do not wrap.
LEMMA NoWrap ==
  ASSUME NEW p \in Nat \ {0}, NEW a \in Nat, NEW i \in Nat, i < p - (a % p)
  PROVE  (a - (a % p)) + ((a + i) % p) = a + i
<1>1. PICK r \in 0..p-1 : r = a % p
  OBVIOUS
<1>2. PICK q \in Nat : q = a \div p
  OBVIOUS
<1>3. PICK m \in Nat : m = p * q
  OBVIOUS
<1>4. a = m + r
  BY <1>1, <1>2, <1>3
<1>5. (m + (r + i)) % p = r + i
  <2>1. PICK e \in 0..p-1 : e = r + i
    BY <1>1
  <2>2. (p * q + e) % p = e
    OBVIOUS
  <2> QED BY <1>3, <2>1, <2>2
<1>6. a + i = m + (r + i)
  BY <1>4
<1> QED BY <1>1, <1>4, <1>5, <1>6

\* A program command inside the segment that ends with its page at the latest.
LEMMA ProgramSpares ==
  ASSUME NEW ch, Spared(ch), NEW a \in Nat, NEW n \in Nat, Lo \in Nat, Hi \in Nat, Lo <= a, a + n <= Hi,
         NEW buf, NEW base, NEW p \in Nat \ {0}, p = IF set.kind = "bpi" THEN WBUF ELSE PAGE, n <= p - (a % p)
  PROVE  Spared(ProgramAt(ch, a, n, buf, base))
<1> DEFINE w(x) == {i \in 0..n-1 : (a - (a % p)) + ((a + i) % p) = x}
           l(x) == UNION {buf[a - base + i][1] : i \in w(x)}
           h(x) == UNION {buf[a - base + i][2] : i \in w(x)}
<1>1. "mem" \in DOMAIN ch /\ DOMAIN ch.mem = 0..ChipSize-1
  BY DEF Spared
<1>2. PICK m : m = [x \in DOMAIN ch.mem |-> <<ch.mem[x][1] \union l(x), ch.mem[x][2] \union h(x)>>]
  OBVIOUS
<1>3. PICK d : d = [ch EXCEPT !.mem = m]
  OBVIOUS
<1>4. ProgramAt(ch, a, n, buf, base) = d
  BY <1>2, <1>3 DEF ProgramAt
<1>5. DOMAIN d = DOMAIN ch /\ d.mem = m
  BY <1>1, <1>3
<1>6. DOMAIN m = 0..ChipSize-1
  BY <1>1, <1>2
<1>7. ASSUME NEW x \in 0..ChipSize-1, x \notin Lo..Hi-1
      PROVE  m[x] = OldByte
  <2>1. ASSUME NEW i \in 0..n-1 PROVE (a - (a % p)) + ((a + i) % p) # x
    <3>1. i \in Nat /\ i < p - (a % p)
      BY <2>1
    <3>2. (a - (a % p)) + ((a + i) % p) = a + i
      BY <3>1, NoWrap
    <3>3. a + i \in Lo..Hi-1
      BY <3>1
    <3> QED BY <1>7, <3>2, <3>3
  <2>2. w(x) = {}
    BY <2>1
  <2>3. l(x) = {} /\ h(x) = {}
    BY <2>2, Zenon
  <2>4. m[x] = <<ch.mem[x][1] \union l(x), ch.mem[x][2] \union h(x)>>
    BY <1>1, <1>2, <1>7
  <2> HIDE DEF l, h, w
  <2>5. ch.mem[x] = <<{0}, {0}>>
    BY <1>7 DEF Spared, OldByte
  <2>6. PICK u : u = {0}
    OBVIOUS
  <2>7. ch.mem[x][1] = u /\ ch.mem[x][2] = u
    BY <2>5, <2>6
  <2>8. u \union {} = u
    OBVIOUS
  <2> QED BY <2>3, <2>4, <2>6, <2>7, <2>8 DEF OldByte
<1> QED BY <1>1, <1>4, <1>5, <1>6, <1>7 DEF Spared

\* Erase commands of every driver, inside the segment.
LEMMA SectorSpares ==
  ASSUME set \in Setups, NEW ch, Spared(ch), NEW a \in Nat, NEW n \in Nat, NEW ok,
         Lo \in Nat, Hi \in Nat, Lo <= a, a + n <= Hi
  PROVE  Spared(SectorErase(ch, a, n, ok))
<1>1. /\ set.kind = "bpi" => set.ops \in {"intel", "amd", "micron"}
      /\ set.kind # "bpi" => set.ops = "none"
  BY FlashAssumption
<1>2. PICK e : e = ErasedAt(ch, a, n) /\ Spared(e)
  BY EraseSpares
<1>3. PICK f : f = ErasedAt(Unlock(ch, a), a, n) /\ Spared(f)
  BY SparedSteps, EraseSpares
<1>4. CASE set.kind # "bpi"
  BY <1>1, <1>2, <1>4 DEF SectorErase, spi_flash_erase
<1>5. CASE set.kind = "bpi" /\ set.ops = "intel"
  <2>1. PICK x : x = (IF ok THEN f ELSE Unlock(ch, a)) /\ Spared(x)
    BY <1>3, SparedSteps
  <2>2. PICK y : y = Status(x, ok) /\ Spared(y)
    BY <2>1, SparedSteps
  <2>3. SectorErase(ch, a, n, ok) = [y EXCEPT !.mode = "status"]
    BY <1>3, <1>5, <2>1, <2>2 DEF SectorErase, bpi_flash_intel_sector_erase
  <2>4. Spared([y EXCEPT !.mode = "status"])
    BY <2>2, SparedSteps, Zenon
  <2> QED BY <2>3, <2>4
<1>6. CASE set.kind = "bpi" /\ set.ops = "amd"
  <2>1. PICK x : x = (IF ok THEN e ELSE ch) /\ Spared(x)
    BY <1>2
  <2>2. SectorErase(ch, a, n, ok) = Status(x, ok)
    BY <1>2, <1>6, <2>1 DEF SectorErase, bpi_flash_amd_sector_erase
  <2> QED BY <2>1, <2>2, SparedSteps
<1>7. CASE set.kind = "bpi" /\ set.ops = "micron"
  <2>1. PICK x : x = (IF ok THEN f ELSE Unlock(ch, a)) /\ Spared(x)
    BY <1>3, SparedSteps
  <2>2. SectorErase(ch, a, n, ok) = Status(x, ok)
    BY <1>3, <1>7, <2>1 DEF SectorErase, bpi_flash_micron_sector_erase
  <2> QED BY <2>1, <2>2, SparedSteps
<1> QED BY <1>1, <1>4, <1>5, <1>6, <1>7

\* Program commands of every driver, inside the segment.
LEMMA PageSpares ==
  ASSUME set \in Setups, NEW ch, Spared(ch), NEW a \in Nat, NEW n \in Nat, NEW buf, NEW base, NEW ok,
         Lo \in Nat, Hi \in Nat, Lo <= a, a + n <= Hi,
         NEW p \in Nat \ {0}, p = IF set.kind = "bpi" THEN WBUF ELSE PAGE, n <= p - (a % p)
  PROVE  Spared(Program(ch, a, n, buf, base, ok))
<1>1. /\ set.kind = "bpi" => set.ops \in {"intel", "amd", "micron"}
      /\ set.kind # "bpi" => set.ops = "none"
  BY FlashAssumption
<1>2. PICK e : e = ProgramAt(ch, a, n, buf, base) /\ Spared(e)
  BY ProgramSpares
<1>3. CASE set.kind # "bpi"
  BY <1>1, <1>2, <1>3 DEF Program, spi_flash_write
<1> DEFINE can == ok /\ BlockOf(a) \notin ch.locked
<1>4. CASE set.kind = "bpi" /\ set.ops = "intel"
  <2>1. PICK x : x = (IF can THEN e ELSE ch) /\ Spared(x)
    BY <1>2
  <2>2. PICK y : y = Status(x, can) /\ Spared(y)
    BY <2>1, SparedSteps
  <2>3. Program(ch, a, n, buf, base, ok) = [y EXCEPT !.mode = "status"]
    BY <1>2, <1>4, <2>1, <2>2 DEF Program, bpi_flash_intel_buffered_program
  <2>4. Spared([y EXCEPT !.mode = "status"])
    BY <2>2, SparedSteps, Zenon
  <2> QED BY <2>3, <2>4
<1>5. CASE set.kind = "bpi" /\ set.ops = "amd"
  <2>1. PICK x : x = (IF ok THEN e ELSE ch) /\ Spared(x)
    BY <1>2
  <2>2. Program(ch, a, n, buf, base, ok) = Status(x, ok)
    BY <1>2, <1>5, <2>1 DEF Program, bpi_flash_amd_buffered_program
  <2>3. Spared(Status(x, ok))
    BY <2>1, SparedSteps, Zenon
  <2> QED BY <2>2, <2>3
<1>6. CASE set.kind = "bpi" /\ set.ops = "micron"
  <2>1. PICK x : x = (IF can THEN e ELSE ch) /\ Spared(x)
    BY <1>2
  <2>2. Program(ch, a, n, buf, base, ok) = Status(x, can)
    BY <1>2, <1>6, <2>1 DEF Program, bpi_flash_micron_buffered_program
  <2>3. Spared(Status(x, can))
    BY <2>1, SparedSteps, Zenon
  <2> QED BY <2>2, <2>3
<1> QED BY <1>1, <1>3, <1>4, <1>5, <1>6

\* The next step of a job is a part of what the job has left ...
LEMMA StepWithin ==
  ASSUME NEW a \in Nat, NEW n \in Nat, NEW s \in Nat \ {0}
  PROVE  SegLen(a, n, s) \in 0..n
<1>1. (a + s) % s \in 0..s-1
  OBVIOUS
<1> QED BY <1>1 DEF SegLen

\* ... a block is no longer than what is left to erase ...
LEMMA BlockWithin ==
  ASSUME NEW a \in Nat, NEW n \in Nat
  PROVE  EraseBlock(a, n) \in 0..n
<1>1. \A x \in {SIZE, SUBSECTOR, SECTOR, BLOCK0, BLOCK1} : x \in Nat \ {0}
  BY FlashAssumption
<1>2. spi_block(a, n) \in 0..n
  BY <1>1 DEF spi_block
<1>3. bpi_block(a, n) \in 0..n
  <2>1. PICK b : b = IF a < REGION0 THEN BLOCK0 ELSE IF a < SIZE THEN BLOCK1 ELSE 0
    OBVIOUS
  <2>2. b \in Nat
    BY <1>1, <2>1
  <2>3. bpi_block(a, n) = IF b = 0 \/ a % b # 0 \/ n < b THEN 0 ELSE b
    BY <2>1 DEF bpi_block
  <2> QED BY <2>2, <2>3
<1> QED BY <1>2, <1>3 DEF EraseBlock

\* ... and what a command programs ends with its page at the latest.
LEMMA PageWithin ==
  ASSUME NEW a \in Nat, NEW n \in Nat
  PROVE  \E p \in Nat \ {0} : /\ p = IF set.kind = "bpi" THEN WBUF ELSE PAGE
                              /\ ProgramLen(a, n) \in 0..n /\ ProgramLen(a, n) <= p - (a % p)
<1>1. PICK p : p = IF set.kind = "bpi" THEN WBUF ELSE PAGE
  OBVIOUS
<1>2. p \in Nat \ {0}
  <2>1. \A x \in {WBUF, PAGE} : x \in Nat \ {0}
    BY FlashAssumption
  <2> QED BY <1>1, <2>1
<1>3. a % p \in 0..p-1
  BY <1>2
<1>4. ProgramLen(a, n) = Least(n, p - (a % p))
  BY <1>1 DEF ProgramLen
<1>5. ProgramLen(a, n) \in 0..n /\ ProgramLen(a, n) <= p - (a % p)
  BY <1>2, <1>3, <1>4 DEF Least
<1> QED BY <1>1, <1>2, <1>5

\* A length that is rounded up does not pass the end of a block.
LEMMA RoundWithin ==
  ASSUME NEW a \in Nat, NEW n \in Nat, NEW z \in Nat, a + n <= z, NEW b \in Nat \ {0},
         b = erase_block_size, z % b = 0
  PROVE  RoundUp(a, n) \in Nat /\ a + RoundUp(a, n) <= z
<1>1. PICK x \in Nat : x = a + n
  OBVIOUS
<1>2. PICK r \in 0..b-1 : r = x % b
  OBVIOUS
<1>3. RoundUp(a, n) = IF r = 0 THEN n ELSE n + b - r
  BY <1>1, <1>2 DEF RoundUp
<1>4. CASE r = 0
  BY <1>3, <1>4
<1>5. CASE r # 0
  <2>1. x + (b - r) <= z
    <3>1. PICK q \in Nat : q = x \div b
      OBVIOUS
    <3>2. PICK k \in Nat : k = z \div b
      OBVIOUS
    <3>3. x = b * q + r
      BY <1>2, <3>1
    <3>4. z = b * k
      BY <3>2
    <3>5. b * q + r <= b * k
      BY <1>1, <3>3, <3>4
    <3>6. q < k
      <4>1. CASE k <= q
        <5>1. PICK d \in Nat : q = k + d
          BY <4>1
        <5>2. b * q = b * k + b * d
          BY <5>1
        <5>3. PICK v \in Nat : v = b * d
          OBVIOUS
        <5>4. PICK y \in Nat : y = b * k
          OBVIOUS
        <5>5. y + v + r <= y
          BY <3>5, <5>2, <5>3, <5>4
        <5> QED BY <1>2, <1>5, <5>5
      <4> QED BY <4>1
    <3>7. b * (q + 1) <= b * k
      <4>1. PICK d \in Nat : k = (q + 1) + d
        BY <3>6
      <4>2. b * k = b * (q + 1) + b * d
        BY <4>1
      <4>3. PICK v \in Nat : v = b * d
        OBVIOUS
      <4>4. PICK y \in Nat : y = b * (q + 1)
        OBVIOUS
      <4> QED BY <4>2, <4>3, <4>4
    <3>8. b * (q + 1) = b * q + b
      OBVIOUS
    <3>9. PICK y \in Nat : y = b * q
      OBVIOUS
    <3>10. y + b <= z /\ x = y + r
      BY <3>3, <3>4, <3>7, <3>8, <3>9
    <3> QED BY <1>2, <3>10
  <2> QED BY <1>1, <1>2, <1>3, <1>5, <2>1
<1> QED BY <1>4, <1>5

---------------------------------------------------------------------------
\* The flash is as it was.
LEMMA IntactStarts == FlashInit => IntactInv
<1> SUFFICES ASSUME FlashInit PROVE IntactInv
  OBVIOUS
<1>1. set \in Setups /\ opt \in Options /\ t = FwStart
  BY DEF FlashInit
<1>2. file.len \in Nat
  <2>1. Lens \subseteq Nat /\ RESYNC \in Nat
    BY FlashAssumption
  <2>2. CASE file \in [type : {"bin", "bit"}, ok : {TRUE}, sync : {TRUE}, len : Lens]
    BY <2>1, <2>2
  <2>3. CASE file \in [type : {"bin", "bit", "hex"}, ok : BOOLEAN, sync : {FALSE}, len : {RESYNC}]
    BY <2>1, <2>3
  <2> QED BY <2>2, <2>3 DEF FlashInit
<1>3. PICK m, l, mode : /\ m = [a \in 0..ChipSize-1 |-> OldByte]
                        /\ chip = [c \in Chips |-> [mem |-> m, mode |-> mode, locked |-> l, busy |-> FALSE,
                                                    err |-> FALSE]]
  <2>1. PICK mode : chip = [c \in Chips |-> [mem |-> [a \in 0..ChipSize-1 |-> OldByte], mode |-> mode,
                                locked |-> {BlockOf(a) : a \in 0..SIZE-1}, busy |-> FALSE, err |-> FALSE]]
    BY Zenon DEF FlashInit
  <2>2. PICK m, l : m = [a \in 0..ChipSize-1 |-> OldByte] /\ l = {BlockOf(a) : a \in 0..SIZE-1}
    OBVIOUS
  <2> QED BY <2>1, <2>2
<1>4. PICK b : b = [mem |-> m, mode |-> mode, locked |-> l, busy |-> FALSE, err |-> FALSE]
  OBVIOUS
<1>5. Spared(b)
  BY <1>3, <1>4 DEF Spared
<1>6. DOMAIN chip = Chips /\ \A c \in Chips : Spared(chip[c])
  BY <1>3, <1>4, <1>5
<1>7. ToolFields \subseteq DOMAIN t /\ t.pc = "open" /\ t.sub = "issue"
  BY <1>1 DEF FwStart, ToolFields
<1>8. IntactAt(t, chip)
  BY <1>6, <1>7 DEF IntactAt
<1> QED BY <1>1, <1>2, <1>8 DEF IntactInv

\* What holds wherever the tool is.
LEMMA IntactShapes ==
  ASSUME IntactInv, SlotThere
  PROVE  /\ set \in Setups /\ opt \in Options /\ file.len \in Nat
         /\ ToolFields \subseteq DOMAIN t
         /\ DOMAIN chip = Chips /\ \A c \in Chips : Spared(chip[c])
         /\ t.pc \in {"erase", "write", "job"} => t.seg = Goal
         /\ t.pc \in {"open", "erase", "write"} => t.sub = "issue"
         /\ t.pc = "job" => /\ JobsIn(t.jobs) /\ t.then \in {"write", "written"}
                            /\ t.jobs = <<>> => t.sub = "issue"
                            /\ t.sub = "verify" => t.jobs[1].left = 0
  BY DEF IntactInv, IntactAt

\* The tool is not at work: the chips are all that counts.
LEMMA IdleSpares ==
  ASSUME IntactInv, UNCHANGED <<set, opt, file>>,
         SlotThere => /\ ToolFields \subseteq DOMAIN t' /\ t'.pc \notin {"open", "erase", "write", "job"}
                      /\ DOMAIN chip' = Chips /\ \A c \in Chips : Spared(chip'[c])
  PROVE  IntactInv'
<1>1. SlotThere => IntactAt(t', chip')
  BY DEF IntactAt
<1> QED BY <1>1, IntactMoves

\* The same with the chips as they are.
LEMMA LeavesSpared ==
  ASSUME IntactInv, UNCHANGED <<set, opt, file, chip>>, NEW p, p \notin {"open", "erase", "write", "job"},
         SlotThere => t'.pc = p /\ ToolFields \subseteq DOMAIN t'
  PROVE  IntactInv'
<1>1. SlotThere => DOMAIN chip' = Chips /\ \A c \in Chips : Spared(chip'[c])
  BY IntactShapes
<1> QED BY <1>1, IdleSpares

\* The tool gives up, or goes where it does not touch the flash.
LEMMA QuitSpares ==
  ASSUME IntactInv, UNCHANGED <<set, opt, file, chip>>,
         \/ \E r : Quit(r)
         \/ \E p : p \notin {"open", "erase", "write", "job"} /\ Goto(p)
         \/ \E p, n : p \notin {"open", "erase", "write", "job"} /\ t' = [t EXCEPT !.pc = p, !.ret = n]
         \/ \E p, n : p \notin {"open", "erase", "write", "job"} /\ t' = [t EXCEPT !.pc = p, !.tries = n]
         \/ \E p, d : p \notin {"open", "erase", "write", "job"} /\ t' = [t EXCEPT !.pc = p, !.done = d]
         \/ \E n : t' = [t EXCEPT !.tries = n] /\ t.pc \notin {"open", "erase", "write", "job"}
  PROVE  IntactInv'
<1>1. PICK p : /\ p \notin {"open", "erase", "write", "job"}
               /\ \/ \E n : t' = [t EXCEPT !.pc = p, !.ret = n]
                  \/ t' = [t EXCEPT !.pc = p]
                  \/ \E n : t' = [t EXCEPT !.pc = p, !.tries = n]
                  \/ \E d : t' = [t EXCEPT !.pc = p, !.done = d]
                  \/ \E n : t' = [t EXCEPT !.tries = n] /\ t.pc = p
  BY DEF Quit, Goto
<1>2. SlotThere => t'.pc = p /\ ToolFields \subseteq DOMAIN t'
  BY <1>1, IntactShapes DEF ToolFields
<1> QED BY <1>1, <1>2, LeavesSpared

\* A stage that was not asked for.
LEMMA SkipStageSpares ==
  ASSUME IntactInv, SkipStage
  PROVE  IntactInv'
<1>1. UNCHANGED <<set, opt, file, chip>>
  BY DEF SkipStage
<1>2. CASE t.pc = "erase" /\ t' = [t EXCEPT !.pc = "write"]
  <2>1. ASSUME SlotThere PROVE IntactAt(t', chip')
    <3>1. t'.pc = "write" /\ t'.sub = "issue" /\ t'.seg = Goal /\ ToolFields \subseteq DOMAIN t'
      BY <1>2, <2>1, IntactShapes DEF ToolFields
    <3> QED BY <1>1, <2>1, <3>1, IntactShapes DEF IntactAt
  <2> QED BY <1>1, <2>1, IntactMoves
<1>3. CASE Goto("read") \/ Goto("skip")
  BY <1>1, <1>3, QuitSpares
<1> QED BY <1>2, <1>3 DEF SkipStage, Goto

\* The slot decides on the segment.
LEMMA OpenSpares ==
  ASSUME IntactInv, Aligned, NEW found, Open(found)
  PROVE  IntactInv'
<1>1. UNCHANGED <<set, opt, file>> /\ t.pc = "open"
  BY DEF Open
<1>2. ASSUME SlotThere PROVE IntactAt(t', chip')
  <2>1. DOMAIN chip' = Chips /\ \A c \in Chips : Spared(chip'[c])
    <3>1. CASE found
      <4>1. chip' = [c \in Chips |-> FlashOpen(chip[c])]
        BY <3>1 DEF Open
      <4> QED BY <1>2, <4>1, IntactShapes, SparedSteps
    <3>2. CASE ~found
      BY <1>2, <3>2, IntactShapes DEF Open
    <3> QED BY <3>1, <3>2
  <2>2. CASE t' = [t EXCEPT !.pc = "skip", !.ret = -1]
    <3>1. t'.pc = "skip" /\ ToolFields \subseteq DOMAIN t'
      BY <1>2, <2>2, IntactShapes DEF ToolFields
    <3> QED BY <2>1, <3>1 DEF IntactAt
  <2>3. CASE found /\ Segments(set) # <<>>
    <3>1. Slot < Len(Segments(set)) /\ Goal = Segments(set)[Slot + 1]
      BY <1>2, <2>3 DEF SlotThere, Goal
    <3>2. t' = [t EXCEPT !.pc = "erase", !.seg = Goal]
      BY <2>3, <3>1 DEF Open, Slot
    <3>3. t'.pc = "erase" /\ t'.sub = "issue" /\ t'.seg = Goal /\ ToolFields \subseteq DOMAIN t'
      BY <1>1, <1>2, <3>2, IntactShapes DEF ToolFields
    <3> QED BY <2>1, <3>3 DEF IntactAt
  <2> QED BY <2>2, <2>3 DEF Open
<1> QED BY <1>1, <1>2, IntactMoves

\* Work begins, inside the segment.
LEMMA BeginSpares ==
  ASSUME IntactInv, UNCHANGED <<set, opt, file, chip>>, t.pc \in {"erase", "write"},
         NEW n \in {"write", "written"}, NEW s, SlotThere => JobsIn(s),
         t' = [t EXCEPT !.pc = "job", !.then = n, !.jobs = s]
  PROVE  IntactInv'
<1>1. ASSUME SlotThere PROVE IntactAt(t', chip')
  <2>1. /\ t'.pc = "job" /\ t'.then = n /\ t'.jobs = s /\ t'.sub = "issue" /\ t'.seg = Goal
        /\ ToolFields \subseteq DOMAIN t'
    BY <1>1, IntactShapes DEF ToolFields
  <2> QED BY <1>1, <2>1, IntactShapes DEF IntactAt
<1> QED BY <1>1, IntactMoves

\* Erasing: all of the segment.
LEMMA EraseIsInside ==
  ASSUME IntactInv, Aligned, NEW yes, Erase(yes)
  PROVE  IntactInv'
<1>1. UNCHANGED <<set, opt, file, chip>> /\ t.pc = "erase"
  BY DEF Erase
<1>2. CASE ~yes
  BY <1>1, <1>2, QuitSpares DEF Erase
<1>3. CASE yes
  <2>1. PICK s : s = PerChip("erase", Half(t.seg.start), Half(t.seg.len))
    OBVIOUS
  <2>2. ASSUME SlotThere PROVE JobsIn(s)
    <3>1. s = PerChip("erase", Lo, Half(Goal.len))
      BY <1>1, <2>1, <2>2, IntactShapes DEF Lo
    <3> QED BY <2>2, <3>1, GoalWithin, InsideBegin
  <2>3. t' = [t EXCEPT !.pc = "job", !.then = "write", !.jobs = s]
    BY <1>3, <2>1 DEF Erase
  <2> QED BY <1>1, <2>2, <2>3, BeginSpares
<1> QED BY <1>2, <1>3

\* What is written, rounded up to whole blocks, is a part of the segment.
LEMMA WriteWithin ==
  ASSUME IntactInv, SlotThere, Aligned, t.seg = Goal, FileUsable
  PROVE  WriteLen \in Nat /\ Lo + WriteLen <= Hi
<1>1. file.len \in Nat /\ file.len <= Goal.len
  BY IntactShapes DEF FileUsable
<1>2. PICK b \in Nat \ {0} : b = erase_block_size
  BY GoalWithin
<1>3. PICK z \in Nat : z = Lo + Half(Goal.len)
  BY GoalWithin
<1>4. z % b = 0 /\ z <= Hi
  BY <1>2, <1>3, GoalWithin
<1>5. PICK lo \in Nat : lo = Lo
  BY GoalWithin
<1>6. PICK n \in Nat : WriteLen = RoundUp(lo, n) /\ lo + n <= z
  <2>1. CASE set.kind = "dual"
    <3>1. PICK g \in Nat : g = Goal.len
      BY GoalWithin
    <3>2. PICK f \in Nat : f = file.len
      BY <1>1
    <3>3. OFFSET \in Nat
      BY FlashAssumption
    <3>4. PICK n : n = Least((f - OFFSET) \div 2 + OFFSET, g \div 2)
      OBVIOUS
    <3>5. n \in Nat /\ n <= g \div 2
      BY <3>3, <3>4 DEF Least
    <3>6. WriteLen = RoundUp(lo, n)
      BY <1>5, <2>1, <3>1, <3>2, <3>4 DEF WriteLen, Lo, Half
    <3>7. z = lo + (g \div 2)
      BY <1>3, <1>5, <2>1, <3>1 DEF Half
    <3> QED BY <3>5, <3>6, <3>7
  <2>2. CASE set.kind # "dual"
    <3>1. WriteLen = RoundUp(lo, file.len)
      BY <1>5, <2>2 DEF WriteLen, Lo, Half
    <3>2. z = lo + Goal.len
      BY <1>3, <1>5, <2>2 DEF Half
    <3> QED BY <1>1, <3>1, <3>2, GoalWithin
  <2> QED BY <2>1, <2>2
<1>7. RoundUp(lo, n) \in Nat /\ lo + RoundUp(lo, n) <= z
  BY <1>2, <1>4, <1>6, RoundWithin
<1> QED BY <1>4, <1>5, <1>6, <1>7, GoalWithin

\* Writing: erase, then program, what the image takes.
LEMMA WriteIsInside ==
  ASSUME IntactInv, Aligned, NEW yes, Write(yes)
  PROVE  IntactInv'
<1>1. UNCHANGED <<set, opt, file, chip>> /\ t.pc = "write"
  BY DEF Write
<1>2. CASE ~FileUsable \/ ~yes
  BY <1>1, <1>2, QuitSpares DEF Write
<1>3. CASE FileUsable /\ yes
  <2>1. PICK s : s = PerChip("erase", Half(t.seg.start), WriteLen)
                       \o PerChip("write", Half(t.seg.start), WriteLen)
    OBVIOUS
  <2>2. ASSUME SlotThere PROVE JobsIn(s)
    <3>1. t.seg = Goal /\ Half(t.seg.start) = Lo
      BY <1>1, <2>2, IntactShapes DEF Lo
    <3>2. WriteLen \in Nat /\ Lo + WriteLen <= Hi /\ Lo \in Nat
      BY <1>3, <2>2, <3>1, WriteWithin, GoalWithin
    <3>3. JobsIn(PerChip("erase", Lo, WriteLen)) /\ JobsIn(PerChip("write", Lo, WriteLen))
      BY <3>2, InsideBegin
    <3> QED BY <2>1, <3>1, <3>3, InsideBoth
  <2>3. t' = [t EXCEPT !.pc = "job", !.then = "written", !.jobs = s]
    BY <1>3, <2>1 DEF Write
  <2> QED BY <1>1, <2>2, <2>3, BeginSpares
<1> QED BY <1>2, <1>3

---------------------------------------------------------------------------
\* The tool goes on with its work.
LEMMA WorkSpares ==
  ASSUME IntactInv, t.pc = "job", UNCHANGED <<set, opt, file>>,
         SlotThere => /\ ToolFields \subseteq DOMAIN t' /\ t'.pc = "job" /\ t'.then = t.then /\ t'.seg = t.seg
                      /\ JobsIn(t'.jobs) /\ (t'.jobs = <<>> => t'.sub = "issue")
                      /\ t'.sub = "verify" => t'.jobs[1].left = 0
                      /\ DOMAIN chip' = Chips /\ \A c \in Chips : Spared(chip'[c])
  PROVE  IntactInv'
<1>1. SlotThere => IntactAt(t', chip')
  BY IntactShapes DEF IntactAt
<1> QED BY <1>1, IntactMoves

\* The first job is inside.
LEMMA FirstInside ==
  ASSUME IntactInv, SlotThere, Aligned, t.pc = "job", t.jobs # <<>>
  PROVE  JobsIn(t.jobs) /\ JobIn(J) /\ Lo \in Nat /\ Hi \in Nat
  BY IntactShapes, InsideRest, GoalWithin DEF J

\* The first job moves on, inside: where the tool is then.
LEMMA JobSpares ==
  ASSUME IntactInv, SlotThere, Aligned, t.pc = "job", t.jobs # <<>>, NEW j, JobIn(j), NEW e, e = WithJob(j)
  PROVE  /\ ToolFields \subseteq DOMAIN e /\ e.pc = "job" /\ e.then = t.then /\ e.seg = t.seg /\ e.sub = t.sub
         /\ JobsIn(e.jobs) /\ e.jobs # <<>> /\ e.jobs[1] = j
<1>1. PICK s : s = <<j>> \o Tail(t.jobs)
  OBVIOUS
<1>2. JobsIn(s) /\ s # <<>> /\ s[1] = j
  BY <1>1, FirstInside, InsideFront
<1>3. e = [t EXCEPT !.jobs = s]
  BY <1>1 DEF WithJob
<1>4. /\ ToolFields \subseteq DOMAIN e /\ e.pc = "job" /\ e.then = t.then /\ e.seg = t.seg /\ e.sub = t.sub
      /\ e.jobs = s
  BY <1>3, IntactShapes DEF ToolFields
<1> QED BY <1>2, <1>4

\* The next step of a job.
LEMMA NextSegSpares ==
  ASSUME IntactInv, Aligned, NextSeg
  PROVE  IntactInv'
<1>1. UNCHANGED <<set, opt, file, chip>> /\ t.pc = "job" /\ t.jobs # <<>> /\ t.sub = "issue"
  BY DEF NextSeg
<1>2. CASE J.remain = 0
  <2>1. t' = [t EXCEPT !.jobs = Tail(t.jobs)]
    BY <1>1, <1>2 DEF NextSeg
  <2>2. ASSUME SlotThere
        PROVE  /\ ToolFields \subseteq DOMAIN t' /\ t'.pc = "job" /\ t'.then = t.then /\ t'.seg = t.seg
               /\ t'.jobs = Tail(t.jobs) /\ t'.sub = "issue" /\ JobsIn(Tail(t.jobs))
    <3>1. JobsIn(Tail(t.jobs))
      BY <1>1, <2>2, IntactShapes, InsideRest
    <3> QED BY <1>1, <2>1, <2>2, <3>1, IntactShapes DEF ToolFields
  <2> QED BY <1>1, <2>2, IntactShapes, WorkSpares
<1>3. CASE J.remain # 0
  <2>1. PICK n : n = SegLen(J.addr, J.remain, StepSize)
    OBVIOUS
  <2>2. PICK j : j = [J EXCEPT !.cur = J.addr, !.left = n]
    OBVIOUS
  <2>3. t' = WithJob(j)
    BY <1>1, <1>3, <2>1, <2>2 DEF NextSeg
  <2>4. ASSUME SlotThere PROVE JobIn(j)
    <3>1. JobIn(J)
      BY <1>1, <2>4, FirstInside
    <3>2. PICK a \in Nat : a = J.addr
      BY <3>1 DEF JobIn
    <3>3. PICK r \in Nat : r = J.remain
      BY <3>1 DEF JobIn
    <3>4. StepSize \in Nat \ {0}
      <4>1. \A x \in {STEP, SUBSECTOR, BLOCK1, WBUF, PAGE} : x \in Nat \ {0}
        BY FlashAssumption
      <4> QED BY <4>1 DEF StepSize, Max2, erase_block_size
    <3>5. n \in 0..r
      BY <2>1, <3>2, <3>3, <3>4, StepWithin
    <3>6. JobFields \subseteq DOMAIN J
      BY <3>1 DEF JobIn
    <3>7. /\ JobFields \subseteq DOMAIN j /\ j.addr = a /\ j.remain = r /\ j.cur = a /\ j.left = n
      BY <2>2, <3>2, <3>3, <3>6 DEF JobFields
    <3> QED BY <3>1, <3>2, <3>3, <3>5, <3>7 DEF JobIn
  <2>5. SlotThere => /\ ToolFields \subseteq DOMAIN t' /\ t'.pc = "job" /\ t'.then = t.then /\ t'.seg = t.seg
                     /\ t'.sub = "issue" /\ JobsIn(t'.jobs) /\ t'.jobs # <<>>
    BY <1>1, <2>3, <2>4, JobSpares
  <2> QED BY <1>1, <2>5, IntactShapes, WorkSpares
<1> QED BY <1>2, <1>3

\* The next stage, after the last job.
LEMMA NextStageSpares ==
  ASSUME IntactInv, NextStage
  PROVE  IntactInv'
<1>1. UNCHANGED <<set, opt, file, chip>> /\ t.pc = "job" /\ t.jobs = <<>> /\ t' = [t EXCEPT !.pc = t.then]
  BY DEF NextStage, Goto
<1>2. ASSUME SlotThere PROVE IntactAt(t', chip')
  <2>1. /\ t'.pc \in {"write", "written"} /\ t'.sub = "issue" /\ t'.seg = Goal
        /\ ToolFields \subseteq DOMAIN t'
    BY <1>1, <1>2, IntactShapes DEF ToolFields
  <2> QED BY <1>1, <1>2, <2>1, IntactShapes DEF IntactAt
<1> QED BY <1>1, <1>2, IntactMoves

\* A failed job ends the tool; the chip is told to read its array.
LEMMA JobFailsSpares ==
  ASSUME IntactInv, JobFails, UNCHANGED <<set, opt, file>>
  PROVE  IntactInv'
<1>1. t' = [t EXCEPT !.pc = "end", !.ret = -1]
  BY DEF JobFails, Quit
<1>2. PICK k : k = J.c
  OBVIOUS
<1>3. chip' = [chip EXCEPT ![k] = Deselect(chip[k])]
  BY <1>2 DEF JobFails
<1>4. ASSUME SlotThere
      PROVE  /\ ToolFields \subseteq DOMAIN t' /\ t'.pc = "end"
             /\ DOMAIN chip' = Chips /\ \A c \in Chips : Spared(chip'[c])
  <2>1. ToolFields \subseteq DOMAIN t' /\ t'.pc = "end"
    BY <1>1, <1>4, IntactShapes DEF ToolFields
  <2>2. DOMAIN chip' = Chips /\ \A c \in Chips : Spared(chip'[c])
    BY <1>3, <1>4, IntactShapes, SparedSteps
  <2> QED BY <2>1, <2>2
<1> QED BY <1>4, IdleSpares

\* A command whose cells are spared.
LEMMA CommandSpares ==
  ASSUME IntactInv, Aligned, Issue, NEW ch, SlotThere /\ J.c \in Chips => Spared(ch), Command(ch),
         t' = [t EXCEPT !.sub = "wait"], UNCHANGED <<set, opt, file>>
  PROVE  IntactInv'
<1>1. t.pc = "job" /\ t.jobs # <<>>
  BY DEF Issue
<1>2. PICK k : k = J.c
  OBVIOUS
<1>3. chip' = [chip EXCEPT ![k] = IF chip[k].busy THEN chip[k] ELSE [ch EXCEPT !.busy = TRUE]]
  BY <1>2 DEF Command
<1>4. ASSUME SlotThere
      PROVE  /\ ToolFields \subseteq DOMAIN t' /\ t'.pc = "job" /\ t'.then = t.then /\ t'.seg = t.seg
             /\ t'.jobs = t.jobs /\ t'.sub = "wait" /\ JobsIn(t.jobs)
             /\ DOMAIN chip' = Chips /\ \A c \in Chips : Spared(chip'[c])
  <2>1. /\ ToolFields \subseteq DOMAIN t' /\ t'.pc = "job" /\ t'.then = t.then /\ t'.seg = t.seg
        /\ t'.jobs = t.jobs /\ t'.sub = "wait" /\ JobsIn(t.jobs)
    BY <1>1, <1>4, IntactShapes DEF ToolFields
  <2>2. DOMAIN chip' = Chips /\ \A c \in Chips : c # k => chip'[c] = chip[c]
    BY <1>3, <1>4, IntactShapes
  <2>3. ASSUME k \in Chips PROVE Spared(chip'[k])
    <3>1. PICK d : d = [ch EXCEPT !.busy = TRUE] /\ Spared(d)
      BY <1>2, <1>4, <2>3, SparedSteps, Zenon
    <3>2. chip'[k] = IF chip[k].busy THEN chip[k] ELSE d
      BY <1>3, <1>4, <2>3, <3>1, IntactShapes
    <3> QED BY <1>4, <2>3, <3>1, <3>2, IntactShapes
  <2> QED BY <1>4, <2>1, <2>2, <2>3, IntactShapes
<1> QED BY <1>1, <1>4, WorkSpares

\* An erase command.
LEMMA IssueEraseSpares ==
  ASSUME IntactInv, Aligned, NEW ok, IssueErase(ok)
  PROVE  IntactInv'
<1>1. UNCHANGED <<set, opt, file>> /\ Issue /\ t.pc = "job" /\ t.jobs # <<>>
  BY DEF IssueErase, Issue
<1>2. PICK b : b = EraseBlock(J.cur, J.left)
  OBVIOUS
<1>3. CASE b = 0
  BY <1>1, <1>2, <1>3, JobFailsSpares DEF IssueErase
<1>4. CASE b # 0
  <2>1. PICK ch : ch = SectorErase(chip[J.c], J.cur, b, ok)
    OBVIOUS
  <2>2. ASSUME SlotThere, J.c \in Chips PROVE Spared(ch)
    <3>1. JobIn(J) /\ Lo \in Nat /\ Hi \in Nat /\ Spared(chip[J.c]) /\ set \in Setups
      BY <1>1, <2>2, FirstInside, IntactShapes
    <3>2. PICK a \in Nat : a = J.cur
      BY <3>1 DEF JobIn
    <3>3. PICK n \in Nat : n = J.left
      BY <3>1 DEF JobIn
    <3>4. b \in 0..n
      BY <1>2, <3>2, <3>3, BlockWithin
    <3>5. Lo <= a /\ a + b <= Hi
      BY <3>1, <3>2, <3>3, <3>4 DEF JobIn
    <3> QED BY <2>1, <3>1, <3>2, <3>4, <3>5, SectorSpares
  <2>3. Command(ch) /\ t' = [t EXCEPT !.sub = "wait"]
    BY <1>2, <1>4, <2>1 DEF IssueErase
  <2> QED BY <1>1, <2>2, <2>3, CommandSpares
<1> QED BY <1>3, <1>4

\* A program command.
LEMMA IssueProgramSpares ==
  ASSUME IntactInv, Aligned, NEW ok, IssueProgram(ok)
  PROVE  IntactInv'
<1>1. UNCHANGED <<set, opt, file>> /\ Issue /\ t.pc = "job" /\ t.jobs # <<>> /\ t' = [t EXCEPT !.sub = "wait"]
  BY DEF IssueProgram, Issue
<1>2. PICK ch : ch = Program(chip[J.c], J.cur, ProgramLen(J.cur, J.left), Buffer(J.c), J.base, ok)
  OBVIOUS
<1>3. ASSUME SlotThere, J.c \in Chips PROVE Spared(ch)
  <2>1. JobIn(J) /\ Lo \in Nat /\ Hi \in Nat /\ Spared(chip[J.c]) /\ set \in Setups
    BY <1>1, <1>3, FirstInside, IntactShapes
  <2>2. PICK a \in Nat : a = J.cur
    BY <2>1 DEF JobIn
  <2>3. PICK n \in Nat : n = J.left
    BY <2>1 DEF JobIn
  <2>4. PICK p \in Nat \ {0} : /\ p = IF set.kind = "bpi" THEN WBUF ELSE PAGE
                               /\ ProgramLen(a, n) \in 0..n /\ ProgramLen(a, n) <= p - (a % p)
    BY PageWithin
  <2>5. PICK l \in Nat : l = ProgramLen(a, n)
    BY <2>4
  <2>6. Lo <= a /\ a + l <= Hi /\ l <= p - (a % p)
    BY <2>1, <2>2, <2>3, <2>4, <2>5 DEF JobIn
  <2> QED BY <1>2, <2>1, <2>2, <2>3, <2>4, <2>5, <2>6, PageSpares
<1>4. Command(ch)
  BY <1>2 DEF IssueProgram
<1> QED BY <1>1, <1>3, <1>4, CommandSpares

\* The operation of a command is over: the job moves on by what it took.
LEMMA WaitSpares ==
  ASSUME IntactInv, Aligned, Wait
  PROVE  IntactInv'
<1>1. UNCHANGED <<set, opt, file>> /\ t.pc = "job" /\ t.sub = "wait"
  BY DEF Wait
<1>2. PICK n : n = IF J.op = "erase" THEN EraseBlock(J.cur, J.left) ELSE ProgramLen(J.cur, J.left)
  OBVIOUS
<1>3. PICK j : j = [J EXCEPT !.cur = @ + n, !.left = @ - n]
  OBVIOUS
<1>4. ASSUME SlotThere
      PROVE  /\ t.jobs # <<>> /\ JobIn(J) /\ JobIn(j) /\ n \in Nat
             /\ j.addr = J.addr /\ j.remain = J.remain /\ j.cur = J.cur + n /\ j.left = J.left - n
  <2>1. t.jobs # <<>>
    BY <1>1, <1>4, IntactShapes
  <2>2. JobIn(J)
    BY <1>1, <1>4, <2>1, FirstInside
  <2>3. PICK a \in Nat : a = J.cur
    BY <2>2 DEF JobIn
  <2>4. PICK l \in Nat : l = J.left
    BY <2>2 DEF JobIn
  <2>5. n \in 0..l
    BY <1>2, <2>3, <2>4, BlockWithin, PageWithin
  <2>6. JobFields \subseteq DOMAIN J
    BY <2>2 DEF JobIn
  <2>7. /\ JobFields \subseteq DOMAIN j /\ j.addr = J.addr /\ j.remain = J.remain
        /\ j.cur = a + n /\ j.left = l - n
    BY <1>3, <2>3, <2>4, <2>6 DEF JobFields
  <2>8. JobIn(j)
    BY <2>2, <2>3, <2>4, <2>5, <2>7 DEF JobIn
  <2> QED BY <2>1, <2>2, <2>3, <2>4, <2>5, <2>7, <2>8
<1>5. CASE chip[J.c].err
  BY <1>1, <1>5, JobFailsSpares DEF Wait
<1>6. CASE ~chip[J.c].err /\ j.left > 0
  <2>1. chip' = chip /\ t' = [WithJob(j) EXCEPT !.sub = "issue"]
    BY <1>2, <1>3, <1>6 DEF Wait
  <2>2. PICK e : e = WithJob(j)
    OBVIOUS
  <2>3. ASSUME SlotThere
        PROVE  /\ ToolFields \subseteq DOMAIN t' /\ t'.pc = "job" /\ t'.then = t.then /\ t'.seg = t.seg
               /\ JobsIn(t'.jobs) /\ t'.sub = "issue"
    <3>1. /\ ToolFields \subseteq DOMAIN e /\ e.pc = "job" /\ e.then = t.then /\ e.seg = t.seg
          /\ JobsIn(e.jobs)
      BY <1>1, <1>4, <2>2, <2>3, JobSpares
    <3>2. t' = [e EXCEPT !.sub = "issue"]
      BY <2>1, <2>2
    <3> QED BY <3>1, <3>2 DEF ToolFields
  <2> QED BY <1>1, <2>1, <2>3, IntactShapes, WorkSpares
<1>7. CASE ~chip[J.c].err /\ ~(j.left > 0)
  <2>1. PICK k : k = J.c
    OBVIOUS
  <2>2. chip' = [chip EXCEPT ![k] = Deselect(chip[k])]
    BY <1>2, <1>3, <1>7, <2>1 DEF Wait
  <2>3. SlotThere => DOMAIN chip' = Chips /\ \A c \in Chips : Spared(chip'[c])
    BY <2>2, IntactShapes, SparedSteps
  <2>4. CASE J.op = "erase"
    <3>1. PICK z : z = SegOf(J)
      OBVIOUS
    <3>2. PICK i : i = [j EXCEPT !.addr = j.cur, !.remain = @ - z]
      OBVIOUS
    <3>3. PICK e : e = WithJob(i)
      OBVIOUS
    <3>4. t' = [e EXCEPT !.sub = "issue"]
      BY <1>2, <1>3, <1>7, <2>4, <3>1, <3>2, <3>3 DEF Wait
    <3>5. ASSUME SlotThere PROVE JobIn(i)
      <4>1. JobFields \subseteq DOMAIN j /\ JobIn(j) /\ JobIn(J)
        BY <1>4, <3>5 DEF JobIn
      <4>2. /\ JobFields \subseteq DOMAIN i /\ i.addr = j.cur /\ i.remain = j.remain - z
            /\ i.cur = j.cur /\ i.left = j.left
        BY <3>2, <4>1 DEF JobFields
      <4>3. j.left = 0 /\ J.left = n
        BY <1>4, <1>7, <3>5, <4>1 DEF JobIn
      <4>4. z = (J.cur - J.addr) + J.left
        BY <3>1 DEF SegOf
      <4>5. /\ i.addr = J.cur + n /\ i.remain = J.remain - ((J.cur - J.addr) + n)
            /\ i.cur = i.addr /\ i.left = 0
        BY <1>4, <3>5, <4>2, <4>3, <4>4
      <4>6. i.addr \in Nat /\ i.remain \in Nat /\ Lo <= i.addr /\ i.addr + i.remain <= Hi
        <5>1. Lo \in Nat /\ Hi \in Nat
          BY <3>5, GoalWithin
        <5>2. PICK a \in Nat, r \in Nat, c \in Nat, l \in Nat :
                a = J.addr /\ r = J.remain /\ c = J.cur /\ l = J.left
          BY <4>1 DEF JobIn
        <5>3. Lo <= a /\ a + r <= Hi /\ a <= c /\ c + l <= a + r
          BY <4>1, <5>2 DEF JobIn
        <5>4. i.addr = c + l /\ i.remain = r - ((c - a) + l)
          BY <4>3, <4>5, <5>2
        <5> QED BY <5>1, <5>3, <5>4
      <4> QED BY <4>2, <4>5, <4>6 DEF JobIn
    <3>6. ASSUME SlotThere
          PROVE  /\ ToolFields \subseteq DOMAIN t' /\ t'.pc = "job" /\ t'.then = t.then /\ t'.seg = t.seg
                 /\ JobsIn(t'.jobs) /\ t'.sub = "issue"
      <4>1. /\ ToolFields \subseteq DOMAIN e /\ e.pc = "job" /\ e.then = t.then /\ e.seg = t.seg
            /\ JobsIn(e.jobs)
        BY <1>1, <1>4, <3>3, <3>5, <3>6, JobSpares
      <4> QED BY <3>4, <4>1 DEF ToolFields
    <3> QED BY <1>1, <2>3, <3>6, WorkSpares
  <2>5. CASE J.op # "erase"
    <3>1. PICK e : e = WithJob(j)
      OBVIOUS
    <3>2. t' = [e EXCEPT !.sub = "verify", !.tries = 3]
      BY <1>2, <1>3, <1>7, <2>5, <3>1 DEF Wait
    <3>3. ASSUME SlotThere
          PROVE  /\ ToolFields \subseteq DOMAIN t' /\ t'.pc = "job" /\ t'.then = t.then /\ t'.seg = t.seg
                 /\ JobsIn(t'.jobs) /\ t'.jobs # <<>> /\ t'.jobs[1].left = 0
      <4>1. /\ ToolFields \subseteq DOMAIN e /\ e.pc = "job" /\ e.then = t.then /\ e.seg = t.seg
            /\ JobsIn(e.jobs) /\ e.jobs # <<>> /\ e.jobs[1] = j
        BY <1>1, <1>4, <3>1, <3>3, JobSpares
      <4>2. j.left = 0
        BY <1>4, <1>7, <3>3 DEF JobIn
      <4>3. /\ ToolFields \subseteq DOMAIN t' /\ t'.pc = "job" /\ t'.then = t.then /\ t'.seg = t.seg
            /\ t'.jobs = e.jobs
        BY <3>2, <4>1 DEF ToolFields
      <4> QED BY <4>1, <4>2, <4>3
    <3> QED BY <1>1, <2>3, <3>3, WorkSpares
  <2> QED BY <2>4, <2>5
<1> QED BY <1>5, <1>6, <1>7

\* What was written is read back.
LEMMA VerifySpares ==
  ASSUME IntactInv, Aligned, NEW flaky, Verify(flaky)
  PROVE  IntactInv'
<1>1. UNCHANGED <<set, opt, file>> /\ t.pc = "job" /\ t.sub = "verify"
  BY DEF Verify
<1>2. CASE JobFails
  BY <1>1, <1>2, JobFailsSpares
<1>3. CASE chip' = chip /\ t' = [t EXCEPT !.tries = @ - 1]
  <2>1. SlotThere => /\ ToolFields \subseteq DOMAIN t' /\ t'.pc = "job" /\ t'.then = t.then /\ t'.seg = t.seg
                     /\ t'.jobs = t.jobs /\ t'.sub = "verify"
    BY <1>1, <1>3, IntactShapes DEF ToolFields
  <2> QED BY <1>1, <1>3, <2>1, IntactShapes, WorkSpares
<1>4. CASE /\ chip' = chip
           /\ t' = [WithJob([J EXCEPT !.addr = J.cur, !.remain = @ - SegOf(J)]) EXCEPT !.sub = "issue"]
  <2>1. PICK z : z = SegOf(J)
    OBVIOUS
  <2>2. PICK i : i = [J EXCEPT !.addr = J.cur, !.remain = @ - z]
    OBVIOUS
  <2>3. PICK e : e = WithJob(i)
    OBVIOUS
  <2>4. t' = [e EXCEPT !.sub = "issue"]
    BY <1>4, <2>1, <2>2, <2>3
  <2>5. ASSUME SlotThere
        PROVE  /\ ToolFields \subseteq DOMAIN t' /\ t'.pc = "job" /\ t'.then = t.then /\ t'.seg = t.seg
               /\ JobsIn(t'.jobs) /\ t'.sub = "issue"
    <3>1. t.jobs # <<>> /\ t.jobs[1].left = 0
      BY <1>1, <2>5, IntactShapes
    <3>2. JobIn(J) /\ JobFields \subseteq DOMAIN J /\ J.left = 0
      BY <1>1, <2>5, <3>1, FirstInside DEF JobIn, J
    <3>3. /\ JobFields \subseteq DOMAIN i /\ i.addr = J.cur /\ i.remain = J.remain - z
          /\ i.cur = J.cur /\ i.left = 0
      BY <2>2, <3>2 DEF JobFields
    <3>4. z = (J.cur - J.addr) + J.left
      BY <2>1 DEF SegOf
    <3>5. JobIn(i)
      <4>1. Lo \in Nat /\ Hi \in Nat
        BY <2>5, GoalWithin
      <4>2. PICK a \in Nat, r \in Nat, c \in Nat : a = J.addr /\ r = J.remain /\ c = J.cur
        BY <3>2 DEF JobIn
      <4>3. Lo <= a /\ a + r <= Hi /\ a <= c /\ c + 0 <= a + r
        BY <3>2, <4>2 DEF JobIn
      <4>4. i.addr = c /\ i.remain = r - (c - a) /\ i.cur = c /\ i.left = 0
        BY <3>2, <3>3, <3>4, <4>2
      <4>5. i.remain \in Nat /\ Lo <= c /\ c + i.remain <= Hi
        BY <4>1, <4>3, <4>4
      <4> QED BY <3>3, <4>4, <4>5 DEF JobIn
    <3>6. /\ ToolFields \subseteq DOMAIN e /\ e.pc = "job" /\ e.then = t.then /\ e.seg = t.seg
          /\ JobsIn(e.jobs)
      BY <1>1, <2>3, <2>5, <3>1, <3>5, JobSpares
    <3> QED BY <2>4, <3>6 DEF ToolFields
  <2> QED BY <1>1, <1>4, <2>5, IntactShapes, WorkSpares
<1> QED BY <1>2, <1>3, <1>4 DEF Verify

\* A chip finishes what it was told.
LEMMA ChipDoneSpares ==
  ASSUME IntactInv, NEW k \in Chips, ChipDone(k)
  PROVE  IntactInv'
<1>1. UNCHANGED <<set, opt, file, t>> /\ chip' = [chip EXCEPT ![k] = [chip[k] EXCEPT !.busy = FALSE]]
  BY DEF ChipDone
<1>2. ASSUME SlotThere PROVE IntactAt(t', chip')
  <2>1. PICK d : d = [chip[k] EXCEPT !.busy = FALSE] /\ Spared(d)
    BY <1>2, IntactShapes, SparedSteps, Zenon
  <2>2. DOMAIN chip' = Chips /\ \A c \in Chips : Spared(chip'[c])
    BY <1>1, <1>2, <2>1, IntactShapes
  <2> QED BY <1>1, <1>2, <2>2, IntactShapes DEF IntactAt
<1> QED BY <1>1, <1>2, IntactMoves

\* A kill leaves the cells as they are.
LEMMA KillSpares ==
  ASSUME IntactInv, Kill
  PROVE  IntactInv'
<1>1. UNCHANGED <<set, opt, file>> /\ t' = FwStart
  BY DEF Kill
<1>2. ASSUME SlotThere PROVE IntactAt(t', chip')
  <2>1. t'.pc = "open" /\ t'.sub = "issue" /\ ToolFields \subseteq DOMAIN t'
    BY <1>1 DEF FwStart, ToolFields
  <2>2. chip' = [c \in Chips |-> [chip[c] EXCEPT !.busy = FALSE,
                   !.mode = IF set.ops = "amd" /\ t.sub = "wait" THEN "abort" ELSE @]]
    BY DEF Kill
  <2>3. ASSUME NEW c \in Chips PROVE Spared(chip'[c])
    <3>1. Spared(chip[c]) /\ "mem" \in DOMAIN chip[c]
      BY <1>2, <2>3, IntactShapes DEF Spared
    <3>2. chip'[c] = [chip[c] EXCEPT !.busy = FALSE,
                        !.mode = IF set.ops = "amd" /\ t.sub = "wait" THEN "abort" ELSE @]
      BY <2>2
    <3>3. DOMAIN chip'[c] = DOMAIN chip[c] /\ chip'[c].mem = chip[c].mem
      BY <3>1, <3>2
    <3> QED BY <3>1, <3>3, SparedStays
  <2>4. DOMAIN chip' = Chips
    BY <2>2
  <2> QED BY <2>1, <2>3, <2>4 DEF IntactAt
<1> QED BY <1>1, <1>2, IntactMoves

\* Reading, resetting and reloading do not write to flash.
LEMMA RestSpares ==
  ASSUME IntactInv,
         \/ Written \/ ReadSegment \/ SkipFlash \/ Disconnect
         \/ \E b \in BOOLEAN : Prepare(b) \/ Boot(b) \/ Iprog(b) \/ Remove(b) \/ Rescan(b)
  PROVE  IntactInv'
<1>1. CASE Written
  BY <1>1, QuitSpares DEF Written
<1>2. CASE ReadSegment
  BY <1>2, QuitSpares DEF ReadSegment
<1>3. CASE SkipFlash
  BY <1>3, QuitSpares DEF SkipFlash
<1>4. ASSUME NEW b \in BOOLEAN, Prepare(b) PROVE IntactInv'
  BY <1>4, QuitSpares DEF Prepare
<1>5. ASSUME NEW b \in BOOLEAN, Boot(b) PROVE IntactInv'
  BY <1>5, QuitSpares DEF Boot
<1>6. ASSUME NEW b \in BOOLEAN, Remove(b) PROVE IntactInv'
  BY <1>6, QuitSpares DEF Remove
<1>7. ASSUME NEW b \in BOOLEAN, Rescan(b) PROVE IntactInv'
  BY <1>7, QuitSpares DEF Rescan, Goto
<1>8. ASSUME NEW b \in BOOLEAN, Iprog(b) PROVE IntactInv'
  BY <1>8, QuitSpares DEF Iprog
<1>9. CASE Disconnect
  BY <1>9, QuitSpares DEF Disconnect
<1> QED BY <1>1, <1>2, <1>3, <1>4, <1>5, <1>6, <1>7, <1>8, <1>9

\* Every step leaves the other segments alone.
LEMMA IntactStep ==
  ASSUME Aligned, IntactInv, [FlashNext]_flashVars
  PROVE  IntactInv'
<1>1. CASE Kill
  BY <1>1, KillSpares
<1>2. CASE FpgaUp \/ UNCHANGED flashVars
  <2>1. UNCHANGED <<set, opt, file, t, chip>>
    BY <1>2 DEF FpgaUp, flashVars
  <2>2. SlotThere => IntactAt(t', chip')
    BY <2>1 DEF IntactInv
  <2> QED BY <2>1, <2>2, IntactMoves
<1>3. CASE \E c \in Chips : ChipDone(c)
  BY <1>3, ChipDoneSpares
<1>4. CASE FwTool
  <2>1. CASE SkipStage \/ NextSeg \/ NextStage \/ Wait
    BY <2>1, SkipStageSpares, NextSegSpares, NextStageSpares, WaitSpares
  <2>2. CASE NotEnabled
    BY <2>2, JobFailsSpares DEF NotEnabled
  <2>3. ASSUME NEW b \in BOOLEAN,
               Open(b) \/ Erase(b) \/ Write(b) \/ IssueErase(b) \/ IssueProgram(b) \/ Verify(b)
        PROVE  IntactInv'
    BY <2>3, OpenSpares, EraseIsInside, WriteIsInside, IssueEraseSpares, IssueProgramSpares,
       VerifySpares
  <2>4. CASE \/ Written \/ ReadSegment \/ SkipFlash \/ Disconnect
             \/ \E b \in BOOLEAN : Prepare(b) \/ Boot(b) \/ Iprog(b) \/ Remove(b) \/ Rescan(b)
    BY <2>4, RestSpares
  <2> QED BY <1>4, <2>1, <2>2, <2>3, <2>4 DEF FwTool
<1> QED BY <1>1, <1>2, <1>3, <1>4 DEF FlashNext

\* For every build, flash geometry, image, number of failures and of kills: what
\* mqnic-fw.c erases and programs, rounded up to whole erase blocks, halved for
\* two chips and cut into steps, blocks and pages, lies in the segment of the slot
\* it was asked for.
THEOREM OthersSurvive ==
  ASSUME Aligned
  PROVE  FlashSpec => []OthersIntact
<1>1. ASSUME IntactInv, [FlashNext]_flashVars
      PROVE  IntactInv'
  BY <1>1, IntactStep
<1> QED BY <1>1, IntactStarts, IntactEnough, PTL DEF FlashSpec

---------------------------------------------------------------------------
(* What a successful run has written.                                      *)

\* Two chips take whole pairs of bytes and leave the end of the segment alone;
\* a parallel flash takes words.
Loadable ==
  \A u \in Setups : \A k \in Nat : k < Len(Segments(u)) =>
    LET g == Segments(u)[k + 1] IN
    /\ u.kind = "dual" => \A n \in Lens : n <= MaxDualLen /\ n <= g.len =>
                             n + OFFSET <= g.len /\ (n - OFFSET) % 2 = 0
    /\ u.kind = "bpi" => g.start % 2 = 0 /\ BLOCK1 % 2 = 0

\* A write was asked for, to a slot there is.
Doable == opt.write /\ Segments(set) # <<>> /\ Slot < Len(Segments(set))

\* The image as each chip is to hold it, and how much of each chip it takes.
Want(c) ==
  IF set.kind = "dual" THEN IF c = 1 THEN PriBuf(Goal.len) ELSE SecBuf(Goal.len)
  ELSE Bitswap(Image(Goal.len))
Extent ==
  IF set.kind = "dual"
  THEN RoundUp(Goal.start \div 2, Least((file.len - OFFSET) \div 2 + OFFSET, Goal.len \div 2))
  ELSE RoundUp(Goal.start, file.len)
Usable ==
  /\ file.len <= Goal.len /\ file.len \in Lens
  /\ set.kind = "dual" => file.len <= MaxDualLen
Holds(c, ch, to) == \A a \in Lo..to-1 : ch[c].mem[a] = Want(c)[a - Lo]
There(ch) == \A c \in Chips : Holds(c, ch, Lo + Extent)

\* Chips that can be read.
Awake(ch) == \A c \in Chips : ch[c].mode \in {"array", "status"}

\* The jobs of a write, counted from the last: the chips are erased, then
\* written, one after the other.  What was written and read back is there.
N == IF set.kind = "dual" THEN 2 ELSE 1
Planned(j, d) ==
  /\ j.c = IF d < N THEN N - d ELSE 2*N - d
  /\ j.op = IF d < N THEN "write" ELSE "erase"
  /\ j.base = Lo /\ j.addr + j.remain = Lo + Extent
Plan(s) ==
  /\ Len(s) <= 2*N
  /\ \A i \in 1..Len(s) : /\ Planned(s[i], Len(s) - i)
                          /\ i > 1 => s[i].addr = Lo /\ s[i].left = 0
Verified(s, ch) ==
  \A c \in Chips : /\ Len(s) <= N - c => Holds(c, ch, Lo + Extent)
                   /\ Len(s) = N - c + 1 => Holds(c, ch, s[1].addr)

Modes == {"array", "sync", "abort", "status"}
OnFlash == {"open", "erase", "write", "job", "written"}
ProgAt(u, ch, g) ==
  /\ \A c \in Chips : ch[c].mode \in Modes
  /\ u.pc \in OnFlash => u.done = FALSE
  /\ u.pc \in OnFlash \cup {"read"} => g = <<>>
  /\ u.pc \in {"erase", "write", "job", "written", "read"} => u.seg = Goal /\ Awake(ch)
  /\ u.pc = "job" /\ u.then = "written" => Usable /\ Plan(u.jobs) /\ Verified(u.jobs, ch)
  /\ u.pc = "written" => Usable /\ There(ch)
  /\ u.done => /\ Usable /\ u.seg = Goal /\ There(ch) /\ Awake(ch)
               /\ \A c \in Chips : ch[c].busy = FALSE
               /\ g # <<>> => \A k \in 0..file.len-1 : g[1][k] = FileByte(k)
ProgIdle(u) ==
  /\ u.done = FALSE /\ u.then # "written" /\ u.pc # "written"
  /\ opt.write => u.pc \notin {"erase", "write", "job"}
ProgInv ==
  /\ IntactInv /\ (opt.write => FlashInv) /\ {"pc", "then", "done"} \subseteq DOMAIN t
  /\ file.sync => file.len \in Lens /\ (set.kind = "dual" => file.len <= MaxDualLen)
  /\ IF Doable THEN ProgAt(t, chip, got) ELSE ProgIdle(t)

\* Nothing changes the build, the options or the file.
LEMMA ProgMoves ==
  ASSUME ProgInv, UNCHANGED <<set, opt, file>>, IntactInv', opt.write => FlashInv',
         {"pc", "then", "done"} \subseteq DOMAIN t',
         Doable => ProgAt(t', chip', got'), ~Doable => ProgIdle(t')
  PROVE  ProgInv'
<1>1. Chips' = Chips /\ Slot' = Slot /\ Goal' = Goal /\ N' = N
  BY DEF Chips, Slot, Goal, N
<1>2. Lo' = Lo /\ Doable' = Doable
  BY <1>1 DEF Lo, Half, Doable
<1>3. Extent' = Extent /\ Usable' = Usable
  BY <1>1 DEF Extent, RoundUp, erase_block_size, Usable
<1>4. \A c : Want(c)' = Want(c)
  <2>1. Bitswap(Image(Goal.len))' = Bitswap(Image(Goal.len))
    BY <1>1 DEF Bitswap, Image
  <2>2. PriBuf(Goal.len)' = PriBuf(Goal.len) /\ SecBuf(Goal.len)' = SecBuf(Goal.len)
    BY <1>1 DEF PriBuf, SecBuf, Image
  <2> QED BY <2>1, <2>2 DEF Want
<1>5. \A c, ch, to : Holds(c, ch, to)' <=> Holds(c, ch, to)
  BY <1>2, <1>4 DEF Holds
<1>6. \A ch : (There(ch)' <=> There(ch)) /\ (Awake(ch)' <=> Awake(ch))
  BY <1>1, <1>2, <1>3, <1>5 DEF There, Awake
<1>7. \A s : Plan(s)' <=> Plan(s)
  <2>1. \A j, d : Planned(j, d)' <=> Planned(j, d)
    BY <1>1, <1>2, <1>3 DEF Planned
  <2> QED BY <1>1, <1>2, <2>1 DEF Plan
<1>8. \A s, ch : Verified(s, ch)' <=> Verified(s, ch)
  BY <1>1, <1>2, <1>3, <1>5 DEF Verified
<1>9. \A u, ch, g : ProgAt(u, ch, g)' <=> ProgAt(u, ch, g)
  BY <1>1, <1>3, <1>6, <1>7, <1>8 DEF ProgAt
<1>10. \A u : ProgIdle(u)' <=> ProgIdle(u)
  BY DEF ProgIdle
<1> QED BY <1>2, <1>9, <1>10 DEF ProgInv

\* What holds wherever the tool is, when it can write.
LEMMA ProgShapes ==
  ASSUME ProgInv, Doable
  PROVE  /\ ProgAt(t, chip, got) /\ IntactInv /\ SlotThere /\ FlashInv /\ set \in Setups /\ opt.write
         /\ {"pc", "then", "done", "jobs", "sub", "seg"} \subseteq DOMAIN t
         /\ DOMAIN chip = Chips /\ \A c \in Chips : IsChip(chip[c]) /\ Spared(chip[c])
         /\ \A c \in Chips : chip[c].mode \in Modes
<1>1. IntactInv /\ SlotThere /\ FlashInv /\ opt.write /\ ProgAt(t, chip, got)
  BY DEF ProgInv, Doable, SlotThere
<1>2. {"pc", "then", "done", "jobs", "sub", "seg"} \subseteq DOMAIN t
  BY <1>1, IntactShapes DEF ProgInv, ToolFields
<1> QED BY <1>1, <1>2, IntactShapes, FlashShapes DEF ProgAt

\* The slot is the one the hypotheses speak of.
LEMMA GoalLoadable ==
  ASSUME ProgInv, Doable, Loadable, Usable
  PROVE  /\ set.kind = "dual" => file.len + OFFSET <= Goal.len /\ (file.len - OFFSET) % 2 = 0
         /\ set.kind = "bpi" => Goal.start % 2 = 0 /\ BLOCK1 % 2 = 0
<1>1. set \in Setups /\ Slot \in Nat
  BY FlashAssumption, ProgShapes DEF IntactInv, Slot
<1>2. PICK k \in Nat : k = Slot
  BY <1>1
<1>3. k < Len(Segments(set)) /\ Goal = Segments(set)[k + 1]
  BY <1>2 DEF Doable, Goal
<1>4. LET g == Segments(set)[k + 1] IN
      /\ set.kind = "dual" => \A n \in Lens : n <= MaxDualLen /\ n <= g.len =>
                                n + OFFSET <= g.len /\ (n - OFFSET) % 2 = 0
      /\ set.kind = "bpi" => g.start % 2 = 0 /\ BLOCK1 % 2 = 0
  BY <1>1, <1>3, Zenon DEF Loadable
<1> QED BY <1>3, <1>4, Zenon DEF Usable

\* A length that is rounded up is not shorter, and ends with a block.
LEMMA RoundsUp ==
  ASSUME NEW a \in Nat, NEW n \in Nat, NEW b \in Nat \ {0}, b = erase_block_size
  PROVE  RoundUp(a, n) \in Nat /\ n <= RoundUp(a, n) /\ (a + RoundUp(a, n)) % b = 0
<1>1. PICK x \in Nat : x = a + n
  OBVIOUS
<1>2. PICK r \in 0..b-1 : r = x % b
  OBVIOUS
<1>3. RoundUp(a, n) = IF r = 0 THEN n ELSE n + b - r
  BY <1>1, <1>2 DEF RoundUp
<1>4. CASE r = 0
  BY <1>1, <1>2, <1>3, <1>4
<1>5. CASE r # 0
  <2>1. PICK q \in Nat : q = x \div b
    OBVIOUS
  <2>2. x = b * q + r
    BY <1>2, <2>1
  <2>3. x + (b - r) = b * (q + 1)
    BY <2>2
  <2>4. PICK y \in Nat : y = q + 1
    OBVIOUS
  <2>5. (b * y) % b = 0
    OBVIOUS
  <2>6. a + RoundUp(a, n) = b * y
    BY <1>1, <1>3, <1>5, <2>3, <2>4
  <2> QED BY <1>2, <1>3, <1>5, <2>5, <2>6
<1> QED BY <1>4, <1>5

\* The image, rounded up to whole blocks, is within the segment.
LEMMA ExtentWithin ==
  ASSUME ProgInv, Doable, Aligned, Usable
  PROVE  /\ Extent \in Nat /\ Extent <= Half(Goal.len) /\ Lo + Extent <= Hi /\ Lo \in Nat /\ Hi \in Nat
         /\ (Lo + Extent) % erase_block_size = 0
         /\ set.kind # "dual" => file.len <= Extent
         /\ set.kind = "dual" => Least((file.len - OFFSET) \div 2 + OFFSET, Goal.len \div 2) <= Extent
<1>1. IntactInv /\ SlotThere /\ file.len \in Nat /\ file.len <= Goal.len
  BY ProgShapes, IntactShapes DEF Usable
<1>2. PICK b \in Nat \ {0} : b = erase_block_size
  BY <1>1, GoalWithin
<1>3. PICK z \in Nat : z = Lo + Half(Goal.len)
  BY <1>1, GoalWithin
<1>4. z % b = 0 /\ z <= Hi
  BY <1>1, <1>2, <1>3, GoalWithin
<1>5. PICK lo \in Nat : lo = Lo
  BY <1>1, GoalWithin
<1>6. PICK n \in Nat : /\ Extent = RoundUp(lo, n) /\ lo + n <= z
                       /\ set.kind # "dual" => n = file.len
                       /\ set.kind = "dual" => n = Least((file.len - OFFSET) \div 2 + OFFSET, Goal.len \div 2)
  <2>1. CASE set.kind = "dual"
    <3>1. PICK g \in Nat : g = Goal.len
      BY <1>1, GoalWithin
    <3>2. PICK f \in Nat : f = file.len
      BY <1>1
    <3>3. OFFSET \in Nat
      BY FlashAssumption
    <3>4. PICK n : n = Least((f - OFFSET) \div 2 + OFFSET, g \div 2)
      OBVIOUS
    <3>5. n \in Nat /\ n <= g \div 2
      BY <3>3, <3>4 DEF Least
    <3>6. Extent = RoundUp(lo, n)
      BY <1>5, <2>1, <3>1, <3>2, <3>4 DEF Extent, Lo, Half
    <3>7. z = lo + (g \div 2)
      BY <1>3, <1>5, <2>1, <3>1 DEF Half
    <3> QED BY <2>1, <3>1, <3>2, <3>4, <3>5, <3>6, <3>7
  <2>2. CASE set.kind # "dual"
    <3>1. Extent = RoundUp(lo, file.len)
      BY <1>5, <2>2 DEF Extent, Lo, Half
    <3>2. z = lo + Goal.len
      BY <1>3, <1>5, <2>2 DEF Half
    <3> QED BY <1>1, <2>2, <3>1, <3>2, GoalWithin
  <2> QED BY <2>1, <2>2
<1>7. RoundUp(lo, n) \in Nat /\ lo + RoundUp(lo, n) <= z
  BY <1>2, <1>4, <1>6, RoundWithin
<1>8. n <= RoundUp(lo, n) /\ (lo + RoundUp(lo, n)) % b = 0
  BY <1>2, <1>6, RoundsUp
<1>9. Half(Goal.len) \in Nat /\ Hi \in Nat
  BY <1>1, GoalWithin
<1> QED BY <1>2, <1>3, <1>4, <1>5, <1>6, <1>7, <1>8, <1>9


\* A write that begins is of what is wanted.
LEMMA GoalIsWritten ==
  ASSUME t.seg = Goal
  PROVE  WriteLen = Extent /\ \A c : Buffer(c) = Want(c)
  BY DEF WriteLen, Extent, Buffer, Want

\* What each chip is to hold is a byte at every place of the segment.
LEMMA WantBytes ==
  ASSUME ProgInv, Doable, Aligned, Loadable, Usable, NEW c, NEW i \in 0..Half(Goal.len)-1
  PROVE  \E p, q : Want(c)[i] = <<p, q>>
<1>1. PICK g \in Nat : g = Goal.len
  BY ProgShapes, GoalWithin
<1>2. file.len \in Nat /\ OFFSET \in Nat
  BY ProgShapes, IntactShapes, FlashAssumption
<1>3. PICK s : s = Image(g) /\ \A k \in 0..g-1 : \E p, q : s[k] = <<p, q>>
  <2>1. PICK s : s = Image(g)
    OBVIOUS
  <2>2. ASSUME NEW k \in 0..g-1 PROVE \E p, q : s[k] = <<p, q>>
    <3>1. s[k] = FileByte(k) \/ s[k] = Erased
      BY <2>1 DEF Image
    <3> QED BY <3>1, Zenon DEF FileByte, Erased
  <2> QED BY <2>1, <2>2
<1>4. CASE set.kind = "dual"
  <2>1. i \in 0..(g \div 2)-1
    BY <1>1, <1>4 DEF Half
  <2>2. PICK x, y : /\ PriBuf(g)[i] = IF i < OFFSET THEN s[i] ELSE IF x THEN y ELSE Erased
                    /\ \E p, q : y = <<p, q>>
    BY <1>3, <2>1 DEF PriBuf
  <2>3. PICK x2, y2 : /\ SecBuf(g)[i] = IF i < OFFSET THEN Erased ELSE IF x2 THEN y2 ELSE Erased
                      /\ \E p, q : y2 = <<p, q>>
    BY <1>3, <2>1 DEF SecBuf
  <2>4. i \in 0..g-1
    BY <2>1
  <2>5. \E p, q : Erased = <<p, q>>
    BY DEF Erased
  <2>6. \E p, q : s[i] = <<p, q>>
    BY <1>3, <2>4
  <2>7. \E p, q : PriBuf(g)[i] = <<p, q>>
    <3>1. PriBuf(g)[i] \in {s[i], y, Erased}
      BY <2>2
    <3> QED BY <2>2, <2>5, <2>6, <3>1
  <2>8. \E p, q : SecBuf(g)[i] = <<p, q>>
    <3>1. SecBuf(g)[i] \in {y2, Erased}
      BY <2>3
    <3> QED BY <2>3, <2>5, <3>1
  <2> QED BY <1>1, <1>4, <2>7, <2>8 DEF Want
<1>5. CASE set.kind # "dual"
  <2>1. i \in 0..g-1 /\ DOMAIN s = 0..g-1
    BY <1>1, <1>3, <1>5 DEF Half, Image
  <2>2. \A w : \E p, q : reverse_bits_8(w) = <<p, q>>
    BY Zenon DEF reverse_bits_8
  <2>3. Reversed(s)[i] = reverse_bits_8(s[IF i % 2 = 0 THEN i + 1 ELSE i - 1])
    BY <2>1 DEF Reversed
  <2>4. Want(c) = IF set.kind = "bpi" THEN Reversed(s) ELSE s
    BY <1>1, <1>3, <1>5 DEF Want, Bitswap
  <2>5. CASE set.kind = "bpi"
    <3>1. PICK w : w = s[IF i % 2 = 0 THEN i + 1 ELSE i - 1]
      OBVIOUS
    <3>2. Want(c)[i] = reverse_bits_8(w)
      BY <2>3, <2>4, <2>5, <3>1
    <3> QED BY <2>2, <3>2, Zenon
  <2>6. CASE set.kind # "bpi"
    BY <1>3, <2>1, <2>4, <2>6
  <2> QED BY <2>5, <2>6
<1> QED BY <1>4, <1>5

\* What a command may do to a chip besides erasing.
LEMMA EraseEffect ==
  ASSUME set \in Setups, NEW ch, IsChip(ch), NEW a, NEW n, NEW ok
  PROVE  SectorErase(ch, a, n, ok).mode \in {ch.mode, "status"}
<1>1. /\ set.kind = "bpi" => set.ops \in {"intel", "amd", "micron"}
      /\ set.kind # "bpi" => set.ops = "none"
  BY FlashAssumption
<1>2. "mode" \in DOMAIN ch
  BY DEF IsChip
<1>3. /\ ErasedAt(ch, a, n).mode = ch.mode /\ Unlock(ch, a).mode = ch.mode
      /\ "mode" \in DOMAIN Unlock(ch, a)
  BY <1>2 DEF ErasedAt, Unlock
<1>4. ErasedAt(Unlock(ch, a), a, n).mode = ch.mode
  BY <1>3 DEF ErasedAt
<1>5. \A d : "mode" \in DOMAIN d => /\ Status(d, ok).mode = d.mode
                                    /\ "mode" \in DOMAIN Status(d, ok)
  BY DEF Status
<1>6. "mode" \in DOMAIN ErasedAt(ch, a, n) /\ "mode" \in DOMAIN ErasedAt(Unlock(ch, a), a, n)
  BY <1>2, <1>3 DEF ErasedAt
<1>7. CASE set.kind # "bpi"
  BY <1>1, <1>3, <1>7 DEF SectorErase, spi_flash_erase
<1>8. CASE set.kind = "bpi" /\ set.ops = "intel"
  <2>1. PICK y : SectorErase(ch, a, n, ok) = [y EXCEPT !.mode = "status"] /\ "mode" \in DOMAIN y
    BY <1>3, <1>5, <1>6, <1>8 DEF SectorErase, bpi_flash_intel_sector_erase
  <2> QED BY <2>1
<1>9. CASE set.kind = "bpi" /\ set.ops = "amd"
  <2>1. PICK x : x = (IF ok THEN ErasedAt(ch, a, n) ELSE ch) /\ SectorErase(ch, a, n, ok) = Status(x, ok)
    BY <1>9 DEF SectorErase, bpi_flash_amd_sector_erase
  <2> QED BY <1>2, <1>3, <1>5, <1>6, <2>1
<1>10. CASE set.kind = "bpi" /\ set.ops = "micron"
  <2>1. PICK x : /\ x = (IF ok THEN ErasedAt(Unlock(ch, a), a, n) ELSE Unlock(ch, a))
                 /\ SectorErase(ch, a, n, ok) = Status(x, ok)
    BY <1>10 DEF SectorErase, bpi_flash_micron_sector_erase
  <2> QED BY <1>3, <1>4, <1>5, <1>6, <2>1
<1> QED BY <1>1, <1>7, <1>8, <1>9, <1>10

\* What a program command may do to a chip.
LEMMA ProgramEffect ==
  ASSUME set \in Setups, NEW ch, IsChip(ch), "mem" \in DOMAIN ch, NEW a, NEW n, NEW buf, NEW base, NEW ok
  PROVE  LET d == Program(ch, a, n, buf, base, ok) IN
         /\ d.mode \in {ch.mode, "status"}
         /\ d.mem \in {ch.mem, ProgramAt(ch, a, n, buf, base).mem}
<1>1. /\ set.kind = "bpi" => set.ops \in {"intel", "amd", "micron"}
      /\ set.kind # "bpi" => set.ops = "none"
  BY FlashAssumption
<1>2. PICK e : e = ProgramAt(ch, a, n, buf, base)
  OBVIOUS
<1>3. e.mode = ch.mode /\ DOMAIN e = DOMAIN ch /\ {"mode", "mem"} \subseteq DOMAIN ch
  <2>1. PICK m : e = [ch EXCEPT !.mem = m]
    BY <1>2 DEF ProgramAt
  <2> QED BY <2>1 DEF IsChip
<1>4. \A d, ok2 : {"mode", "mem"} \subseteq DOMAIN d =>
        /\ Status(d, ok2).mode = d.mode /\ Status(d, ok2).mem = d.mem
        /\ DOMAIN Status(d, ok2) = DOMAIN d
  BY DEF Status
<1>5. CASE set.kind # "bpi"
  BY <1>1, <1>2, <1>3, <1>5 DEF Program, spi_flash_write
<1> DEFINE can == ok /\ BlockOf(a) \notin ch.locked
<1>6. CASE set.kind = "bpi" /\ set.ops = "intel"
  <2>1. PICK x : x = (IF can THEN e ELSE ch) /\ {"mode", "mem"} \subseteq DOMAIN x
    BY <1>3
  <2>2. PICK y : y = Status(x, can) /\ y.mem = x.mem /\ DOMAIN y = DOMAIN x
    BY <1>4, <2>1
  <2>3. PICK d : d = Program(ch, a, n, buf, base, ok)
    OBVIOUS
  <2>4. d = [y EXCEPT !.mode = "status"]
    BY <1>2, <1>6, <2>1, <2>2, <2>3 DEF Program, bpi_flash_intel_buffered_program
  <2>5. d.mode = "status" /\ d.mem = x.mem
    BY <2>1, <2>2, <2>4
  <2> QED BY <1>2, <2>1, <2>3, <2>5
<1>7. CASE set.kind = "bpi" /\ set.ops \in {"amd", "micron"}
  <2>1. PICK x, o : x \in {e, ch} /\ Program(ch, a, n, buf, base, ok) = Status(x, o)
    BY <1>2, <1>7 DEF Program, bpi_flash_amd_buffered_program, bpi_flash_micron_buffered_program
  <2>2. PICK d : d = Program(ch, a, n, buf, base, ok)
    OBVIOUS
  <2>3. d.mode = x.mode /\ d.mem = x.mem
    BY <1>3, <1>4, <2>1, <2>2
  <2> QED BY <1>2, <1>3, <2>1, <2>2, <2>3
<1> QED BY <1>1, <1>5, <1>6, <1>7

\* A program command leaves the bytes before it alone.
LEMMA ProgramBelow ==
  ASSUME NEW ch, "mem" \in DOMAIN ch, NEW x \in DOMAIN ch.mem, NEW a \in Nat, NEW n \in Nat,
         x \in Int, x < a, NEW v, NEW w, ch.mem[x] = <<v, w>>, NEW buf, NEW base,
         NEW p \in Nat \ {0}, p = IF set.kind = "bpi" THEN WBUF ELSE PAGE, n <= p - (a % p)
  PROVE  ProgramAt(ch, a, n, buf, base).mem[x] = ch.mem[x]
<1> DEFINE f(y) == {i \in 0..n-1 : (a - (a % p)) + ((a + i) % p) = y}
           l(y) == UNION {buf[a - base + i][1] : i \in f(y)}
           h(y) == UNION {buf[a - base + i][2] : i \in f(y)}
<1>1. PICK m : m = [y \in DOMAIN ch.mem |-> <<ch.mem[y][1] \union l(y), ch.mem[y][2] \union h(y)>>]
  OBVIOUS
<1>2. PICK d : d = [ch EXCEPT !.mem = m]
  OBVIOUS
<1>3. ProgramAt(ch, a, n, buf, base) = d
  BY <1>1, <1>2 DEF ProgramAt
<1>4. d.mem = m
  BY <1>2
<1>5. ASSUME NEW i \in 0..n-1 PROVE (a - (a % p)) + ((a + i) % p) # x
  <2>1. i \in Nat /\ i < p - (a % p)
    BY <1>5
  <2>2. (a - (a % p)) + ((a + i) % p) = a + i
    BY <2>1, NoWrap
  <2> QED BY <2>1, <2>2
<1>6. f(x) = {}
  BY <1>5
<1>7. l(x) = {} /\ h(x) = {}
  BY <1>6, Zenon
<1>8. m[x] = <<ch.mem[x][1] \union l(x), ch.mem[x][2] \union h(x)>>
  BY <1>1
<1> HIDE DEF l, h, f
<1>9. ch.mem[x][1] = v /\ ch.mem[x][2] = w
  OBVIOUS
<1>10. v \union {} = v /\ w \union {} = w
  OBVIOUS
<1> QED BY <1>3, <1>4, <1>7, <1>8, <1>9, <1>10


\* Reversing the bits of a byte twice.
LEMMA ReversedTwice ==
  ASSUME NEW k \in Int
  PROVE  reverse_bits_8(reverse_bits_8(FileByte(k))) = FileByte(k)
<1>1. PICK a \in Int, b \in Int : a = 2*k + 1 /\ b = 2*k + 2
  OBVIOUS
<1>2. \A z \in Int : {-x : x \in {z}} = {-z}
  OBVIOUS
<1>3. -(-a) = a /\ -(-b) = b /\ -a \in Int /\ -b \in Int
  OBVIOUS
<1>4. reverse_bits_8(<<{a}, {b}>>) = <<{-b}, {-a}>>
  BY <1>2 DEF reverse_bits_8
<1>5. reverse_bits_8(<<{-b}, {-a}>>) = <<{a}, {b}>>
  BY <1>2, <1>3 DEF reverse_bits_8
<1> QED BY <1>1, <1>4, <1>5 DEF FileByte

\* The other byte of a word.
Twin(k) == IF k % 2 = 0 THEN k + 1 ELSE k - 1

\* Words do not straddle the end of an even length.
LEMMA TwinWithin ==
  ASSUME NEW e \in Nat, e % 2 = 0, NEW k \in 0..e-1
  PROVE  Twin(k) \in 0..e-1 /\ Twin(Twin(k)) = k
  BY DEF Twin

\* Words: blocks are even, and so is where the image ends.
LEMMA EvenExtent ==
  ASSUME NEW lo \in Nat, NEW e \in Nat, NEW b \in Nat \ {0}, lo % 2 = 0, b % 2 = 0, (lo + e) % b = 0
  PROVE  e % 2 = 0
<1>1. PICK u \in Nat : u = lo \div 2
  OBVIOUS
<1>2. PICK m \in Nat : m = b \div 2
  OBVIOUS
<1>3. lo = 2*u /\ b = 2*m
  BY <1>1, <1>2
<1>4. PICK q \in Nat : q = (lo + e) \div b
  OBVIOUS
<1>5. lo + e = b * q
  BY <1>4
<1>6. PICK v \in Nat : v = m * q
  OBVIOUS
<1>7. b * q = 2 * v
  BY <1>3, <1>6
<1> QED BY <1>3, <1>5, <1>7

\* The pair of bytes a byte of the interleaved part is in.
LEMMA Interleaves ==
  ASSUME NEW f \in Nat, NEW o \in Nat \ {0}, NEW g \in Nat, f + o <= g, (f - o) % 2 = 0, NEW k \in Nat,
         o <= k, k < f
  PROVE  LET i == o + (k - o) \div 2
             kk == o + 2*(i - o)
         IN /\ i \in Nat /\ o <= i /\ i < g \div 2 /\ i < (f - o) \div 2 + o
            /\ kk \in o..g-o-1 /\ (kk - o) % 2 = 0
            /\ (k - o) % 2 = 0 => kk = k
            /\ (k - o) % 2 # 0 => kk + 1 = k
<1>1. PICK d \in Nat : d = k - o
  OBVIOUS
<1>2. PICK x \in Nat : x = d \div 2
  OBVIOUS
<1>3. (d = 2*x \/ d = 2*x + 1) /\ (d % 2 = 0 => d = 2*x) /\ (d % 2 # 0 => d = 2*x + 1)
  BY <1>2
<1>4. PICK y \in Nat : y = (f - o) \div 2 /\ f - o = 2*y
  OBVIOUS
<1>5. x < y /\ o + y <= g \div 2
  BY <1>1, <1>3, <1>4
<1>6. (2*x) % 2 = 0
  OBVIOUS
<1>7. o + 2*((o + x) - o) = o + 2*x /\ (o + 2*x) - o = 2*x
  OBVIOUS
<1>8. o + 2*x \in o..g-o-1
  BY <1>1, <1>3
<1> QED BY <1>1, <1>2, <1>3, <1>4, <1>5, <1>6, <1>7, <1>8

\* What is there reads back as the image.
LEMMA ReadsBack ==
  ASSUME ProgInv, Doable, Aligned, Loadable, Usable, t.seg = Goal, There(chip), Awake(chip),
         \A c \in Chips : chip[c].busy = FALSE, NEW k \in 0..file.len-1
  PROVE  ReadBack[k] = FileByte(k)
<1>1. PICK f \in Nat, g \in Nat, o \in Nat \ {0}, lo \in Nat, e \in Nat, h \in Nat :
        /\ f = file.len /\ g = Goal.len /\ o = OFFSET /\ lo = Lo /\ e = Extent /\ h = Half(Goal.len)
        /\ f <= g /\ e <= h
  <2>1. file.len \in Nat /\ Goal.len \in Nat /\ Lo \in Nat /\ Half(Goal.len) \in Nat
    BY ProgShapes, IntactShapes, GoalWithin
  <2>2. Extent \in Nat /\ Extent <= Half(Goal.len)
    BY ExtentWithin
  <2>3. OFFSET \in Nat \ {0} /\ file.len <= Goal.len
    BY FlashAssumption DEF Usable
  <2> QED BY <2>1, <2>2, <2>3
<1>2. k \in 0..f-1 /\ k \in Nat
  BY <1>1
<1>3. ASSUME NEW c \in Chips, NEW i \in 0..e-1
      PROVE  Contents(c)[i] = Want(c)[i]
  <2>1. i \in 0..h-1 /\ i \in Nat
    BY <1>1
  <2>2. \A a : FlashRead(chip[c], a) = chip[c].mem[a]
    BY DEF FlashRead, spi_flash_read, bpi_flash_read, Awake
  <2>3. Contents(c)[i] = chip[c].mem[lo + i]
    BY <1>1, <2>1, <2>2 DEF Contents, Lo
  <2>4. lo + i \in Lo..(Lo+Extent)-1 /\ (lo + i) - Lo = i
    BY <1>1, <2>1
  <2>5. \A a \in Lo..(Lo+Extent)-1 : chip[c].mem[a] = Want(c)[a - Lo]
    BY DEF There, Holds
  <2>6. PICK a \in Lo..(Lo+Extent)-1 : a = lo + i /\ a - Lo = i
    BY <2>4
  <2>7. chip[c].mem[a] = Want(c)[a - Lo]
    BY <2>5
  <2> QED BY <2>3, <2>6, <2>7
<1>4. PICK s : s = Image(g) /\ DOMAIN s = 0..g-1 /\ \A i \in 0..f-1 : s[i] = FileByte(i)
  <2>1. PICK s : s = Image(g)
    OBVIOUS
  <2>2. DOMAIN s = 0..g-1
    BY <2>1 DEF Image
  <2>3. ASSUME NEW i \in 0..f-1 PROVE s[i] = FileByte(i)
    <3>1. i \in 0..g-1 /\ i < file.len
      BY <1>1
    <3> QED BY <2>1, <3>1 DEF Image
  <2> QED BY <2>1, <2>2, <2>3
<1>5. CASE set.kind = "spi"
  <2>1. 1 \in Chips /\ f <= e
    BY <1>1, <1>5, ExtentWithin DEF Chips
  <2>2. Want(1) = s
    BY <1>1, <1>4, <1>5 DEF Want, Bitswap
  <2>3. ReadBack = Contents(1)
    BY <1>5 DEF ReadBack, Bitswap
  <2>4. k \in 0..e-1
    BY <1>1, <1>2, <2>1
  <2> QED BY <1>2, <1>3, <1>4, <2>1, <2>2, <2>3, <2>4
<1>6. CASE set.kind = "bpi"
  <2>1. 1 \in Chips /\ f <= e
    BY <1>1, <1>6, ExtentWithin DEF Chips
  <2>2. e % 2 = 0
    <3>1. PICK b \in Nat \ {0} : b = BLOCK1
      BY FlashAssumption
    <3>2. lo % 2 = 0 /\ b % 2 = 0
      BY <1>1, <1>6, <3>1, GoalLoadable DEF Lo, Half
    <3>3. (lo + e) % b = 0
      BY <1>1, <1>6, <3>1, ExtentWithin DEF erase_block_size
    <3> QED BY <3>2, <3>3, EvenExtent
  <2>3. k \in 0..e-1
    BY <1>1, <1>2, <2>1
  <2>4. PICK j \in 0..e-1 : j = Twin(k) /\ Twin(j) = k
    BY <2>2, <2>3, TwinWithin
  <2>5. j \in 0..g-1 /\ k \in 0..g-1
    BY <1>1, <1>6, <2>3, <2>4 DEF Half
  <2>6. Want(1)[j] = reverse_bits_8(s[k])
    BY <1>1, <1>4, <1>6, <2>4, <2>5 DEF Want, Bitswap, Reversed, Twin
  <2>7. DOMAIN Contents(1) = 0..g-1
    BY <1>1, <1>6 DEF Contents, Half
  <2>8. ReadBack = Reversed(Contents(1))
    BY <1>6 DEF ReadBack, Bitswap
  <2>9. ReadBack[k] = reverse_bits_8(Contents(1)[j])
    BY <2>4, <2>5, <2>7, <2>8 DEF Reversed, Twin
  <2>10. Contents(1)[j] = reverse_bits_8(FileByte(k))
    BY <1>2, <1>3, <1>4, <2>1, <2>4, <2>6
  <2> QED BY <1>2, <2>9, <2>10, ReversedTwice
<1>7. CASE set.kind = "dual"
  <2>1. 1 \in Chips /\ 2 \in Chips /\ h = g \div 2
    BY <1>1, <1>7 DEF Chips, Half
  <2>2. f + o <= g /\ (f - o) % 2 = 0
    BY <1>1, <1>7, GoalLoadable
  <2>3. Least((f - o) \div 2 + o, g \div 2) <= e
    BY <1>1, <1>7, ExtentWithin
  <2>4. PICK y \in Int : y = (f - o) \div 2 /\ f - o = 2*y /\ y + o <= g \div 2 /\ y + o <= e
    BY <2>2, <2>3 DEF Least
  <2>5. Want(1) = PriBuf(g) /\ Want(2) = SecBuf(g)
    BY <1>1, <1>7 DEF Want
  <2>6. ReadBack = Merged(g, Contents(1), Contents(2))
    BY <1>1, <1>7 DEF ReadBack
  <2>7. k \in 0..g-1
    BY <1>1, <1>2
  <2>8. CASE k < o
    <3>1. k \in 0..e-1 /\ k \in 0..(g \div 2)-1
      BY <1>2, <2>4, <2>8
    <3>2. ReadBack[k] = Contents(1)[k]
      BY <1>1, <2>6, <2>7, <2>8 DEF Merged
    <3>3. PriBuf(g)[k] = s[k]
      BY <1>1, <1>4, <2>8, <3>1 DEF PriBuf
    <3> QED BY <1>2, <1>3, <1>4, <2>1, <2>5, <3>1, <3>2, <3>3
  <2>9. CASE o <= k
    <3>1. PICK i \in Nat, kk \in Nat :
            /\ i = o + (k - o) \div 2 /\ kk = o + 2*(i - o)
            /\ o <= i /\ i < g \div 2 /\ i < (f - o) \div 2 + o
            /\ kk \in o..g-o-1 /\ (kk - o) % 2 = 0
            /\ (k - o) % 2 = 0 => kk = k
            /\ (k - o) % 2 # 0 => kk + 1 = k
      BY <1>2, <2>2, <2>9, Interleaves
    <3>2. i \in 0..e-1 /\ i \in 0..(g \div 2)-1 /\ ~(i < o) /\ ~(k < o) /\ ~(k >= g - o)
      BY <1>2, <2>2, <2>4, <2>9, <3>1
    <3>3. kk \in Interleaved(g)
      BY <1>1, <3>1 DEF Interleaved
    <3>4. PriBuf(g)[i] = <<s[kk][2], s[kk+1][2]>>
      BY <1>1, <1>4, <3>1, <3>2, <3>3 DEF PriBuf
    <3>5. SecBuf(g)[i] = <<s[kk][1], s[kk+1][1]>>
      BY <1>1, <1>4, <3>1, <3>2, <3>3 DEF SecBuf
    <3>6. PICK p, q : p = Contents(1)[i] /\ q = Contents(2)[i]
      OBVIOUS
    <3>7. p = <<s[kk][2], s[kk+1][2]>> /\ q = <<s[kk][1], s[kk+1][1]>>
      BY <1>3, <2>1, <2>5, <3>2, <3>4, <3>5, <3>6
    <3>8. s[k] = <<s[k][1], s[k][2]>> /\ s[k] = FileByte(k)
      <4>1. s[k] = FileByte(k)
        BY <1>2, <1>4
      <4>2. PICK v, w : FileByte(k) = <<v, w>>
        BY Zenon DEF FileByte
      <4> QED BY <4>1, <4>2
    <3>9. CASE (k - o) % 2 = 0
      <4>1. ReadBack[k] = <<q[1], p[1]>>
        BY <1>1, <2>6, <2>7, <3>1, <3>2, <3>6, <3>9 DEF Merged
      <4>2. q[1] = s[k][1] /\ p[1] = s[k][2]
        BY <3>1, <3>7, <3>9
      <4> QED BY <3>8, <4>1, <4>2
    <3>10. CASE (k - o) % 2 # 0
      <4>1. ReadBack[k] = <<q[2], p[2]>>
        BY <1>1, <2>6, <2>7, <3>1, <3>2, <3>6, <3>10 DEF Merged
      <4>2. q[2] = s[k][1] /\ p[2] = s[k][2]
        BY <3>1, <3>7, <3>10
      <4> QED BY <3>8, <4>1, <4>2
    <3> QED BY <3>9, <3>10
  <2> QED BY <1>2, <2>8, <2>9
<1>8. set.kind \in {"spi", "dual", "bpi"}
  BY ProgShapes, FlashAssumption
<1> QED BY <1>5, <1>6, <1>7, <1>8


\* One chip or two.
LEMMA HowMany ==
  /\ N \in {1, 2} /\ Chips = 1..N /\ (N = 2 <=> set.kind = "dual") /\ ChipSize = SIZE \div N
  /\ \A c \in Chips : c \in Nat /\ 1 <= c /\ c <= N
<1>1. N \in {1, 2} /\ Chips = 1..N /\ (N = 2 <=> set.kind = "dual")
  <2>1. CASE set.kind = "dual"
    BY <2>1 DEF N, Chips
  <2>2. CASE set.kind # "dual"
    BY <2>2 DEF N, Chips
  <2> QED BY <2>1, <2>2
<1>2. Cardinality(Chips) = N
  <2>1. PICK n \in Int : n = N /\ ~(1 > n)
    BY <1>1
  <2>2. Cardinality(1..n) = IF 1 > n THEN 0 ELSE n - 1 + 1
    BY FS_Interval
  <2> QED BY <1>1, <2>1, <2>2
<1> QED BY <1>1, <1>2 DEF ChipSize

\* Segments end with the flash at the latest.
LEMMA SegmentsEnd ==
  ASSUME NEW u \in Setups, NEW k \in Nat, k < Len(Segments(u))
  PROVE  Segments(u)[k + 1].start + Segments(u)[k + 1].len <= SIZE
<1>1. SIZE \in Nat \ {0} /\ u.seg0 \in Nat
  BY FlashAssumption
<1>2. PICK h : /\ h = IF u.seg0 = 0 THEN SIZE \div 2 ELSE u.seg0
               /\ \/ Segments(u) = Even(1)
                  \/ Segments(u) = <<[start |-> 0, len |-> h], [start |-> h, len |-> SIZE - h]>> /\ u.seg0 <= SIZE
                  \/ Segments(u) = Even(u.config) /\ u.config \in {4, 8}
                  \/ Segments(u) = <<>>
  BY SegmentKinds
<1>4. CASE u.seg0 <= SIZE /\ Segments(u) = <<[start |-> 0, len |-> h], [start |-> h, len |-> SIZE - h]>>
  <2>1. h \in 0..SIZE
    BY <1>1, <1>2, <1>4
  <2>2. PICK a, b : a = [start |-> 0, len |-> h] /\ b = [start |-> h, len |-> SIZE - h]
    OBVIOUS
  <2>3. a.start + a.len <= SIZE /\ b.start + b.len <= SIZE
    BY <1>1, <2>1, <2>2
  <2>4. PICK s : s = <<a, b>>
    OBVIOUS
  <2>5. Len(s) = 2 /\ s[1] = a /\ s[2] = b
    BY <2>4
  <2>6. k = 0 \/ k = 1
    BY <1>4, <2>2, <2>4, <2>5
  <2> QED BY <1>4, <2>2, <2>3, <2>4, <2>5, <2>6
<1>5. ASSUME NEW n \in Nat \ {0}, Segments(u) = Even(n)
      PROVE  Segments(u)[k + 1].start + Segments(u)[k + 1].len <= SIZE
  <2>1. PICK q \in Nat : q = SIZE \div n
    BY <1>1
  <2>2. Even(n) = [i \in 1..n |-> [start |-> (i - 1) * q, len |-> q]]
    BY <2>1 DEF Even
  <2>3. Len(Even(n)) = n
    BY <2>1, EvenLen
  <2>4. PICK i \in 1..n : i = k + 1
    BY <1>5, <2>3
  <2>5. PICK p : p = (i - 1) * q
    OBVIOUS
  <2>6. Even(n)[i] = [start |-> p, len |-> q]
    BY <2>2, <2>5
  <2>7. p + q <= SIZE
    <3>1. PICK d \in Nat : n = i + d
      BY <2>4
    <3>2. PICK m \in Nat : m = i
      BY <2>4
    <3>3. p + q = m * q
      BY <2>5, <3>2
    <3>4. n * q = m * q + d * q
      BY <3>1, <3>2
    <3>5. PICK v \in Nat, w \in Nat, y \in Nat : v = d * q /\ w = m * q /\ y = n * q
      OBVIOUS
    <3>6. y <= SIZE
      BY <1>1, <2>1, <3>5
    <3> QED BY <1>1, <3>3, <3>4, <3>5, <3>6
  <2> QED BY <1>5, <2>4, <2>6, <2>7
<1>6. CASE Segments(u) = <<>>
  BY <1>6
<1>7. CASE Segments(u) = Even(1)
  BY <1>5, <1>7
<1>8. CASE Segments(u) = Even(u.config) /\ u.config \in {4, 8}
  BY <1>5, <1>8
<1> QED BY <1>2, <1>4, <1>6, <1>7, <1>8

\* Where the image goes there are cells.
LEMMA CellsThere ==
  ASSUME ProgInv, Doable, Aligned, Usable, NEW a \in Lo..(Lo+Extent)-1
  PROVE  a \in 0..ChipSize-1 /\ a - Lo \in 0..Half(Goal.len)-1
<1>1. IntactInv /\ SlotThere /\ set \in Setups
  BY ProgShapes
<1>2. PICK lo \in Nat, e \in Nat, g \in Nat, s \in Nat, h \in Nat :
        lo = Lo /\ e = Extent /\ g = Goal.len /\ s = Goal.start /\ h = Half(Goal.len) /\ e <= h
  BY <1>1, GoalWithin, ExtentWithin
<1>3. s + g <= SIZE /\ SIZE \in Nat
  <2>1. Slot \in Nat
    BY <1>1, FlashAssumption DEF IntactInv, Slot
  <2>2. PICK k \in Nat : k = Slot
    BY <2>1
  <2>3. k < Len(Segments(set)) /\ Goal = Segments(set)[k + 1]
    BY <2>2 DEF Doable, Goal
  <2> QED BY <1>1, <1>2, <2>3, SegmentsEnd, FlashAssumption
<1>4. lo + h <= ChipSize /\ ChipSize \in Nat
  <2>1. CASE set.kind = "dual"
    <3>1. ChipSize = SIZE \div 2 /\ lo = s \div 2 /\ h = g \div 2
      BY <1>2, <2>1, HowMany DEF Lo, Half
    <3>2. PICK z \in Nat : z = SIZE
      BY <1>3
    <3> QED BY <1>3, <3>1, <3>2
  <2>2. CASE set.kind # "dual"
    <3>1. N = 1 /\ lo = s /\ h = g
      BY <1>2, <2>2, HowMany DEF Lo, Half
    <3>2. PICK z \in Nat : z = SIZE
      BY <1>3
    <3>3. ChipSize = z \div 1
      BY <3>1, <3>2, HowMany
    <3> QED BY <1>3, <3>1, <3>2, <3>3
  <2> QED BY <2>1, <2>2
<1> QED BY <1>2, <1>4

\* The rest of a plan, once its first job is done.
LEMMA PlanRest ==
  ASSUME NEW s, JobsIn(s), s # <<>>, Plan(s)
  PROVE  Plan(Tail(s)) /\ Len(Tail(s)) = Len(s) - 1 /\ Len(s) \in Nat \ {0}
         /\ (Len(s) > 1 => Tail(s)[1].addr = Lo)
<1>1. PICK S : s \in Seq(S)
  BY DEF JobsIn
<1>2. PICK r : r = Tail(s)
  OBVIOUS
<1>3. PICK n \in Nat \ {0} : n = Len(s)
  BY <1>1
<1>4. Len(r) = n - 1 /\ \A i \in 1..n-1 : r[i] = s[i + 1]
  BY <1>1, <1>2, <1>3
<1>5. n <= 2*N /\ N \in {1, 2}
  BY <1>3, HowMany DEF Plan
<1>6. ASSUME NEW i \in 1..Len(r)
      PROVE  Planned(r[i], Len(r) - i) /\ r[i].addr = Lo /\ r[i].left = 0
  <2>1. PICK j \in 1..n : j = i + 1 /\ j > 1 /\ n - j = Len(r) - i
    BY <1>4
  <2>2. Planned(s[j], n - j) /\ s[j].addr = Lo /\ s[j].left = 0
    BY <1>3, <2>1 DEF Plan
  <2> QED BY <1>4, <2>1, <2>2
<1>7. Plan(r)
  BY <1>4, <1>5, <1>6 DEF Plan
<1>8. n > 1 => r[1].addr = Lo
  BY <1>4, <1>6
<1> QED BY <1>2, <1>3, <1>4, <1>7, <1>8

\* A plan whose first job has moved on.
LEMMA PlanFront ==
  ASSUME NEW s, JobsIn(s), s # <<>>, Plan(s), NEW j, Planned(j, Len(s) - 1)
  PROVE  LET r == <<j>> \o Tail(s) IN Plan(r) /\ Len(r) = Len(s) /\ r[1] = j
<1>1. PICK S : s \in Seq(S)
  BY DEF JobsIn
<1>2. PICK W : W = S \cup {j}
  OBVIOUS
<1>3. PICK q : q = Tail(s)
  OBVIOUS
<1>4. PICK n \in Nat \ {0} : n = Len(s)
  BY <1>1
<1>5. q \in Seq(S) /\ Len(q) = n - 1 /\ \A i \in 1..n-1 : q[i] = s[i + 1]
  BY <1>1, <1>3, <1>4
<1>6. q \in Seq(W)
  BY <1>2, <1>5, SeqDef
<1>7. <<j>> \in Seq(W) /\ Len(<<j>>) = 1 /\ <<j>>[1] = j
  BY <1>2
<1>8. PICK r : r = <<j>> \o q
  OBVIOUS
<1>9. /\ Len(r) = 1 + (n - 1)
      /\ \A i \in 1..1+(n-1) : r[i] = IF i <= 1 THEN <<j>>[i] ELSE q[i - 1]
  BY <1>5, <1>6, <1>7, <1>8, ConcatProperties
<1>10. Len(r) = n /\ r[1] = j /\ \A i \in 2..n : r[i] = s[i]
  <2>1. Len(r) = n /\ r[1] = j
    BY <1>7, <1>9
  <2>2. ASSUME NEW i \in 2..n PROVE r[i] = s[i]
    <3>1. i \in 1..1+(n-1) /\ ~(i <= 1) /\ i - 1 \in 1..n-1 /\ (i - 1) + 1 = i
      OBVIOUS
    <3> QED BY <1>5, <1>9, <3>1
  <2> QED BY <2>1, <2>2
<1>11. n <= 2*N
  BY <1>4 DEF Plan
<1>12. ASSUME NEW i \in 1..n
       PROVE  Planned(r[i], n - i) /\ (i > 1 => r[i].addr = Lo /\ r[i].left = 0)
  <2>1. CASE i = 1
    BY <1>4, <1>10, <2>1
  <2>2. CASE i # 1
    BY <1>4, <1>10, <2>2 DEF Plan
  <2> QED BY <2>1, <2>2
<1>13. Plan(r)
  BY <1>10, <1>11, <1>12 DEF Plan
<1> QED BY <1>3, <1>4, <1>8, <1>10, <1>13

\* The job under way is for the chip that its place says.
LEMMA JobPlanned ==
  ASSUME NEW s, JobsIn(s), s # <<>>, Plan(s)
  PROVE  LET n == Len(s) IN
         /\ n \in 1..2*N /\ Planned(s[1], n - 1) /\ s[1].c \in Chips
         /\ s[1].op = "write" => n = N - s[1].c + 1
         /\ s[1].op # "write" => n > N
<1>1. PICK n \in Nat \ {0} : n = Len(s)
  <2>1. PICK S : s \in Seq(S)
    BY DEF JobsIn
  <2> QED BY <2>1
<1>2. n <= 2*N /\ Planned(s[1], n - 1)
  BY <1>1 DEF Plan
<1>3. N \in {1, 2} /\ Chips = 1..N
  BY HowMany
<1> QED BY <1>1, <1>2, <1>3 DEF Planned

\* Chips with the same cells.
LEMMA SameCells ==
  ASSUME NEW x, NEW y, \A c \in Chips : y[c].mem = x[c].mem
  PROVE  /\ There(x) => There(y)
         /\ \A s : Verified(s, x) => Verified(s, y)
<1>1. \A c \in Chips : \A to : Holds(c, x, to) => Holds(c, y, to)
  BY DEF Holds
<1> QED BY <1>1 DEF There, Verified


---------------------------------------------------------------------------
\* Nothing was written yet.
LEMMA ProgStarts == FlashInit => ProgInv
<1> SUFFICES ASSUME FlashInit PROVE ProgInv
  OBVIOUS
<1>1. IntactInv /\ FlashInv /\ t = FwStart /\ got = <<>>
  BY IntactStarts, FlashStarts DEF FlashInit
<1>2. {"pc", "then", "done"} \subseteq DOMAIN t /\ t.pc = "open" /\ t.then = "open" /\ t.done = FALSE
  BY <1>1 DEF FwStart
<1>3. file.sync => file.len \in Lens /\ (set.kind = "dual" => file.len <= MaxDualLen)
  <2>1. CASE file \in [type : {"bin", "bit"}, ok : {TRUE}, sync : {TRUE}, len : Lens]
    BY <2>1 DEF FlashInit
  <2>2. CASE file \in [type : {"bin", "bit", "hex"}, ok : BOOLEAN, sync : {FALSE}, len : {RESYNC}]
    BY <2>2
  <2> QED BY <2>1, <2>2 DEF FlashInit
<1>4. \A c \in Chips : chip[c].mode \in Modes
  <2>1. PICK X : X = CASE set.ops = "intel" -> {"sync"} [] set.ops = "amd" -> {"abort"} [] OTHER -> {}
    OBVIOUS
  <2>2. X \subseteq Modes
    BY <2>1 DEF Modes
  <2>3. PICK mode \in {"array"} \cup X :
          chip = [c \in Chips |-> [mem |-> [a \in 0..ChipSize-1 |-> OldByte], mode |-> mode,
                                   locked |-> {BlockOf(a) : a \in 0..SIZE-1}, busy |-> FALSE, err |-> FALSE]]
    BY <2>1, Zenon DEF FlashInit
  <2>4. PICK m, l : m = [a \in 0..ChipSize-1 |-> OldByte] /\ l = {BlockOf(a) : a \in 0..SIZE-1}
    OBVIOUS
  <2>5. chip = [c \in Chips |-> [mem |-> m, mode |-> mode, locked |-> l, busy |-> FALSE, err |-> FALSE]]
    BY <2>3, <2>4
  <2> QED BY <2>2, <2>5 DEF Modes
<1>5. ProgAt(t, chip, got)
  BY <1>1, <1>2, <1>4 DEF ProgAt
<1>6. ProgIdle(t)
  BY <1>2 DEF ProgIdle
<1> QED BY <1>1, <1>2, <1>3, <1>5, <1>6 DEF ProgInv

\* Where the tool goes keeps the fields that count here.
LEMMA ProgFields ==
  ASSUME {"pc", "then", "done"} \subseteq DOMAIN t, [FlashNext]_flashVars
  PROVE  {"pc", "then", "done"} \subseteq DOMAIN t'
<1>1. CASE Kill
  BY <1>1 DEF Kill, FwStart
<1>2. CASE UNCHANGED t
  BY <1>2
<1>3. CASE \E r : Quit(r) \/ Goto(r)
  BY <1>3 DEF Quit, Goto
<1>4. CASE \E j : DOMAIN t' = DOMAIN WithJob(j)
  BY <1>4 DEF WithJob
<1>5. CASE SkipStage \/ Written \/ NextStage \/ ReadSegment \/ SkipFlash \/ Disconnect
  BY <1>3, <1>5 DEF SkipStage, Written, NextStage, ReadSegment, SkipFlash, Disconnect, Goto
<1>6. CASE NotEnabled
  BY <1>3, <1>6 DEF NotEnabled, JobFails
<1>7. CASE NextSeg
  BY <1>4, <1>7 DEF NextSeg
<1>8. CASE Wait
  BY <1>3, <1>4, <1>8 DEF Wait, JobFails
<1>9. ASSUME NEW b \in BOOLEAN,
             \/ Open(b) \/ Erase(b) \/ Write(b) \/ IssueErase(b) \/ IssueProgram(b)
             \/ Prepare(b) \/ Boot(b) \/ Iprog(b) \/ Remove(b) \/ Rescan(b)
      PROVE  {"pc", "then", "done"} \subseteq DOMAIN t'
  <2>1. CASE Open(b)
    BY <1>3, <2>1 DEF Open
  <2>2. CASE Erase(b)
    BY <1>3, <2>2 DEF Erase
  <2>3. CASE Write(b)
    BY <1>3, <2>3 DEF Write
  <2>4. CASE IssueErase(b) \/ IssueProgram(b)
    BY <1>3, <2>4 DEF IssueErase, IssueProgram, JobFails
  <2>5. CASE Prepare(b) \/ Boot(b) \/ Iprog(b) \/ Remove(b) \/ Rescan(b)
    BY <1>3, <2>5 DEF Prepare, Boot, Iprog, Remove, Rescan, Goto
  <2> QED BY <1>9, <2>1, <2>2, <2>3, <2>4, <2>5
<1>10. ASSUME NEW b \in BOOLEAN, Verify(b)
       PROVE  {"pc", "then", "done"} \subseteq DOMAIN t'
  BY <1>3, <1>4, <1>10 DEF Verify, JobFails
<1> QED BY <1>1, <1>2, <1>5, <1>6, <1>7, <1>8, <1>9, <1>10
    DEF FlashNext, FwTool, FpgaUp, ChipDone, flashVars

\* The build, the options and the file stay.
LEMMA SettingsStay ==
  ASSUME [FlashNext]_flashVars
  PROVE  UNCHANGED <<set, opt, file>>
  BY DEF FlashNext, FwTool, Kill, FpgaUp, ChipDone, flashVars, SkipStage, Written, NextStage, ReadSegment,
         SkipFlash, NotEnabled, NextSeg, Wait, Open, Erase, Write, IssueErase, IssueProgram, Prepare, Boot,
         Iprog, Disconnect, Remove, Rescan, Verify

\* A tool that cannot write never says that it has.
LEMMA ProgStaysIdle ==
  ASSUME ProgInv, ~Doable, [FlashNext]_flashVars
  PROVE  ProgIdle(t')
<1>1. ProgIdle(t) /\ {"pc", "then", "done"} \subseteq DOMAIN t
  BY DEF ProgInv
<1>2. opt' = opt
  BY SettingsStay
<1>3. CASE Kill
  BY <1>3 DEF Kill, FwStart, ProgIdle
<1>4. CASE UNCHANGED t
  BY <1>1, <1>4 DEF ProgIdle
<1>5. ASSUME NEW p, p \notin {"erase", "write", "job", "written"}, t'.pc = p, t'.then = t.then, t'.done = t.done
      PROVE  ProgIdle(t')
  BY <1>1, <1>5 DEF ProgIdle
<1>6. CASE \E r : Quit(r)
  <2>1. t'.pc = "end" /\ t'.then = t.then /\ t'.done = t.done
    BY <1>1, <1>6 DEF Quit
  <2> QED BY <1>5, <2>1
<1>7. CASE \E p \in {"read", "skip", "end", "reset", "boot", "iprog", "close", "remove", "rescan"} : Goto(p)
  <2>1. PICK p \in {"read", "skip", "end", "reset", "boot", "iprog", "close", "remove", "rescan"} :
          t' = [t EXCEPT !.pc = p]
    BY <1>7 DEF Goto
  <2>2. t'.pc = p /\ t'.then = t.then /\ t'.done = t.done
    BY <1>1, <2>1
  <2> QED BY <1>5, <2>1, <2>2
<1>8. ASSUME t'.pc = t.pc, t'.then = t.then, t'.done = t.done
      PROVE  ProgIdle(t')
  BY <1>1, <1>8 DEF ProgIdle
<1>9. CASE SkipStage
  <2>1. CASE t.pc = "erase" /\ t' = [t EXCEPT !.pc = "write"]
    BY <1>1, <1>2, <2>1 DEF ProgIdle
  <2>2. CASE Goto("read") \/ Goto("skip")
    BY <1>7, <2>2
  <2> QED BY <1>9, <2>1, <2>2 DEF SkipStage, Goto
<1>10. CASE Written \/ \E b \in BOOLEAN : Write(b)
  BY <1>1, <1>10 DEF Written, Write, ProgIdle
<1>11. CASE NextStage
  <2>1. t.pc = "job" /\ t' = [t EXCEPT !.pc = t.then]
    BY <1>11 DEF NextStage, Goto
  <2>2. t'.pc = t.then /\ t'.then = t.then /\ t'.done = t.done
    BY <1>1, <2>1
  <2> QED BY <1>1, <1>2, <2>1, <2>2 DEF ProgIdle
<1>12. CASE ReadSegment \/ NotEnabled \/ Disconnect
  BY <1>6, <1>7, <1>12 DEF ReadSegment, NotEnabled, Disconnect, JobFails
<1>13. CASE SkipFlash
  <2>1. CASE Goto("end")
    BY <1>7, <2>1
  <2>2. CASE t' = [t EXCEPT !.pc = IF opt.boot \/ opt.reset THEN "reset" ELSE "end", !.ret = 0]
    <3>1. t'.pc \in {"reset", "end"} /\ t'.then = t.then /\ t'.done = t.done
      BY <1>1, <2>2
    <3> QED BY <1>5, <3>1
  <2> QED BY <1>13, <2>1, <2>2 DEF SkipFlash
<1>14. ASSUME NEW j, NEW e, e = WithJob(j)
       PROVE  /\ e.pc = t.pc /\ e.then = t.then /\ e.done = t.done
              /\ {"pc", "then", "done"} \subseteq DOMAIN e
  BY <1>1, <1>14 DEF WithJob
<1>15. CASE NextSeg
  <2>1. CASE t' = [t EXCEPT !.jobs = Tail(@)]
    <3>1. t'.pc = t.pc /\ t'.then = t.then /\ t'.done = t.done
      BY <1>1, <2>1
    <3> QED BY <1>8, <3>1
  <2>2. CASE \E j : t' = WithJob(j)
    BY <1>8, <1>14, <2>2
  <2> QED BY <1>15, <2>1, <2>2 DEF NextSeg
<1>16. ASSUME NEW j, \/ t' = [WithJob(j) EXCEPT !.sub = "issue"]
                     \/ t' = [WithJob(j) EXCEPT !.sub = "verify", !.tries = 3]
       PROVE  ProgIdle(t')
  <2>1. PICK e : e = WithJob(j)
    OBVIOUS
  <2>2. e.pc = t.pc /\ e.then = t.then /\ e.done = t.done /\ {"pc", "then", "done"} \subseteq DOMAIN e
    BY <1>14, <2>1
  <2>3. t'.pc = t.pc /\ t'.then = t.then /\ t'.done = t.done
    BY <1>16, <2>1, <2>2
  <2> QED BY <1>8, <2>3
<1>17. CASE Wait
  BY <1>6, <1>16, <1>17 DEF Wait, JobFails
<1>18. ASSUME NEW b \in BOOLEAN, Open(b)
       PROVE  ProgIdle(t')
  <2>1. CASE t' = [t EXCEPT !.pc = "skip", !.ret = -1]
    <3>1. t'.pc = "skip" /\ t'.then = t.then /\ t'.done = t.done
      BY <1>1, <2>1
    <3> QED BY <1>5, <3>1
  <2>2. CASE Quit(-1)
    BY <1>6, <2>2
  <2>3. CASE \E g : t' = [t EXCEPT !.pc = "erase", !.seg = g] /\ ~opt.write
    BY <1>1, <1>2, <2>3 DEF ProgIdle
  <2> QED BY <1>18, <2>1, <2>2, <2>3 DEF Open, Doable, Slot
<1>19. ASSUME NEW b \in BOOLEAN, Erase(b)
       PROVE  ProgIdle(t')
  <2>1. CASE \E s : t' = [t EXCEPT !.pc = "job", !.then = "write", !.jobs = s]
    <3>1. t'.pc = "job" /\ t'.then = "write" /\ t'.done = t.done
      BY <1>1, <2>1
    <3> QED BY <1>1, <1>2, <1>19, <3>1 DEF ProgIdle, Erase
  <2> QED BY <1>6, <1>19, <2>1 DEF Erase
<1>20. ASSUME NEW b \in BOOLEAN, IssueErase(b) \/ IssueProgram(b)
       PROVE  ProgIdle(t')
  <2>1. CASE t' = [t EXCEPT !.sub = "wait"]
    <3>1. t'.pc = t.pc /\ t'.then = t.then /\ t'.done = t.done
      BY <1>1, <2>1
    <3> QED BY <1>8, <3>1
  <2> QED BY <1>6, <1>20, <2>1 DEF IssueErase, IssueProgram, JobFails
<1>21. ASSUME NEW b \in BOOLEAN, Verify(b)
       PROVE  ProgIdle(t')
  <2>1. CASE t' = [t EXCEPT !.tries = @ - 1]
    <3>1. t'.pc = t.pc /\ t'.then = t.then /\ t'.done = t.done
      BY <1>1, <2>1
    <3> QED BY <1>8, <3>1
  <2> QED BY <1>6, <1>16, <1>21, <2>1 DEF Verify, JobFails
<1>22. ASSUME NEW b \in BOOLEAN, Prepare(b) \/ Boot(b) \/ Iprog(b) \/ Remove(b) \/ Rescan(b)
       PROVE  ProgIdle(t')
  <2>1. CASE \E p, n : t' = [t EXCEPT !.pc = p, !.tries = n] /\ p = "rescan"
    <3>1. t'.pc = "rescan" /\ t'.then = t.then /\ t'.done = t.done
      BY <1>1, <2>1
    <3> QED BY <1>5, <3>1
  <2>2. CASE t' = [t EXCEPT !.tries = @ - 1]
    <3>1. t'.pc = t.pc /\ t'.then = t.then /\ t'.done = t.done
      BY <1>1, <2>2
    <3> QED BY <1>8, <3>1
  <2> QED BY <1>6, <1>7, <1>22, <2>1, <2>2 DEF Prepare, Boot, Iprog, Remove, Rescan, Goto
<1> QED BY <1>3, <1>4, <1>9, <1>10, <1>11, <1>12, <1>13, <1>15, <1>17, <1>18, <1>19, <1>20, <1>21, <1>22
    DEF FlashNext, FwTool, FpgaUp, ChipDone, flashVars


---------------------------------------------------------------------------
\* The tool is past its work: it touches the flash no more.
LEMMA ProgRest ==
  ASSUME ProgInv, Doable, UNCHANGED got, t'.pc \notin OnFlash \cup {"read"}, t'.done = t.done, t'.seg = t.seg,
         t.done => chip' = chip, \A c \in Chips : chip'[c].mode \in Modes
  PROVE  ProgAt(t', chip', got')
<1>1. ProgAt(t, chip, got)
  BY ProgShapes
<1>2. t'.pc \notin {"erase", "write", "job", "written", "read"}
  BY DEF OnFlash
<1>3. t'.done => /\ Usable /\ t'.seg = Goal /\ There(chip') /\ Awake(chip')
                 /\ \A c \in Chips : chip'[c].busy = FALSE
                 /\ got' # <<>> => \A k \in 0..file.len-1 : got'[1][k] = FileByte(k)
  BY <1>1 DEF ProgAt
<1> QED BY <1>2, <1>3 DEF ProgAt

\* The same for where it goes with the chips as they are.
LEMMA ProgLeaves ==
  ASSUME ProgInv, Doable, UNCHANGED <<got, chip>>,
         \/ \E r : Quit(r)
         \/ \E p : p \notin OnFlash \cup {"read"} /\ Goto(p)
         \/ \E p, n : p \notin OnFlash \cup {"read"} /\ t' = [t EXCEPT !.pc = p, !.ret = n]
         \/ \E p, n : p \notin OnFlash \cup {"read"} /\ t' = [t EXCEPT !.pc = p, !.tries = n]
         \/ \E n : t' = [t EXCEPT !.tries = n] /\ t.pc \notin OnFlash \cup {"read"}
  PROVE  ProgAt(t', chip', got')
<1>1. PICK p : /\ p \notin OnFlash \cup {"read"}
               /\ \/ \E n : t' = [t EXCEPT !.pc = p, !.ret = n]
                  \/ t' = [t EXCEPT !.pc = p]
                  \/ \E n : t' = [t EXCEPT !.pc = p, !.tries = n]
                  \/ \E n : t' = [t EXCEPT !.tries = n] /\ t.pc = p
  BY DEF Quit, Goto, OnFlash
<1>2. t'.pc = p /\ t'.done = t.done /\ t'.seg = t.seg
  BY <1>1, ProgShapes
<1> QED BY <1>1, <1>2, ProgShapes, ProgRest

\* What holds while the tool works on flash.
LEMMA ProgBusy ==
  ASSUME ProgInv, Doable, Aligned, t.pc = "job"
  PROVE  /\ JobsIn(t.jobs) /\ t.done = FALSE /\ got = <<>> /\ t.seg = Goal /\ Awake(chip)
         /\ t.then \in {"write", "written"}
         /\ t.then = "written" => Usable /\ Plan(t.jobs) /\ Verified(t.jobs, chip)
         /\ t.jobs # <<>> => JobIn(J) /\ JobFields \subseteq DOMAIN J
<1>1. ProgAt(t, chip, got) /\ IntactInv /\ SlotThere
  BY ProgShapes
<1>2. JobsIn(t.jobs) /\ t.then \in {"write", "written"}
  BY <1>1, IntactShapes
<1>3. t.jobs # <<>> => JobIn(J) /\ JobFields \subseteq DOMAIN J
  BY <1>1, FirstInside DEF JobIn
<1> QED BY <1>1, <1>2, <1>3 DEF ProgAt, OnFlash

\* It goes on with its work.
LEMMA ProgWork ==
  ASSUME ProgInv, Doable, Aligned, UNCHANGED got, t.pc = "job", t'.pc = "job", t'.done = t.done,
         t'.seg = t.seg, t'.then = t.then, Awake(chip'),
         t.then = "written" => Plan(t'.jobs) /\ Verified(t'.jobs, chip')
  PROVE  ProgAt(t', chip', got')
<1>1. /\ t'.done = FALSE /\ got' = <<>> /\ t'.seg = Goal
      /\ t.then = "written" => Usable
  BY ProgBusy
<1>2. \A c \in Chips : chip'[c].mode \in Modes
  BY DEF Awake, Modes
<1> QED BY <1>1, <1>2 DEF ProgAt

\* The first job goes on, with the cells as they are.
LEMMA JobGoesOn ==
  ASSUME ProgInv, Doable, Aligned, t.pc = "job", t.jobs # <<>>, UNCHANGED got, NEW j,
         j.c = J.c, j.op = J.op, j.base = J.base, j.addr + j.remain = J.addr + J.remain,
         t'.pc = "job", t'.done = t.done, t'.seg = t.seg, t'.then = t.then,
         t'.jobs = <<j>> \o Tail(t.jobs), Awake(chip'), \A c \in Chips : chip'[c].mem = chip[c].mem,
         t.then = "written" => j.addr = J.addr \/ J.op # "write" \/ Holds(J.c, chip', j.addr)
  PROVE  ProgAt(t', chip', got')
<1>1. ASSUME t.then = "written" PROVE Plan(t'.jobs) /\ Verified(t'.jobs, chip')
  <2>1. JobsIn(t.jobs) /\ Plan(t.jobs) /\ Verified(t.jobs, chip)
    BY <1>1, ProgBusy
  <2>2. PICK n : n = Len(t.jobs)
    OBVIOUS
  <2>3. /\ n \in 1..2*N /\ Planned(J, n - 1) /\ J.c \in Chips
        /\ J.op = "write" => n = N - J.c + 1
        /\ J.op # "write" => n > N
    BY <2>1, <2>2, JobPlanned DEF J
  <2>4. Planned(j, n - 1)
    BY <2>3 DEF Planned
  <2>5. PICK r : r = <<j>> \o Tail(t.jobs)
    OBVIOUS
  <2>6. Plan(r) /\ Len(r) = n /\ r[1] = j
    BY <2>1, <2>2, <2>4, <2>5, PlanFront
  <2>7. Verified(t.jobs, chip')
    BY <2>1, SameCells
  <2>8. ASSUME NEW c \in Chips
        PROVE  /\ n <= N - c => Holds(c, chip', Lo + Extent)
               /\ n = N - c + 1 => Holds(c, chip', j.addr)
    <3>1. n <= N - c => Holds(c, chip', Lo + Extent)
      BY <2>2, <2>7, <2>8 DEF Verified
    <3>2. ASSUME n = N - c + 1 PROVE Holds(c, chip', j.addr)
      <4>1. Holds(c, chip', J.addr)
        BY <2>2, <2>7, <2>8, <3>2 DEF Verified, J
      <4>2. N \in Nat /\ c \in Nat /\ c >= 1
        BY <2>8, HowMany
      <4>3. n \in Nat /\ ~(n > N)
        BY <2>3, <3>2, <4>2
      <4>4. J.op = "write" /\ J.c \in Nat
        BY <2>3, <4>3, HowMany
      <4>5. c = J.c
        BY <2>3, <3>2, <4>2, <4>4
      <4> QED BY <1>1, <4>1, <4>4, <4>5
    <3> QED BY <3>1, <3>2
  <2>9. Verified(r, chip')
    BY <2>6, <2>8 DEF Verified
  <2> QED BY <2>5, <2>6, <2>9
<1> QED BY <1>1, ProgWork

\* The tool with another first job.
LEMMA JobFieldsKept ==
  ASSUME ProgInv, Doable, NEW j, NEW e, e = WithJob(j)
  PROVE  /\ {"pc", "then", "done", "jobs", "sub", "seg"} \subseteq DOMAIN e
         /\ e.pc = t.pc /\ e.then = t.then /\ e.done = t.done /\ e.seg = t.seg
         /\ e.jobs = <<j>> \o Tail(t.jobs)
<1>1. PICK s : s = <<j>> \o Tail(t.jobs)
  OBVIOUS
<1>2. e = [t EXCEPT !.jobs = s]
  BY <1>1 DEF WithJob
<1> QED BY <1>1, <1>2, ProgShapes

\* A stage that was not asked for, and the end of a write.
LEMMA SkipStageTells ==
  ASSUME ProgInv, Doable, SkipStage
  PROVE  ProgAt(t', chip', got')
<1>1. UNCHANGED <<got, chip>> /\ ProgAt(t, chip, got) /\ opt.write
  BY ProgShapes DEF SkipStage
<1>2. CASE t.pc = "erase" /\ t' = [t EXCEPT !.pc = "write"]
  <2>1. t'.pc = "write" /\ t'.done = t.done /\ t'.seg = t.seg
    BY <1>2, ProgShapes
  <2> QED BY <1>1, <1>2, <2>1 DEF ProgAt, OnFlash
<1>3. CASE Goto("skip")
  BY <1>1, <1>3, ProgLeaves DEF OnFlash
<1> QED BY <1>1, <1>2, <1>3 DEF SkipStage, Goto

\* "Programming succeeded!"
LEMMA WrittenTells ==
  ASSUME ProgInv, Doable, Written
  PROVE  ProgAt(t', chip', got')
<1>1. UNCHANGED <<got, chip>> /\ t.pc = "written" /\ t' = [t EXCEPT !.pc = "read", !.done = TRUE]
  BY DEF Written
<1>2. t'.pc = "read" /\ t'.seg = t.seg
  BY <1>1, ProgShapes
<1>3. ProgAt(t, chip, got) /\ \A c \in Chips : chip[c].busy = FALSE
  BY <1>1, ProgShapes DEF FlashInv, FlashAt, AllQuiet, Readable
<1>4. Usable /\ There(chip) /\ got = <<>> /\ t.seg = Goal /\ Awake(chip)
  BY <1>1, <1>3 DEF ProgAt, OnFlash
<1>5. \A c \in Chips : chip[c].mode \in Modes
  BY ProgShapes
<1> QED BY <1>1, <1>2, <1>3, <1>4, <1>5 DEF ProgAt, OnFlash

\* The segment is read.
LEMMA ReadSegmentTells ==
  ASSUME ProgInv, Doable, Aligned, Loadable, ReadSegment
  PROVE  ProgAt(t', chip', got')
<1>1. chip' = chip /\ t' = [t EXCEPT !.pc = "skip"] /\ got' = <<ReadBack>>
  BY DEF ReadSegment, Goto
<1>2. t'.pc = "skip" /\ t'.done = t.done /\ t'.seg = t.seg
  BY <1>1, ProgShapes
<1>3. ProgAt(t, chip, got)
  BY ProgShapes
<1>4. ASSUME t'.done
      PROVE  /\ Usable /\ t'.seg = Goal /\ There(chip') /\ Awake(chip')
             /\ \A c \in Chips : chip'[c].busy = FALSE
             /\ \A k \in 0..file.len-1 : got'[1][k] = FileByte(k)
  <2>1. /\ Usable /\ t.seg = Goal /\ There(chip) /\ Awake(chip)
        /\ \A c \in Chips : chip[c].busy = FALSE
    BY <1>2, <1>3, <1>4 DEF ProgAt
  <2>2. \A k \in 0..file.len-1 : ReadBack[k] = FileByte(k)
    BY <2>1, ReadsBack
  <2>3. got'[1] = ReadBack
    BY <1>1
  <2> QED BY <1>1, <1>2, <2>1, <2>2, <2>3
<1>5. \A c \in Chips : chip'[c].mode \in Modes
  BY <1>1, ProgShapes
<1> QED BY <1>2, <1>4, <1>5 DEF ProgAt, OnFlash

\* The tool gets past the flash, resets the device or reloads the FPGA.
LEMMA ResetTells ==
  ASSUME ProgInv, Doable,
         SkipFlash \/ Disconnect \/ (\E b \in BOOLEAN : Prepare(b) \/ Boot(b) \/ Iprog(b) \/ Remove(b) \/ Rescan(b))
  PROVE  ProgAt(t', chip', got')
<1>1. CASE SkipFlash
  BY <1>1, ProgLeaves DEF SkipFlash, OnFlash
<1>2. ASSUME NEW b \in BOOLEAN, Prepare(b) PROVE ProgAt(t', chip', got')
  BY <1>2, ProgLeaves DEF Prepare, OnFlash
<1>3. ASSUME NEW b \in BOOLEAN, Boot(b) PROVE ProgAt(t', chip', got')
  BY <1>3, ProgLeaves DEF Boot, OnFlash
<1>4. ASSUME NEW b \in BOOLEAN, Remove(b) PROVE ProgAt(t', chip', got')
  BY <1>4, ProgLeaves DEF Remove, OnFlash
<1>5. ASSUME NEW b \in BOOLEAN, Rescan(b) PROVE ProgAt(t', chip', got')
  BY <1>5, ProgLeaves DEF Rescan, Goto, OnFlash
<1>6. ASSUME NEW b \in BOOLEAN, Iprog(b) PROVE ProgAt(t', chip', got')
  BY <1>6, ProgLeaves DEF Iprog, OnFlash
<1>7. CASE Disconnect
  BY <1>7, ProgLeaves DEF Disconnect, OnFlash
<1> QED BY <1>1, <1>2, <1>3, <1>4, <1>5, <1>6, <1>7

\* A flash that is found answers to reads afterwards.
LEMMA OpenTells ==
  ASSUME ProgInv, Doable, NEW found, Open(found)
  PROVE  ProgAt(t', chip', got')
<1>1. UNCHANGED got /\ t.pc = "open" /\ ProgAt(t, chip, got)
  BY ProgShapes DEF Open
<1>2. t.done = FALSE /\ got = <<>>
  BY <1>1 DEF ProgAt, OnFlash
<1>3. CASE ~found
  <2>1. chip' = chip /\ t' = [t EXCEPT !.pc = "skip", !.ret = -1]
    BY <1>3 DEF Open
  <2> QED BY <1>1, <2>1, ProgLeaves DEF OnFlash
<1>4. CASE found
  <2>1. chip' = [c \in Chips |-> FlashOpen(chip[c])]
    BY <1>4 DEF Open
  <2>2. Goal = Segments(set)[Slot + 1]
    BY DEF Goal, Doable
  <2>3. t' = [t EXCEPT !.pc = "erase", !.seg = Goal]
    BY <1>4, <2>2 DEF Open, Doable, Slot
  <2>4. t'.pc = "erase" /\ t'.seg = Goal /\ t'.done = FALSE
    BY <1>2, <2>3, ProgShapes
  <2>5. ASSUME NEW c \in Chips PROVE chip'[c].mode = "array"
    <3>1. PICK ch : ch = chip[c]
      OBVIOUS
    <3>2. "mode" \in DOMAIN ch /\ ch.mode \in Modes
      BY <2>5, <3>1, ProgShapes DEF IsChip
    <3>3. chip'[c] = FlashOpen(ch)
      BY <2>1, <2>5, <3>1
    <3>4. CASE set.kind # "bpi"
      BY <3>2, <3>3, <3>4 DEF FlashOpen, spi_flash_init
    <3>5. CASE set.kind = "bpi"
      <4>1. PICK q : q = (IF ch.mode = "sync" \/ ch.mode = "abort" THEN "array" ELSE ch.mode)
        OBVIOUS
      <4>2. PICK d : d = [ch EXCEPT !.mode = q]
        OBVIOUS
      <4>3. FlashOpen(ch) = Deselect(d)
        BY <3>5, <4>1, <4>2 DEF FlashOpen, bpi_flash_init
      <4>4. "mode" \in DOMAIN d /\ d.mode \in {"array", "status"}
        BY <3>2, <4>1, <4>2 DEF Modes
      <4>5. PICK x : x = Deselect(d)
        OBVIOUS
      <4>6. x.mode = "array"
        BY <4>4, <4>5 DEF Deselect
      <4> QED BY <3>3, <4>3, <4>5, <4>6
    <3> QED BY <3>4, <3>5
  <2>6. Awake(chip') /\ \A c \in Chips : chip'[c].mode \in Modes
    BY <2>5 DEF Awake, Modes
  <2> QED BY <1>1, <1>2, <2>4, <2>6 DEF ProgAt, OnFlash
<1> QED BY <1>3, <1>4


\* Jobs for every chip.
LEMMA PerChipIs ==
  ASSUME NEW op, NEW a, NEW n
  PROVE  LET s == PerChip(op, a, n) IN
         /\ \E S : s \in Seq(S)
         /\ Len(s) = N /\ \A i \in 1..N : s[i] = Job(op, i, a, n)
<1>1. PICK x, y : x = Job(op, 1, a, n) /\ y = Job(op, 2, a, n)
  OBVIOUS
<1>2. PICK S : S = {x, y}
  OBVIOUS
<1>3. /\ <<x, y>> \in Seq(S) /\ <<x>> \in Seq(S) /\ Len(<<x, y>>) = 2 /\ Len(<<x>>) = 1
      /\ <<x, y>>[1] = x /\ <<x, y>>[2] = y /\ <<x>>[1] = x
  BY <1>2
<1>4. CASE set.kind = "dual"
  <2>1. PICK s : s = <<x, y>>
    OBVIOUS
  <2>2. PerChip(op, a, n) = s /\ N = 2
    BY <1>1, <1>4, <2>1 DEF PerChip, N
  <2>3. s \in Seq(S) /\ Len(s) = 2 /\ s[1] = x /\ s[2] = y
    BY <1>3, <2>1
  <2>4. \A i \in 1..2 : i = 1 \/ i = 2
    OBVIOUS
  <2> QED BY <1>1, <2>2, <2>3, <2>4
<1>5. CASE set.kind # "dual"
  <2>1. PICK s : s = <<x>>
    OBVIOUS
  <2>2. PerChip(op, a, n) = s /\ N = 1
    BY <1>1, <1>5, <2>1 DEF PerChip, N
  <2>3. s \in Seq(S) /\ Len(s) = 1 /\ s[1] = x
    BY <1>3, <2>1
  <2>4. \A i \in 1..1 : i = 1
    OBVIOUS
  <2> QED BY <1>1, <2>2, <2>3, <2>4
<1> QED BY <1>4, <1>5

\* A write begins: every chip is to be erased, then written.
LEMMA PlanBegins ==
  ASSUME Extent \in Nat, Lo \in Nat
  PROVE  LET s == PerChip("erase", Lo, Extent) \o PerChip("write", Lo, Extent) IN
         Plan(s) /\ Len(s) = 2*N
<1>1. PICK x, y : x = PerChip("erase", Lo, Extent) /\ y = PerChip("write", Lo, Extent)
  OBVIOUS
<1>2. PICK S : x \in Seq(S)
  BY <1>1, PerChipIs
<1>3. PICK R : y \in Seq(R)
  BY <1>1, PerChipIs
<1>4. PICK W : W = S \cup R
  OBVIOUS
<1>5. x \in Seq(W) /\ y \in Seq(W)
  BY <1>2, <1>3, <1>4, SeqDef
<1>6. PICK n \in {1, 2} : n = N
  BY HowMany
<1>7. /\ Len(x) = n /\ \A i \in 1..n : x[i] = Job("erase", i, Lo, Extent)
      /\ Len(y) = n /\ \A i \in 1..n : y[i] = Job("write", i, Lo, Extent)
  BY <1>1, <1>6, PerChipIs
<1>8. PICK s : s = x \o y
  OBVIOUS
<1>9. Len(s) = n + n /\ \A i \in 1..n+n : s[i] = IF i <= n THEN x[i] ELSE y[i - n]
  BY <1>5, <1>7, <1>8, ConcatProperties
<1>10. ASSUME NEW i \in 1..n+n
       PROVE  Planned(s[i], (n + n) - i) /\ s[i].addr = Lo /\ s[i].left = 0
  <2>1. CASE i <= n
    <3>1. s[i] = Job("erase", i, Lo, Extent)
      BY <1>7, <1>9, <2>1
    <3>2. PICK j : j = s[i]
      OBVIOUS
    <3>3. /\ j.c = i /\ j.op = "erase" /\ j.base = Lo /\ j.addr = Lo /\ j.remain = Extent /\ j.left = 0
      BY <3>1, <3>2 DEF Job
    <3>4. ~((n + n) - i < n) /\ 2*n - ((n + n) - i) = i
      BY <2>1
    <3>5. Planned(j, (n + n) - i)
      BY <1>6, <3>3, <3>4 DEF Planned
    <3> QED BY <3>2, <3>3, <3>5
  <2>2. CASE ~(i <= n)
    <3>1. PICK m \in 1..n : m = i - n
      BY <2>2
    <3>2. s[i] = Job("write", m, Lo, Extent)
      BY <1>7, <1>9, <2>2, <3>1
    <3>3. PICK j : j = s[i]
      OBVIOUS
    <3>4. /\ j.c = m /\ j.op = "write" /\ j.base = Lo /\ j.addr = Lo /\ j.remain = Extent /\ j.left = 0
      BY <3>2, <3>3 DEF Job
    <3>5. (n + n) - i < n /\ n - ((n + n) - i) = m
      BY <2>2, <3>1
    <3>6. Planned(j, (n + n) - i)
      BY <1>6, <3>4, <3>5 DEF Planned
    <3> QED BY <3>3, <3>4, <3>6
  <2> QED BY <2>1, <2>2
<1>11. 2*n = n + n
  BY <1>6
<1>12. Plan(s)
  BY <1>6, <1>9, <1>10, <1>11 DEF Plan
<1> QED BY <1>1, <1>6, <1>8, <1>9, <1>11, <1>12

\* An erase of its own claims nothing.
LEMMA EraseTells ==
  ASSUME ProgInv, Doable, NEW yes, Erase(yes)
  PROVE  ProgAt(t', chip', got')
<1>1. UNCHANGED <<got, chip>> /\ t.pc = "erase" /\ ProgAt(t, chip, got)
  BY ProgShapes DEF Erase
<1>2. CASE ~yes
  BY <1>1, <1>2, ProgLeaves DEF Erase
<1>3. CASE yes
  <2>1. PICK s : t' = [t EXCEPT !.pc = "job", !.then = "write", !.jobs = s]
    BY <1>3 DEF Erase
  <2>2. t'.pc = "job" /\ t'.then = "write" /\ t'.done = t.done /\ t'.seg = t.seg
    BY <2>1, ProgShapes
  <2> QED BY <1>1, <2>2 DEF ProgAt, OnFlash
<1> QED BY <1>2, <1>3

\* A write begins with a file that can be used.
LEMMA WriteTells ==
  ASSUME ProgInv, Doable, Aligned, NEW yes, Write(yes)
  PROVE  ProgAt(t', chip', got')
<1>1. UNCHANGED <<got, chip>> /\ t.pc = "write" /\ ProgAt(t, chip, got)
  BY ProgShapes DEF Write
<1>2. CASE ~FileUsable \/ ~yes
  BY <1>1, <1>2, ProgLeaves DEF Write
<1>3. CASE FileUsable /\ yes
  <2>1. t.seg = Goal /\ t.done = FALSE /\ got = <<>> /\ Awake(chip) /\ \A c \in Chips : chip[c].mode \in Modes
    BY <1>1 DEF ProgAt, OnFlash
  <2>2. Usable
    BY <1>3, <2>1 DEF FileUsable, Usable, ProgInv
  <2>3. Extent \in Nat /\ Lo \in Nat
    BY <2>2, ExtentWithin
  <2>4. PICK s : s = PerChip("erase", Lo, Extent) \o PerChip("write", Lo, Extent)
    OBVIOUS
  <2>5. Plan(s) /\ Len(s) = 2*N
    BY <2>3, <2>4, PlanBegins
  <2>6. Half(t.seg.start) = Lo /\ WriteLen = Extent
    BY <2>1, GoalIsWritten DEF Lo
  <2>7. t' = [t EXCEPT !.pc = "job", !.then = "written", !.jobs = s]
    BY <1>3, <2>4, <2>6 DEF Write
  <2>8. t'.pc = "job" /\ t'.then = "written" /\ t'.jobs = s /\ t'.done = t.done /\ t'.seg = t.seg
    BY <2>7, ProgShapes
  <2>9. Verified(s, chip)
    <3>1. \A c \in Chips : N \in Nat /\ c \in Nat /\ c >= 1 /\ N >= 1
      BY HowMany
    <3>2. \A c \in Chips : ~(2*N <= N - c) /\ 2*N # N - c + 1
      BY <3>1
    <3> QED BY <2>5, <3>2 DEF Verified
  <2> QED BY <1>1, <2>1, <2>2, <2>5, <2>8, <2>9 DEF ProgAt, OnFlash
<1> QED BY <1>2, <1>3

\* The next step of a job, or the next job.
LEMMA NextSegTells ==
  ASSUME ProgInv, Doable, Aligned, NextSeg
  PROVE  ProgAt(t', chip', got')
<1>1. UNCHANGED <<got, chip>> /\ t.pc = "job" /\ t.jobs # <<>>
  BY DEF NextSeg
<1>2. JobsIn(t.jobs) /\ Awake(chip) /\ JobIn(J) /\ JobFields \subseteq DOMAIN J
  BY <1>1, ProgBusy
<1>3. CASE J.remain = 0
  <2>1. t' = [t EXCEPT !.jobs = Tail(t.jobs)]
    BY <1>1, <1>3 DEF NextSeg
  <2>2. /\ t'.pc = "job" /\ t'.done = t.done /\ t'.seg = t.seg /\ t'.then = t.then
        /\ t'.jobs = Tail(t.jobs)
    BY <1>1, <2>1, ProgShapes
  <2>3. ASSUME t.then = "written" PROVE Plan(t'.jobs) /\ Verified(t'.jobs, chip)
    <3>1. Plan(t.jobs) /\ Verified(t.jobs, chip) /\ Usable
      BY <1>1, <2>3, ProgBusy
    <3>2. PICK n \in Nat \ {0} : n = Len(t.jobs)
      BY <1>1, <1>2, <3>1, PlanRest
    <3>3. PICK r : r = Tail(t.jobs)
      OBVIOUS
    <3>4. Plan(r) /\ Len(r) = n - 1 /\ (n > 1 => r[1].addr = Lo)
      BY <1>1, <1>2, <3>1, <3>2, <3>3, PlanRest
    <3>5. J.addr = Lo + Extent
      <4>1. Planned(J, n - 1)
        BY <1>1, <1>2, <3>1, <3>2, JobPlanned DEF J
      <4>2. J.addr \in Nat
        BY <1>2 DEF JobIn
      <4> QED BY <1>3, <4>1, <4>2 DEF Planned
    <3>6. ASSUME NEW c \in Chips
          PROVE  /\ Len(r) <= N - c => Holds(c, chip, Lo + Extent)
                 /\ Len(r) = N - c + 1 => Holds(c, chip, r[1].addr)
      <4>1. N \in Nat /\ c \in Nat /\ c >= 1 /\ c <= N
        BY <3>6, HowMany
      <4>2. /\ n <= N - c => Holds(c, chip, Lo + Extent)
            /\ n = N - c + 1 => Holds(c, chip, J.addr)
        BY <3>1, <3>2, <3>6 DEF Verified, J
      <4>3. n - 1 <= N - c => n <= N - c \/ n = N - c + 1
        BY <4>1
      <4>4. n - 1 = N - c + 1 => n > 1
        BY <4>1
      <4>5. Holds(c, chip, Lo)
        <5>1. Lo \in Nat
          BY <3>1, ExtentWithin
        <5>2. \A a \in Lo..Lo-1 : FALSE
          BY <5>1
        <5> QED BY <5>2 DEF Holds
      <4> QED BY <3>4, <3>5, <4>2, <4>3, <4>4, <4>5
    <3> QED BY <2>2, <3>3, <3>4, <3>6 DEF Verified
  <2> QED BY <1>1, <1>2, <2>2, <2>3, ProgWork
<1>4. CASE J.remain # 0
  <2>1. PICK n : n = SegLen(J.addr, J.remain, StepSize)
    OBVIOUS
  <2>2. PICK j : j = [J EXCEPT !.cur = J.addr, !.left = n]
    OBVIOUS
  <2>3. t' = WithJob(j)
    BY <1>1, <1>4, <2>1, <2>2 DEF NextSeg
  <2>4. j.c = J.c /\ j.op = J.op /\ j.base = J.base /\ j.addr = J.addr /\ j.remain = J.remain
    BY <1>2, <2>2 DEF JobFields
  <2>5. /\ t'.pc = "job" /\ t'.then = t.then /\ t'.done = t.done /\ t'.seg = t.seg
        /\ t'.jobs = <<j>> \o Tail(t.jobs)
    BY <1>1, <2>3, JobFieldsKept
  <2> QED BY <1>1, <1>2, <2>4, <2>5, JobGoesOn
<1> QED BY <1>3, <1>4

\* After the last job everything that was to be written is there.
LEMMA NextStageTells ==
  ASSUME ProgInv, Doable, Aligned, NextStage
  PROVE  ProgAt(t', chip', got')
<1>1. UNCHANGED <<got, chip>> /\ t.pc = "job" /\ t.jobs = <<>> /\ t' = [t EXCEPT !.pc = t.then]
  BY DEF NextStage, Goto
<1>2. t'.pc = t.then /\ t'.done = t.done /\ t'.seg = t.seg
  BY <1>1, ProgShapes
<1>3. /\ t.done = FALSE /\ got = <<>> /\ t.seg = Goal /\ Awake(chip) /\ t.then \in {"write", "written"}
      /\ t.then = "written" => Usable /\ Verified(t.jobs, chip)
  BY <1>1, ProgBusy
<1>4. t.then = "written" => There(chip)
  <2>1. Len(t.jobs) = 0
    BY <1>1
  <2>2. \A c \in Chips : 0 <= N - c
    BY HowMany
  <2> QED BY <1>3, <2>1, <2>2 DEF Verified, There
<1>5. \A c \in Chips : chip'[c].mode \in Modes
  BY <1>1, ProgShapes
<1> QED BY <1>1, <1>2, <1>3, <1>4, <1>5 DEF ProgAt, OnFlash

\* A job that fails ends the tool, which then claims nothing.
LEMMA JobFailsTells ==
  ASSUME ProgInv, Doable, Aligned, t.pc = "job", JobFails, UNCHANGED got
  PROVE  ProgAt(t', chip', got')
<1>1. t' = [t EXCEPT !.pc = "end", !.ret = -1]
  BY DEF JobFails, Quit
<1>2. t'.pc = "end" /\ t'.done = t.done /\ t'.seg = t.seg
  BY <1>1, ProgShapes
<1>3. PICK k : k = J.c
  OBVIOUS
<1>4. PICK d : d = Deselect(chip[k])
  OBVIOUS
<1>5. chip' = [chip EXCEPT ![k] = d]
  BY <1>3, <1>4 DEF JobFails
<1>6. ASSUME NEW c \in Chips PROVE chip'[c].mode \in Modes
  <2>1. "mode" \in DOMAIN chip[c] /\ chip[c].mode \in Modes /\ DOMAIN chip = Chips
    BY <1>6, ProgShapes DEF IsChip
  <2>2. CASE c = k
    <3>1. d.mode \in Modes
      BY <1>4, <2>1, <2>2 DEF Deselect, Modes
    <3> QED BY <1>5, <2>1, <2>2, <3>1
  <2>3. CASE c # k
    BY <1>5, <2>1, <2>3
  <2> QED BY <2>2, <2>3
<1>7. t.done = FALSE
  BY ProgBusy
<1> QED BY <1>2, <1>6, <1>7, ProgRest DEF OnFlash

\* A command leaves the other chips alone, and its own readable.
LEMMA CommandTells ==
  ASSUME ProgInv, Doable, Aligned, Issue, NEW ch, Command(ch), t' = [t EXCEPT !.sub = "wait"], UNCHANGED got,
         J.c \in Chips => /\ {"mode", "mem"} \subseteq DOMAIN ch /\ ch.mode \in {chip[J.c].mode, "status"}
                          /\ (t.then = "written" => Verified(t.jobs, [chip EXCEPT ![J.c] = ch]))
  PROVE  ProgAt(t', chip', got')
<1>1. t.pc = "job" /\ t.jobs # <<>>
  BY DEF Issue
<1>2. PICK k : k = J.c
  OBVIOUS
<1>3. PICK d : d = [ch EXCEPT !.busy = TRUE]
  OBVIOUS
<1>4. chip' = [chip EXCEPT ![k] = IF chip[k].busy THEN chip[k] ELSE d]
  BY <1>2, <1>3 DEF Command
<1>5. DOMAIN chip = Chips /\ \A c \in Chips : c # k => chip'[c] = chip[c]
  BY <1>4, ProgShapes
<1>6. t'.pc = "job" /\ t'.done = t.done /\ t'.seg = t.seg /\ t'.then = t.then /\ t'.jobs = t.jobs
  BY <1>1, ProgShapes
<1>7. /\ Awake(chip)
      /\ t.then = "written" => Plan(t.jobs) /\ Verified(t.jobs, chip)
  BY <1>1, ProgBusy
<1>8. CASE k \notin Chips \/ chip[k].busy
  <2>1. \A c \in Chips : chip'[c] = chip[c]
    BY <1>4, <1>5, <1>8
  <2>2. Awake(chip')
    BY <1>7, <2>1 DEF Awake
  <2>3. \A c \in Chips : chip'[c].mem = chip[c].mem
    BY <2>1
  <2>4. t.then = "written" => Verified(t.jobs, chip')
    BY <1>7, <2>3, SameCells
  <2> QED BY <1>1, <1>6, <1>7, <2>2, <2>4, ProgWork
<1>9. CASE k \in Chips /\ ~chip[k].busy
  <2>1. chip'[k] = d
    BY <1>4, <1>5, <1>9
  <2>2. d.mem = ch.mem /\ d.mode = ch.mode
    BY <1>2, <1>3, <1>9
  <2>3. ASSUME NEW c \in Chips PROVE chip'[c].mode \in {"array", "status"}
    <3>1. chip[c].mode \in {"array", "status"}
      BY <1>7, <2>3 DEF Awake
    <3> QED BY <1>2, <1>5, <1>9, <2>1, <2>2, <3>1
  <2>4. PICK x : x = [chip EXCEPT ![k] = ch]
    OBVIOUS
  <2>5. \A c \in Chips : chip'[c].mem = x[c].mem
    BY <1>5, <1>9, <2>1, <2>2, <2>4
  <2>6. t.then = "written" => Verified(t.jobs, x)
    BY <1>2, <1>9, <2>4
  <2>7. t.then = "written" => Verified(t.jobs, chip')
    BY <2>5, <2>6, SameCells
  <2>8. Awake(chip')
    BY <2>3 DEF Awake
  <2> QED BY <1>1, <1>6, <1>7, <2>7, <2>8, ProgWork
<1>10. chip[k].busy \in BOOLEAN \/ k \notin Chips
  BY ProgShapes DEF IsChip
<1> QED BY <1>8, <1>9, <1>10


\* An erase command: nothing is claimed of a chip that is erased.
LEMMA IssueEraseTells ==
  ASSUME ProgInv, Doable, Aligned, NEW ok, IssueErase(ok)
  PROVE  ProgAt(t', chip', got')
<1>1. UNCHANGED got /\ Issue /\ J.op = "erase" /\ t.pc = "job" /\ t.jobs # <<>>
  BY DEF IssueErase, Issue
<1>2. PICK b : b = EraseBlock(J.cur, J.left)
  OBVIOUS
<1>3. CASE b = 0
  BY <1>1, <1>2, <1>3, JobFailsTells DEF IssueErase
<1>4. CASE b # 0
  <2>1. PICK ch : ch = SectorErase(chip[J.c], J.cur, b, ok)
    OBVIOUS
  <2>2. Command(ch) /\ t' = [t EXCEPT !.sub = "wait"]
    BY <1>2, <1>4, <2>1 DEF IssueErase
  <2>3. ASSUME J.c \in Chips
        PROVE  {"mode", "mem"} \subseteq DOMAIN ch /\ ch.mode \in {chip[J.c].mode, "status"}
    <3>1. IsChip(chip[J.c]) /\ Spared(chip[J.c]) /\ set \in Setups /\ IntactInv /\ SlotThere
      BY <2>3, ProgShapes
    <3>2. ch.mode \in {chip[J.c].mode, "status"}
      BY <2>1, <3>1, EraseEffect
    <3>3. Spared(ch)
      <4>1. JobIn(J) /\ Lo \in Nat /\ Hi \in Nat
        BY <1>1, <3>1, FirstInside
      <4>2. PICK a \in Nat, n \in Nat : a = J.cur /\ n = J.left
        BY <4>1 DEF JobIn
      <4>3. b \in 0..n
        BY <1>2, <4>2, BlockWithin
      <4>4. Lo <= a /\ a + b <= Hi
        BY <4>1, <4>2, <4>3 DEF JobIn
      <4> QED BY <2>1, <3>1, <4>1, <4>2, <4>3, <4>4, SectorSpares
    <3>4. DOMAIN ch = DOMAIN chip[J.c]
      BY <2>1, <3>1, EraseFields
    <3> QED BY <3>1, <3>2, <3>3, <3>4 DEF IsChip, Spared
  <2>4. ASSUME t.then = "written" PROVE \A x : Verified(t.jobs, x)
    <3>1. JobsIn(t.jobs) /\ Plan(t.jobs)
      BY <1>1, <2>4, ProgBusy
    <3>2. PICK n \in Nat : n = Len(t.jobs) /\ n > N
      BY <1>1, <3>1, JobPlanned, HowMany DEF J
    <3>3. \A c \in Chips : ~(n <= N - c) /\ n # N - c + 1
      BY <3>2, HowMany
    <3> QED BY <3>2, <3>3 DEF Verified
  <2> QED BY <1>1, <2>2, <2>3, <2>4, CommandTells
<1> QED BY <1>3, <1>4

\* A program command: the bytes before it, which were read back, stay.
LEMMA IssueProgramTells ==
  ASSUME ProgInv, Doable, Aligned, Loadable, NEW ok, IssueProgram(ok)
  PROVE  ProgAt(t', chip', got')
<1>1. /\ UNCHANGED got /\ Issue /\ J.op = "write" /\ t.pc = "job" /\ t.jobs # <<>>
      /\ t' = [t EXCEPT !.sub = "wait"]
  BY DEF IssueProgram, Issue
<1>2. JobIn(J) /\ JobsIn(t.jobs)
  BY <1>1, ProgBusy
<1>3. PICK a \in Nat, n \in Nat : a = J.cur /\ n = J.left
  BY <1>2 DEF JobIn
<1>4. PICK p \in Nat \ {0} : /\ p = IF set.kind = "bpi" THEN WBUF ELSE PAGE
                             /\ ProgramLen(a, n) \in 0..n /\ ProgramLen(a, n) <= p - (a % p)
  BY PageWithin
<1>5. PICK l \in Nat : l = ProgramLen(a, n) /\ l <= n /\ l <= p - (a % p)
  BY <1>4
<1>6. PICK k, buf, base : k = J.c /\ buf = Buffer(k) /\ base = J.base
  OBVIOUS
<1>7. PICK ch : ch = Program(chip[k], a, l, buf, base, ok)
  OBVIOUS
<1>8. Command(ch)
  BY <1>3, <1>5, <1>6, <1>7 DEF IssueProgram
<1>9. ASSUME k \in Chips
      PROVE  {"mode", "mem"} \subseteq DOMAIN ch /\ ch.mode \in {chip[k].mode, "status"}
  <2>1. IsChip(chip[k]) /\ Spared(chip[k]) /\ set \in Setups /\ IntactInv /\ SlotThere
    BY <1>9, ProgShapes
  <2>2. DOMAIN ch = DOMAIN chip[k] /\ "mem" \in DOMAIN chip[k]
    BY <1>7, <2>1, ProgramFields DEF Spared
  <2>3. Lo \in Nat /\ Hi \in Nat /\ Lo <= a /\ a + l <= Hi
    BY <1>1, <1>2, <1>3, <1>5, <2>1, FirstInside DEF JobIn
  <2>4. Spared(ch)
    BY <1>4, <1>5, <1>7, <2>1, <2>3, PageSpares
  <2>5. ch.mode \in {chip[k].mode, "status"}
    BY <1>7, <2>1, <2>2, ProgramEffect
  <2> QED BY <2>1, <2>2, <2>4, <2>5 DEF IsChip, Spared
<1>10. ASSUME k \in Chips, t.then = "written"
       PROVE  Verified(t.jobs, [chip EXCEPT ![k] = ch])
  <2>1. Usable /\ Plan(t.jobs) /\ Verified(t.jobs, chip)
    BY <1>1, <1>10, ProgBusy
  <2>2. PICK m : m = Len(t.jobs)
    OBVIOUS
  <2>3. m \in Nat /\ m = N - k + 1 /\ Planned(J, m - 1)
    BY <1>1, <1>2, <1>6, <2>1, <2>2, JobPlanned, HowMany DEF J
  <2>4. PICK x : x = [chip EXCEPT ![k] = ch]
    OBVIOUS
  <2>5. x[k] = ch /\ \A c \in Chips : c # k => x[c] = chip[c]
    BY <1>10, <2>4, ProgShapes
  <2>6. Holds(k, chip, J.addr)
    BY <1>10, <2>1, <2>2, <2>3 DEF Verified, J
  <2>7. Holds(k, x, J.addr)
    <3>1. PICK lo \in Nat, e \in Nat : lo = Lo /\ e = Extent
      BY <2>1, ExtentWithin
    <3>2. PICK f \in Nat, r \in Nat : f = J.addr /\ r = J.remain /\ f + r = lo + e /\ f <= a
      BY <1>2, <1>3, <2>3, <3>1 DEF JobIn, Planned
    <3>3. ASSUME NEW y \in lo..f-1 PROVE ch.mem[y] = chip[k].mem[y]
      <4>1. y \in Lo..(Lo+Extent)-1 /\ y < a /\ y \in Int
        BY <3>1, <3>2
      <4>2. y \in 0..ChipSize-1 /\ y - Lo \in 0..Half(Goal.len)-1
        BY <2>1, <4>1, CellsThere
      <4>3. PICK v, w : Want(k)[y - Lo] = <<v, w>>
        BY <2>1, <4>2, WantBytes
      <4>4. chip[k].mem[y] = <<v, w>>
        BY <2>6, <3>1, <3>2, <4>3 DEF Holds
      <4>5. IsChip(chip[k]) /\ "mem" \in DOMAIN chip[k] /\ y \in DOMAIN chip[k].mem /\ set \in Setups
        BY <1>10, <4>2, ProgShapes DEF Spared
      <4>6. PICK cc : cc = chip[k]
        OBVIOUS
      <4>7. "mem" \in DOMAIN cc /\ y \in DOMAIN cc.mem /\ cc.mem[y] = <<v, w>> /\ y \in Int /\ y < a
        BY <4>1, <4>4, <4>5, <4>6
      <4>8. ProgramAt(cc, a, l, buf, base).mem[y] = cc.mem[y]
        BY <1>4, <1>5, <4>7, ProgramBelow
      <4>9. ch.mem \in {cc.mem, ProgramAt(cc, a, l, buf, base).mem}
        BY <1>7, <4>5, <4>6, ProgramEffect
      <4> QED BY <4>6, <4>8, <4>9
    <3> QED BY <2>5, <2>6, <3>1, <3>2, <3>3 DEF Holds
  <2>8. ASSUME NEW c \in Chips
        PROVE  /\ m <= N - c => Holds(c, x, Lo + Extent)
               /\ m = N - c + 1 => Holds(c, x, t.jobs[1].addr)
    <3>1. c \in Nat /\ k \in Nat /\ N \in Nat
      BY <1>10, <2>8, HowMany
    <3>2. CASE c = k
      <4>1. ~(m <= N - c)
        BY <2>3, <3>1, <3>2
      <4> QED BY <2>7, <3>2, <4>1 DEF J
    <3>3. CASE c # k
      <4>1. m # N - c + 1
        BY <2>3, <3>1, <3>3
      <4>2. m <= N - c => Holds(c, chip, Lo + Extent)
        BY <2>1, <2>2, <2>8 DEF Verified
      <4>3. \A to : Holds(c, chip, to) => Holds(c, x, to)
        BY <2>5, <2>8, <3>3 DEF Holds
      <4> QED BY <4>1, <4>2, <4>3
    <3> QED BY <3>2, <3>3
  <2> QED BY <2>2, <2>4, <2>8 DEF Verified
<1> QED BY <1>1, <1>6, <1>8, <1>9, <1>10, CommandTells

\* An operation is over.
LEMMA WaitTells ==
  ASSUME ProgInv, Doable, Aligned, Wait
  PROVE  ProgAt(t', chip', got')
<1>1. UNCHANGED got /\ t.pc = "job" /\ t.sub = "wait"
  BY DEF Wait
<1>2. t.jobs # <<>> /\ JobIn(J) /\ JobFields \subseteq DOMAIN J /\ Awake(chip)
  <2>1. t.jobs # <<>>
    BY <1>1, ProgShapes, IntactShapes
  <2> QED BY <1>1, <2>1, ProgBusy
<1>3. PICK n : n = IF J.op = "erase" THEN EraseBlock(J.cur, J.left) ELSE ProgramLen(J.cur, J.left)
  OBVIOUS
<1>4. PICK j : j = [J EXCEPT !.cur = @ + n, !.left = @ - n]
  OBVIOUS
<1>5. PICK a \in Nat, r \in Nat, cu \in Nat, l \in Nat :
        a = J.addr /\ r = J.remain /\ cu = J.cur /\ l = J.left
  BY <1>2 DEF JobIn
<1>6. n \in 0..l
  BY <1>3, <1>5, BlockWithin, PageWithin
<1>7. /\ JobFields \subseteq DOMAIN j /\ j.c = J.c /\ j.op = J.op /\ j.base = J.base
      /\ j.addr = a /\ j.remain = r /\ j.cur = cu + n /\ j.left = l - n
  BY <1>2, <1>4, <1>5 DEF JobFields
<1>8. CASE chip[J.c].err
  BY <1>1, <1>8, JobFailsTells DEF Wait
<1>9. CASE ~chip[J.c].err /\ j.left > 0
  <2>1. chip' = chip /\ t' = [WithJob(j) EXCEPT !.sub = "issue"]
    BY <1>3, <1>4, <1>9 DEF Wait
  <2>2. PICK e : e = WithJob(j)
    OBVIOUS
  <2>3. t' = [e EXCEPT !.sub = "issue"]
    BY <2>1, <2>2
  <2>4. /\ t'.pc = "job" /\ t'.then = t.then /\ t'.done = t.done /\ t'.seg = t.seg
        /\ t'.jobs = <<j>> \o Tail(t.jobs)
    BY <1>1, <2>2, <2>3, JobFieldsKept
  <2> QED BY <1>1, <1>2, <1>5, <1>7, <2>1, <2>4, JobGoesOn
<1>10. CASE ~chip[J.c].err /\ ~(j.left > 0)
  <2>1. PICK k : k = J.c
    OBVIOUS
  <2>2. PICK d : d = Deselect(chip[k])
    OBVIOUS
  <2>3. chip' = [chip EXCEPT ![k] = d]
    BY <1>3, <1>4, <1>10, <2>1, <2>2 DEF Wait
  <2>4. ASSUME NEW c \in Chips
        PROVE  chip'[c].mem = chip[c].mem /\ chip'[c].mode \in {"array", "status"}
    <3>1. /\ {"mode", "mem"} \subseteq DOMAIN chip[c] /\ DOMAIN chip = Chips
          /\ chip[c].mode \in {"array", "status"}
      BY <1>2, <2>4, ProgShapes DEF IsChip, Spared, Awake
    <3>2. CASE c = k
      <4>1. d.mem = chip[c].mem /\ d.mode \in {"array", "status"}
        BY <2>2, <3>1, <3>2 DEF Deselect
      <4> QED BY <2>3, <3>1, <3>2, <4>1
    <3>3. CASE c # k
      BY <2>3, <3>1, <3>3
    <3> QED BY <3>2, <3>3
  <2>5. Awake(chip') /\ \A c \in Chips : chip'[c].mem = chip[c].mem
    BY <2>4 DEF Awake
  <2>6. CASE J.op = "erase"
    <3>1. PICK z : z = SegOf(J)
      OBVIOUS
    <3>2. PICK i : i = [j EXCEPT !.addr = j.cur, !.remain = @ - z]
      OBVIOUS
    <3>3. PICK e : e = WithJob(i)
      OBVIOUS
    <3>4. t' = [e EXCEPT !.sub = "issue"]
      BY <1>3, <1>4, <1>10, <2>6, <3>1, <3>2, <3>3 DEF Wait
    <3>5. /\ i.c = J.c /\ i.op = J.op /\ i.base = J.base /\ i.addr = cu + n /\ i.remain = r - z
      BY <1>7, <3>2 DEF JobFields
    <3>6. z = (cu - a) + l /\ n = l
      BY <1>5, <1>6, <1>7, <1>10, <3>1 DEF SegOf
    <3>7. i.addr + i.remain = J.addr + J.remain
      BY <1>5, <3>5, <3>6
    <3>8. /\ t'.pc = "job" /\ t'.then = t.then /\ t'.done = t.done /\ t'.seg = t.seg
          /\ t'.jobs = <<i>> \o Tail(t.jobs)
      BY <1>1, <3>3, <3>4, JobFieldsKept
    <3> QED BY <1>1, <1>2, <2>5, <2>6, <3>5, <3>7, <3>8, JobGoesOn
  <2>7. CASE J.op # "erase"
    <3>1. PICK e : e = WithJob(j)
      OBVIOUS
    <3>2. t' = [e EXCEPT !.sub = "verify", !.tries = 3]
      BY <1>3, <1>4, <1>10, <2>7, <3>1 DEF Wait
    <3>3. /\ t'.pc = "job" /\ t'.then = t.then /\ t'.done = t.done /\ t'.seg = t.seg
          /\ t'.jobs = <<j>> \o Tail(t.jobs)
      BY <1>1, <3>1, <3>2, JobFieldsKept
    <3> QED BY <1>1, <1>2, <1>5, <1>7, <2>5, <3>3, JobGoesOn
  <2> QED BY <2>6, <2>7
<1> QED BY <1>8, <1>9, <1>10

\* What reads back is there.
LEMMA VerifyTells ==
  ASSUME ProgInv, Doable, Aligned, NEW flaky, Verify(flaky)
  PROVE  ProgAt(t', chip', got')
<1>1. UNCHANGED got /\ t.pc = "job" /\ t.sub = "verify"
  BY DEF Verify
<1>2. /\ t.jobs # <<>> /\ J.left = 0 /\ \A c \in Chips : chip[c].busy = FALSE
  BY <1>1, ProgShapes, IntactShapes, AtWork DEF J
<1>3. JobIn(J) /\ JobFields \subseteq DOMAIN J /\ Awake(chip) /\ t.seg = Goal /\ JobsIn(t.jobs)
  BY <1>1, <1>2, ProgBusy
<1>4. CASE JobFails
  BY <1>1, <1>4, JobFailsTells
<1>5. CASE chip' = chip /\ t' = [t EXCEPT !.tries = @ - 1]
  <2>1. t'.pc = "job" /\ t'.done = t.done /\ t'.seg = t.seg /\ t'.then = t.then /\ t'.jobs = t.jobs
    BY <1>1, <1>5, ProgShapes
  <2>2. t.then = "written" => Plan(t.jobs) /\ Verified(t.jobs, chip)
    BY <1>1, ProgBusy
  <2> QED BY <1>1, <1>3, <1>5, <2>1, <2>2, ProgWork
<1>6. CASE /\ chip' = chip /\ Matches(J)
           /\ t' = [WithJob([J EXCEPT !.addr = J.cur, !.remain = @ - SegOf(J)]) EXCEPT !.sub = "issue"]
  <2>1. PICK z : z = SegOf(J)
    OBVIOUS
  <2>2. PICK i : i = [J EXCEPT !.addr = J.cur, !.remain = @ - z]
    OBVIOUS
  <2>3. PICK e : e = WithJob(i)
    OBVIOUS
  <2>4. t' = [e EXCEPT !.sub = "issue"]
    BY <1>6, <2>1, <2>2, <2>3
  <2>5. PICK a \in Nat, r \in Nat, cu \in Nat : a = J.addr /\ r = J.remain /\ cu = J.cur /\ a <= cu
    BY <1>3 DEF JobIn
  <2>6. i.c = J.c /\ i.op = J.op /\ i.base = J.base /\ i.addr = cu /\ i.remain = r - z
    BY <1>3, <2>2, <2>5 DEF JobFields
  <2>7. z = (cu - a) + 0
    BY <1>2, <2>1, <2>5 DEF SegOf
  <2>8. i.addr + i.remain = J.addr + J.remain
    BY <2>5, <2>6, <2>7
  <2>9. /\ t'.pc = "job" /\ t'.then = t.then /\ t'.done = t.done /\ t'.seg = t.seg
        /\ t'.jobs = <<i>> \o Tail(t.jobs)
    BY <1>1, <2>3, <2>4, JobFieldsKept
  <2>10. ASSUME t.then = "written", J.op = "write" PROVE Holds(J.c, chip, cu)
    <3>1. Usable /\ Plan(t.jobs) /\ Verified(t.jobs, chip)
      BY <1>1, <2>10, ProgBusy
    <3>2. PICK m : m = Len(t.jobs)
      OBVIOUS
    <3>3. m = N - J.c + 1 /\ Planned(J, m - 1) /\ J.c \in Chips
      BY <1>2, <1>3, <2>10, <3>1, <3>2, JobPlanned DEF J
    <3>4. Holds(J.c, chip, a)
      BY <2>5, <3>1, <3>2, <3>3 DEF Verified, J
    <3>5. PICK lo \in Nat : lo = Lo
      BY <3>1, ExtentWithin
    <3>6. J.base = lo /\ Buffer(J.c) = Want(J.c)
      BY <1>3, <3>3, <3>5, GoalIsWritten DEF Planned
    <3>7. \A x : FlashRead(chip[J.c], x) = chip[J.c].mem[x]
      BY <1>2, <1>3, <3>3 DEF FlashRead, spi_flash_read, bpi_flash_read, Awake
    <3>8. \A x \in a..cu-1 : chip[J.c].mem[x] = Want(J.c)[x - lo]
      BY <1>6, <2>5, <3>6, <3>7 DEF Matches
    <3>9. \A x \in lo..a-1 : chip[J.c].mem[x] = Want(J.c)[x - lo]
      BY <3>4, <3>5 DEF Holds
    <3>10. \A x \in lo..cu-1 : x \in lo..a-1 \/ x \in a..cu-1
      BY <2>5, <3>5
    <3> QED BY <3>5, <3>8, <3>9, <3>10 DEF Holds
  <2> QED BY <1>1, <1>2, <1>3, <1>6, <2>6, <2>8, <2>9, <2>10, JobGoesOn
<1> QED BY <1>4, <1>5, <1>6 DEF Verify

\* A chip finishes what it was told.
LEMMA ChipDoneTells ==
  ASSUME ProgInv, Doable, NEW k \in Chips, ChipDone(k)
  PROVE  ProgAt(t', chip', got')
<1>1. UNCHANGED <<t, got>> /\ ProgAt(t, chip, got) /\ chip[k].busy
  BY ProgShapes DEF ChipDone
<1>2. PICK d : d = [chip[k] EXCEPT !.busy = FALSE]
  OBVIOUS
<1>3. chip' = [chip EXCEPT ![k] = d]
  BY <1>2 DEF ChipDone
<1>4. ASSUME NEW c \in Chips PROVE chip'[c].mode = chip[c].mode /\ chip'[c].mem = chip[c].mem
  <2>1. {"mode", "mem"} \subseteq DOMAIN chip[c] /\ DOMAIN chip = Chips
    BY <1>4, ProgShapes DEF IsChip, Spared
  <2>2. CASE c = k
    <3>1. d.mode = chip[c].mode /\ d.mem = chip[c].mem
      BY <1>2, <2>1, <2>2
    <3> QED BY <1>3, <2>1, <2>2, <3>1
  <2>3. CASE c # k
    BY <1>3, <2>1, <2>3
  <2> QED BY <2>2, <2>3
<1>5. t.done = FALSE \/ ~t.done
  <2>1. t.done => chip[k].busy = FALSE
    BY <1>1 DEF ProgAt
  <2> QED BY <1>1, <2>1
<1>6. Awake(chip) => Awake(chip')
  BY <1>4 DEF Awake
<1>7. /\ There(chip) => There(chip')
      /\ \A s : Verified(s, chip) => Verified(s, chip')
  BY <1>4, SameCells
<1> QED BY <1>1, <1>4, <1>5, <1>6, <1>7 DEF ProgAt

\* A kill: the next run starts from scratch.
LEMMA KillTells ==
  ASSUME ProgInv, Doable, Aligned, Kill
  PROVE  ProgAt(t', chip', got')
<1>1. UNCHANGED got /\ t' = FwStart /\ t.pc = "job"
  BY DEF Kill
<1>2. t'.pc = "open" /\ t'.done = FALSE
  BY <1>1 DEF FwStart
<1>3. got = <<>>
  BY <1>1, ProgBusy
<1>4. chip' = [c \in Chips |-> [chip[c] EXCEPT !.busy = FALSE,
                 !.mode = IF set.ops = "amd" /\ t.sub = "wait" THEN "abort" ELSE @]]
  BY DEF Kill
<1>5. ASSUME NEW c \in Chips PROVE chip'[c].mode \in Modes
  <2>1. PICK d : d = chip'[c]
    OBVIOUS
  <2>2. "mode" \in DOMAIN chip[c] /\ chip[c].mode \in Modes
    BY <1>5, ProgShapes DEF IsChip
  <2>3. d = [chip[c] EXCEPT !.busy = FALSE,
               !.mode = IF set.ops = "amd" /\ t.sub = "wait" THEN "abort" ELSE @]
    BY <1>4, <1>5, <2>1
  <2>4. d.mode \in Modes
    BY <2>2, <2>3 DEF Modes
  <2> QED BY <2>1, <2>4
<1> QED BY <1>1, <1>2, <1>3, <1>5 DEF ProgAt

\* Every step of a tool that can write keeps what is claimed.
LEMMA ProgKeeps ==
  ASSUME ProgInv, Doable, Aligned, Loadable, [FlashNext]_flashVars
  PROVE  ProgAt(t', chip', got')
<1>1. CASE Kill
  BY <1>1, KillTells
<1>2. CASE FpgaUp \/ UNCHANGED flashVars
  <2>1. UNCHANGED <<t, chip, got>>
    BY <1>2 DEF FpgaUp, flashVars
  <2> QED BY <2>1, ProgShapes
<1>3. CASE \E c \in Chips : ChipDone(c)
  BY <1>3, ChipDoneTells
<1>4. CASE FwTool
  <2>1. CASE SkipStage \/ Written \/ NextSeg \/ NextStage \/ Wait \/ ReadSegment
    BY <2>1, SkipStageTells, WrittenTells, NextSegTells, NextStageTells, WaitTells, ReadSegmentTells
  <2>2. CASE NotEnabled
    BY <2>2, JobFailsTells DEF NotEnabled, Issue
  <2>3. ASSUME NEW b \in BOOLEAN,
               Open(b) \/ Erase(b) \/ Write(b) \/ IssueErase(b) \/ IssueProgram(b) \/ Verify(b)
        PROVE  ProgAt(t', chip', got')
    BY <2>3, OpenTells, EraseTells, WriteTells, IssueEraseTells, IssueProgramTells, VerifyTells
  <2>4. CASE SkipFlash \/ Disconnect \/ (\E b \in BOOLEAN : Prepare(b) \/ Boot(b) \/ Iprog(b) \/ Remove(b) \/ Rescan(b))
    BY <2>4, ResetTells
  <2> QED BY <1>4, <2>1, <2>2, <2>3, <2>4 DEF FwTool
<1> QED BY <1>1, <1>2, <1>3, <1>4 DEF FlashNext

\* The invariant says what is claimed of a write.
LEMMA ProgEnough ==
  ASSUME ProgInv, Aligned, Loadable
  PROVE  Programmed
<1> SUFFICES ASSUME t.done, NEW k \in 0..file.len-1
             PROVE  ReadBack[k] = FileByte(k) /\ (got # <<>> => got[1][k] = FileByte(k))
  BY DEF Programmed
<1>1. Doable
  BY DEF ProgInv, ProgIdle
<1>2. ProgAt(t, chip, got)
  BY <1>1, ProgShapes
<1>3. /\ Usable /\ t.seg = Goal /\ There(chip) /\ Awake(chip)
      /\ \A c \in Chips : chip[c].busy = FALSE
      /\ got # <<>> => got[1][k] = FileByte(k)
  BY <1>2 DEF ProgAt
<1> QED BY <1>1, <1>3, ReadsBack

\* For every build, geometry, image, number of silent failures and of kills:
\* when mqnic-fw.c says that programming succeeded, every byte of the image reads
\* back from the segment, through the bit reversal of a parallel flash or the
\* split over two chips, and so does the file that was read from it.
THEOREM ImageThere ==
  ASSUME Aligned, Loadable
  PROVE  FlashSpec => []Programmed
<1>1. ASSUME ProgInv, [FlashNext]_flashVars
      PROVE  ProgInv'
  <2>1. IntactInv'
    BY <1>1, IntactStep DEF ProgInv
  <2>2. opt.write => FlashInv'
    BY <1>1, FlashStep DEF ProgInv
  <2>3. UNCHANGED <<set, opt, file>>
    BY <1>1, SettingsStay
  <2>4. {"pc", "then", "done"} \subseteq DOMAIN t'
    BY <1>1, ProgFields DEF ProgInv
  <2>5. Doable => ProgAt(t', chip', got')
    BY <1>1, ProgKeeps
  <2>6. ~Doable => ProgIdle(t')
    BY <1>1, ProgStaysIdle
  <2> QED BY <1>1, <2>1, <2>2, <2>3, <2>4, <2>5, <2>6, ProgMoves
<1> QED BY <1>1, ProgStarts, ProgEnough, PTL DEF FlashSpec


---------------------------------------------------------------------------
(* Transceiver: an eye scan.  The tool's place on the grid, the registers  *)
(* and the points written so far go together.                              *)

\* Rows and columns of the grid, and signs measured at each of its points.
NV == (2*V_STOP) \div GRID_STEP + 1
NH == (2*H_STOP) \div GRID_STEP + 1
Signs(p) == IF p.dfe_en THEN 2 ELSE 1
HalfWidth == IF family = "gthe3" THEN 40 ELSE 80

\* The sampler's fields, and the widths a channel of this build may have.
Sampler == {"dw", "idw", "mask", "prescale", "horz", "neg_dir", "vs_code", "ut_sign", "rx_pma_reset"}
IntWidths == {16 * 2^IDW, 20 * 2^IDW}
Spots == [h : Int, v : Int, ut : {0, 1}]
Spot(p) == [h |-> p.h, v |-> p.v, ut |-> p.ut]
PointRec == [x : Int, y : Int, ut : {0, 1}, at : Spots]
PrivRec == [running : BOOLEAN, dfe_en : BOOLEAN, width : Int, prescale : Int, h : Int, v : Int, ut : {0, 1}]
ThreadRec ==
  [pc : {"preset", "start", "scan", "done", "failed", "end"}, ch : Channels, tries : Int, done : BOOLEAN]

ScanType ==
  /\ thread \in ThreadRec
  /\ xopt.mask \subseteq Channels /\ target \in Int
  /\ DOMAIN meas = Channels /\ priv \in [Channels -> PrivRec] /\ points \in [Channels -> Seq(PointRec)]
  /\ \A c \in Channels : /\ Sampler \subseteq DOMAIN reg[c]
                         /\ reg[c].dw \in RawWidths /\ reg[c].idw = IDW

\* A point that was written: the i-th of the grid, measured there.
PointOk(s, q, i) ==
  /\ [x |-> q.x, y |-> q.y, ut |-> q.ut] = Grid(s)[i]
  /\ q.at = [h |-> q.x, v |-> q.y, ut |-> q.ut]

\* The tool stands at the point after the n that are written.
Standing(p, n) ==
  \E a \in 0..NH-1, b \in 0..NV-1 :
    /\ p.h = -H_STOP + GRID_STEP * a /\ p.v = -V_STOP + GRID_STEP * b
    /\ p.ut < Signs(p) /\ n = (a * NV + b) * Signs(p) + p.ut

\* A channel whose scan has started: what it was set up with, what is written, and
\* where tool, registers and measurement are.
SetUp(p, r) ==
  /\ p.dfe_en = ~r.rx_lpm_en /\ p.width = int_data_width(r)
  /\ r.mask = SdataMask(HalfWidth, p.width)
  /\ p.prescale \in 0..MaxPrescale /\ Bits(p.width, p.prescale) >= TARGET
  /\ r.prescale = p.prescale
Scanned(p, r, at, pts) ==
  /\ SetUp(p, r)
  /\ \A i \in 1..Len(pts) : PointOk(Signs(p), pts[i], i)
  /\ IF p.running THEN Standing(p, Len(pts)) /\ Place(r) = Spot(p) /\ at = Spot(p)
     ELSE Len(pts) = NH * NV * Signs(p)

Begun(c) ==
  /\ c \in xopt.mask
  /\ \/ thread.pc = "start" /\ c < thread.ch
     \/ thread.pc \in {"scan", "done"}
\* Any other channel: only a tool that has failed leaves one running.
Fallow(p, r, pts) == pts = <<>> /\ (p.running => thread.pc = "failed" /\ SetUp(p, r))
ChannelsInv ==
  \A c \in Channels :
    IF Begun(c) THEN Scanned(priv[c], reg[c], meas[c], points[c])
    ELSE Fallow(priv[c], reg[c], points[c])
Unwritten == thread.pc = "start" => \A c \in Channels : points[c] = <<>>

\* While no channel of the round had anything to report none before this one is running.
RoundInv ==
  /\ thread.pc = "scan" /\ thread.done =>
       \A c \in xopt.mask : c < thread.ch => ~priv[c].running
  /\ thread.pc \in {"preset", "start"} => thread.done
  /\ thread.pc = "done" => \A c \in xopt.mask : ~priv[c].running

\* The target grows by less than one step of the prescaler from channel to channel.
Reached(goal, ch, w) ==
  \/ goal = TARGET
  \/ \E v \in IntWidths, p \in Nat :
       /\ goal = Bits(v, p) /\ goal >= TARGET
       /\ \/ p <= MaxPrescale - 4 + ch
          \/ p <= MaxPrescale - 3 + ch /\ v = w
TargetInv ==
  /\ thread.pc = "preset" => target = TARGET
  /\ thread.pc = "start" => Reached(target, thread.ch, int_data_width(reg[thread.ch]))

ScanInv == ScanType /\ ChannelsInv /\ Unwritten /\ RoundInv /\ TargetInv

---------------------------------------------------------------------------
\* The sizes of the grid.
LEMMA GridSizes ==
  /\ NV \in Nat \ {0} /\ NH \in Nat \ {0}
  /\ 2*V_STOP = GRID_STEP * (NV - 1) /\ 2*H_STOP = GRID_STEP * (NH - 1)
<1>1. /\ GRID_STEP \in Nat \ {0} /\ H_STOP \in Nat /\ V_STOP \in Nat
      /\ (2*H_STOP) % GRID_STEP = 0 /\ (2*V_STOP) % GRID_STEP = 0
  BY TransceiverAssumption
<1>2. ASSUME NEW x \in Nat, x % GRID_STEP = 0
      PROVE  x \div GRID_STEP \in Nat /\ x = GRID_STEP * (x \div GRID_STEP)
  <2>1. x = GRID_STEP * (x \div GRID_STEP) + (x % GRID_STEP) /\ x \div GRID_STEP \in Int
    BY <1>1
  <2>2. x \div GRID_STEP >= 0
    BY <1>1
  <2> QED BY <1>1, <1>2, <2>1, <2>2
<1>3. 2*V_STOP \in Nat /\ 2*H_STOP \in Nat
  BY <1>1
<1> QED BY <1>1, <1>2, <1>3 DEF NV, NH

\* Quotient and remainder of a number written as one.
LEMMA Quotient ==
  ASSUME NEW d \in Nat \ {0}, NEW q \in Int, NEW r \in 0..d-1
  PROVE  (q * d + r) \div d = q /\ (q * d + r) % d = r
<1> DEFINE x == q * d + r
           k == x \div d
           m == x % d
<1>1. x \in Int /\ q * d \in Int
  OBVIOUS
<1>2. x = d * k + m /\ k \in Int /\ m \in 0..d-1
  BY <1>1
<1>3. d * (k - q) = r - m
  <2>1. d * (k - q) = d * k - d * q /\ d * q = q * d /\ d * k \in Int /\ d * q \in Int
    BY <1>2
  <2> HIDE DEF k, m
  <2> QED BY <1>2, <2>1
<1> HIDE DEF k, m
<1>4. k = q
  <2>1. CASE k - q >= 1
    <3>1. d * (k - q) >= d
      BY <1>2, <2>1
    <3> QED BY <1>2, <1>3, <3>1
  <2>2. CASE k - q <= -1
    <3>1. d * (k - q) <= -d
      BY <1>2, <2>2
    <3> QED BY <1>2, <1>3, <3>1
  <2> QED BY <1>2, <2>1, <2>2
<1>5. m = r
  <2>1. d * (k - q) = 0
    BY <1>2, <1>4
  <2> QED BY <1>2, <1>3, <2>1
<1> QED BY <1>4, <1>5 DEF k, m

\* The point of the grid in a column and a row, and its number.
Cell(a, b, u) == [x |-> -H_STOP + GRID_STEP * a, y |-> -V_STOP + GRID_STEP * b, ut |-> u]
LEMMA GridPoint ==
  ASSUME NEW s \in {1, 2}, NEW a \in 0..NH-1, NEW b \in 0..NV-1, NEW u \in 0..s-1,
         NEW n, n = (a * NV + b) * s + u
  PROVE  /\ n \in Nat /\ n + 1 \in 1..NH*NV*s
         /\ Grid(s)[n+1] = Cell(a, b, u)
<1> DEFINE e == a * NV + b
           f == b * s + u
           d == NV * s
<1>1. NV \in Nat \ {0} /\ NH \in Nat \ {0} /\ s \in Nat /\ a \in Nat /\ b \in Nat /\ u \in Nat
  BY GridSizes
<1>2. a * NV \in Nat /\ e \in Nat /\ d \in Nat \ {0}
  BY <1>1
<1>3. e <= NH * NV - 1
  <2>1. (NH - 1 - a) * NV >= 0
    BY <1>1
  <2>2. (NH - 1 - a) * NV = NH * NV - NV - a * NV /\ NH * NV \in Nat
    BY <1>1
  <2> QED BY <1>1, <1>2, <2>1, <2>2
<1>4. NH * NV \in Nat /\ NH * NV * s \in Nat
  BY <1>1
<1>5. n \in Nat /\ n + 1 <= NH * NV * s
  <2>1. CASE s = 1
    BY <1>1, <1>2, <1>3, <1>4, <2>1
  <2>2. CASE s = 2
    BY <1>1, <1>2, <1>3, <1>4, <2>2
  <2> QED BY <2>1, <2>2
<1>6. n = e * s + u /\ n \div s = e /\ n % s = u
  BY <1>1, <1>2, Quotient
<1>7. e % NV = b
  BY <1>1, Quotient
<1>8. f \in 0..d-1
  <2>1. CASE s = 1
    BY <1>1, <2>1
  <2>2. CASE s = 2
    BY <1>1, <2>2
  <2> QED BY <2>1, <2>2
<1>9. n = a * d + f
  <2>1. CASE s = 1
    BY <1>1, <1>2, <2>1
  <2>2. CASE s = 2
    <3>1. a * (NV * 2) = (a * NV) * 2
      BY <1>1
    <3> QED BY <1>1, <1>2, <2>2, <3>1
  <2> QED BY <2>1, <2>2
<1>10. n \div d = a
  BY <1>1, <1>2, <1>8, <1>9, Quotient
<1>11. n + 1 - 1 = n /\ n + 1 \in 1..NH*NV*s
  BY <1>4, <1>5
<1>12. Grid(s)[n+1] = [x |-> -H_STOP + GRID_STEP * (n \div (NV*s)),
                       y |-> -V_STOP + GRID_STEP * ((n \div s) % NV), ut |-> n % s]
  <2>1. \A i \in 1..NH*NV*s :
          Grid(s)[i] = [x |-> -H_STOP + GRID_STEP * ((i-1) \div (NV*s)),
                        y |-> -V_STOP + GRID_STEP * (((i-1) \div s) % NV), ut |-> (i-1) % s]
    BY DEF Grid, NV, NH
  <2>2. PICK k : k = n + 1
    OBVIOUS
  <2>4. k \in 1..NH*NV*s /\ k - 1 = n
    BY <1>4, <1>5, <2>2
  <2>3. Grid(s)[k] = [x |-> -H_STOP + GRID_STEP * (n \div (NV*s)),
                      y |-> -V_STOP + GRID_STEP * ((n \div s) % NV), ut |-> n % s]
    BY <2>1, <2>4, Zenon
  <2> QED BY <2>2, <2>3, Zenon
<1> QED BY <1>5, <1>6, <1>7, <1>10, <1>11, <1>12 DEF Cell

\* The mask leaves, of the lower half, the bits of one word.
LEMMA MaskWord ==
  ASSUME NEW half \in {40, 80}, NEW w \in 1..half
  PROVE  (0..half-1) \ SdataMask(half, w) = (half - w)..half-1
<1>1. ASSUME NEW b \in 0..half-1
      PROVE  b \in SdataMask(half, w) <=> b < half - w
  <2> DEFINE k == b \div 16
             shift == w - (half - (k+1)*16)
  <2>1. /\ k \in Int /\ b = 16 * k + (b % 16) /\ b % 16 \in 0..15 /\ b \in 0..79
    OBVIOUS
  <2>2. b \in SdataMask(half, w) <=> (shift < 0 \/ (shift <= 16 /\ b % 16 < 16 - shift))
    BY <2>1 DEF SdataMask
  <2> HIDE DEF k
  <2> QED BY <2>1, <2>2
<1> QED BY <1>1

\* The widths.
LEMMA Widths ==
  /\ IntWidths \subseteq 16..40 /\ \A v, w \in IntWidths : v <= 2 * w
  /\ \A r : r.dw \in RawWidths /\ r.idw = IDW => int_data_width(r) \in IntWidths
<1>1. 2^IDW \in {1, 2}
  <2>1. 0 \in 0..MaxPrescale+1 /\ IDW \in {0, 1}
    BY TransceiverAssumption
  <2>2. 2^0 = 1 /\ 2^(0+1) = 2 * 2^0
    BY <2>1, PowersAssumption
  <2>3. 2^1 = 2
    <3>1. 0 + 1 = 1
      OBVIOUS
    <3> QED BY <2>2, <3>1
  <2> QED BY <2>1, <2>2, <2>3
<1> DEFINE P == 2^IDW
<1>2. IntWidths = {16 * P, 20 * P}
  BY DEF IntWidths
<1>3. ASSUME NEW r, r.dw \in RawWidths, r.idw = IDW
      PROVE  int_data_width(r) \in IntWidths
  <2>1. r.dw \in Int /\ r.dw % 2 \in {0, 1}
    <3>1. r.dw \in 2..9
      BY <1>3, TransceiverAssumption
    <3> QED BY <3>1
  <2>2. int_data_width(r) = (16 * P * (4 + (r.dw % 2))) \div 4
    BY <1>3 DEF int_data_width
  <2> HIDE DEF P
  <2>3. CASE r.dw % 2 = 0
    <3>1. (16 * P * 4) \div 4 = 16 * P
      BY <1>1 DEF P
    <3> QED BY <1>2, <2>2, <2>3, <3>1
  <2>4. CASE r.dw % 2 = 1
    <3>1. (16 * P * 5) \div 4 = 20 * P
      BY <1>1 DEF P
    <3> QED BY <1>2, <2>2, <2>4, <3>1
  <2> QED BY <2>1, <2>3, <2>4
<1>4. IntWidths \subseteq 16..40 /\ \A v, w \in IntWidths : v <= 2 * w
  <2> HIDE DEF P
  <2> QED BY <1>1, <1>2 DEF P
<1> QED BY <1>3, <1>4

\* What a full counter means, and how it grows with the prescaler.
LEMMA BitsGrow ==
  ASSUME NEW w \in IntWidths, NEW p \in 0..MaxPrescale
  PROVE  /\ Bits(w, p) \in Nat /\ Bits(w, p) = 2 * (SAMPLES * w * 2^p)
         /\ p < MaxPrescale => Bits(w, p+1) = 2 * Bits(w, p)
<1>1. SAMPLES \in Nat \ {0} /\ w \in Nat /\ MaxPrescale \in Nat
  BY TransceiverAssumption, Widths
<1>2. /\ 2^p \in Nat /\ 2^(p+1) = 2 * 2^p /\ p \in 0..MaxPrescale+1
  BY <1>1, PowersAssumption
<1>3. 1 + p = p + 1 /\ 1 + (p + 1) = (p + 1) + 1
  BY <1>1
<1> DEFINE A == SAMPLES * w
           P == 2^p
           Q == 2^(p+1)
           R == 2^((p+1)+1)
<1>4. A \in Nat
  BY <1>1
<1>5. Bits(w, p) = A * Q
  BY <1>3 DEF Bits
<1>6. Bits(w, p+1) = A * R
  BY <1>3 DEF Bits
<1>7. p < MaxPrescale => R = 2 * Q
  BY <1>1, PowersAssumption
<1>8. P \in Nat /\ Q = 2 * P
  BY <1>2
<1>9. SAMPLES * w * 2^p = A * P
  OBVIOUS
<1> HIDE DEF A, P, Q, R
<1>10. A * Q = 2 * (A * P) /\ A * P \in Nat
  BY <1>4, <1>8
<1>11. p < MaxPrescale => A * R = 2 * (A * Q)
  BY <1>4, <1>7, <1>8
<1> QED BY <1>5, <1>6, <1>9, <1>10, <1>11

\* The prescaler that is chosen reaches the target, and is at most one above the
\* one of the channel before.
LEMMA Chosen ==
  ASSUME NEW w \in IntWidths, NEW ch \in Channels, NEW goal \in Int, Reached(goal, ch, w)
  PROVE  /\ Prescale(w, goal) \in 0..MaxPrescale /\ Prescale(w, goal) <= MaxPrescale - 3 + ch
         /\ Bits(w, Prescale(w, goal)) >= goal /\ goal >= TARGET
<1> DEFINE ok == {p \in 0..MaxPrescale : Bits(w, p) >= goal}
           q == Prescale(w, goal)
<1>1. /\ SAMPLES \in Nat \ {0} /\ MaxPrescale \in Nat /\ MaxPrescale >= 3 /\ TARGET \in Nat
      /\ TARGET <= SAMPLES * 2^MaxPrescale /\ ch \in 0..3
  BY TransceiverAssumption DEF Channels
<1>2. w \in Nat /\ w >= 16
  BY Widths
<1>3. ASSUME NEW p \in ok
      PROVE  q \in ok /\ q <= p
  <2>1. PICK x \in ok : \A y \in ok : x <= y
    <3>1. ok \in SUBSET Nat /\ ok # {}
      BY <1>1, <1>3
    <3> QED BY <3>1, LeastExists
  <2>2. q = CHOOSE y \in ok : \A x2 \in ok : y <= x2
    BY DEF Prescale
  <2> HIDE DEF ok, q
  <2>3. q \in ok /\ \A x2 \in ok : q <= x2
    BY <2>1, <2>2, Zenon
  <2> QED BY <2>3, <1>3
<1>4. ASSUME NEW p \in ok, p <= MaxPrescale - 3 + ch, goal >= TARGET
      PROVE  q \in 0..MaxPrescale /\ q <= MaxPrescale - 3 + ch /\ Bits(w, q) >= goal
  <2>1. q \in ok /\ q <= p
    BY <1>3
  <2>2. q \in 0..MaxPrescale /\ Bits(w, q) >= goal
    BY <2>1
  <2> HIDE DEF ok, q
  <2>3. p \in 0..MaxPrescale
    BY DEF ok
  <2> QED BY <1>1, <1>4, <2>1, <2>2, <2>3
<1>5. CASE goal = TARGET
  <2> DEFINE M == 2^MaxPrescale
  <2>1. MaxPrescale \in 0..MaxPrescale /\ MaxPrescale \in 0..MaxPrescale+1
    BY <1>1
  <2>2. M \in Nat \ {0}
    BY <2>1, PowersAssumption
  <2>3. Bits(w, MaxPrescale) >= goal
    <3>1. Bits(w, MaxPrescale) = 2 * (SAMPLES * w * M)
      BY <2>1, BitsGrow
    <3> HIDE DEF M
    <3>2. SAMPLES * w * M >= SAMPLES * M
      <4>1. SAMPLES * w * M = w * (SAMPLES * M) /\ SAMPLES * M \in Nat
        BY <1>1, <1>2, <2>2
      <4>2. PICK z \in Nat : z = SAMPLES * M
        BY <4>1
      <4>3. w * z >= z
        BY <1>2
      <4> QED BY <4>1, <4>2, <4>3
    <3>3. SAMPLES * w * M \in Nat /\ SAMPLES * M \in Nat
      BY <1>1, <1>2, <2>2
    <3>4. TARGET <= SAMPLES * M
      BY <1>1 DEF M
    <3> QED BY <1>1, <1>5, <3>1, <3>2, <3>3, <3>4
  <2>4. q \in ok
    BY <1>3, <2>1, <2>3
  <2>5. q \in 0..MaxPrescale /\ Bits(w, q) >= goal
    BY <2>4
  <2> HIDE DEF q
  <2>6. ASSUME q > MaxPrescale - 3 PROVE FALSE
    <3>1. q \in Nat /\ q - 1 \in 0..MaxPrescale /\ q - 1 < MaxPrescale /\ q - 1 + 1 = q
      BY <1>1, <2>5, <2>6
    <3>2. Bits(w, q - 1) < goal
      <4>1. q - 1 \notin ok
        <5>1. ASSUME q - 1 \in ok PROVE FALSE
          <6>1. q <= q - 1
            BY <1>3, <5>1 DEF q
          <6> QED BY <3>1, <6>1
        <5> QED BY <5>1
      <4>2. Bits(w, q - 1) \in Nat
        BY <3>1, BitsGrow
      <4> QED BY <3>1, <4>1, <4>2
    <3> DEFINE Q == 2^q
    <3>3. Bits(w, q - 1) = SAMPLES * w * Q
      <4>1. 1 + (q - 1) = q
        BY <3>1
      <4> QED BY <4>1 DEF Bits
    <3>4. Q \in Nat \ {0} /\ M <= 4 * Q
      <4> DEFINE A == 2^(MaxPrescale - 1)
                 B == 2^(MaxPrescale - 2)
      <4>1. B \in Nat \ {0} /\ A = 2 * B
        <5>1. MaxPrescale - 2 \in 0..MaxPrescale+1 /\ (MaxPrescale - 2) + 1 = MaxPrescale - 1
          BY <1>1
        <5>2. 2^(MaxPrescale - 2) \in Nat \ {0} /\ 2^((MaxPrescale - 2) + 1) = 2 * 2^(MaxPrescale - 2)
          BY <5>1, PowersAssumption
        <5> QED BY <5>1, <5>2
      <4>2. M = 2 * A
        <5>1. MaxPrescale - 1 \in 0..MaxPrescale+1 /\ (MaxPrescale - 1) + 1 = MaxPrescale
          BY <1>1
        <5>2. 2^((MaxPrescale - 1) + 1) = 2 * 2^(MaxPrescale - 1)
          BY <5>1, PowersAssumption
        <5> QED BY <5>1, <5>2
      <4>3. q = MaxPrescale \/ q = MaxPrescale - 1 \/ q = MaxPrescale - 2
        BY <1>1, <2>5, <2>6
      <4>4. Q = M \/ Q = A \/ Q = B
        BY <4>3
      <4> HIDE DEF A, B, M, Q
      <4> QED BY <4>1, <4>2, <4>4
    <3> HIDE DEF Q, M
    <3>5. SAMPLES * Q \in Nat \ {0} /\ SAMPLES * w * Q = w * (SAMPLES * Q) /\ SAMPLES * M \in Nat
      BY <1>1, <1>2, <2>2, <3>4
    <3>6. SAMPLES * M <= 4 * (SAMPLES * Q)
      <4>1. SAMPLES * (4 * Q - M) >= 0
        BY <1>1, <2>2, <3>4
      <4>2. SAMPLES * (4 * Q - M) = 4 * (SAMPLES * Q) - SAMPLES * M
        BY <1>1, <2>2, <3>4
      <4> QED BY <3>5, <4>1, <4>2
    <3>7. TARGET <= SAMPLES * M
      BY <1>1 DEF M
    <3>8. PICK z \in Nat \ {0} : z = SAMPLES * Q
      BY <3>5
    <3>9. w * z >= 16 * z
      BY <1>2
    <3>10. w * z < TARGET /\ w * z \in Nat
      BY <1>2, <1>5, <3>2, <3>3, <3>5, <3>8
    <3> QED BY <1>1, <3>5, <3>6, <3>7, <3>8, <3>9, <3>10
  <2>7. q <= MaxPrescale - 3 + ch
    BY <1>1, <2>5, <2>6
  <2> QED BY <1>1, <1>5, <2>5, <2>7 DEF q
<1>6. CASE goal # TARGET
  <2>1. PICK v \in IntWidths, p \in Nat :
           /\ goal = Bits(v, p) /\ goal >= TARGET
           /\ \/ p <= MaxPrescale - 4 + ch
              \/ p <= MaxPrescale - 3 + ch /\ v = w
    BY <1>6 DEF Reached
  <2>2. p \in 0..MaxPrescale
    BY <1>1, <2>1
  <2>3. CASE p <= MaxPrescale - 4 + ch
    <3>1. p < MaxPrescale /\ p + 1 \in 0..MaxPrescale /\ p + 1 <= MaxPrescale - 3 + ch
      BY <1>1, <2>2, <2>3
    <3>2. Bits(w, p + 1) >= goal
      <4> DEFINE P == 2^p
      <4>1. /\ Bits(w, p + 1) = 2 * Bits(w, p) /\ Bits(w, p) = 2 * (SAMPLES * w * P)
            /\ goal = 2 * (SAMPLES * v * P)
        BY <2>1, <2>2, <3>1, BitsGrow
      <4>2. P \in Nat /\ v \in Nat /\ v <= 2 * w
        <5>1. p \in 0..MaxPrescale+1
          BY <1>1, <2>2
        <5> QED BY <5>1, PowersAssumption, Widths
      <4> HIDE DEF P
      <4>3. /\ SAMPLES * P \in Nat /\ SAMPLES * w * P = w * (SAMPLES * P)
            /\ SAMPLES * v * P = v * (SAMPLES * P)
        BY <1>1, <1>2, <4>2
      <4>4. PICK z \in Nat : z = SAMPLES * P
        BY <4>3
      <4>5. (2 * w - v) * z >= 0
        BY <1>2, <4>2
      <4>6. (2 * w - v) * z = 2 * (w * z) - v * z /\ w * z \in Nat /\ v * z \in Nat
        BY <1>2, <4>2
      <4> QED BY <4>1, <4>3, <4>4, <4>5, <4>6
    <3>3. p + 1 \in ok
      BY <3>1, <3>2
    <3> QED BY <1>4, <2>1, <3>1, <3>3
  <2>4. CASE p <= MaxPrescale - 3 + ch /\ v = w
    <3>1. p \in ok
      BY <2>1, <2>2, <2>4
    <3> QED BY <1>4, <2>1, <2>4, <3>1
  <2> QED BY <2>1, <2>3, <2>4
<1> QED BY <1>5, <1>6

\* Where the registers measure, after each of the tool's writes.
Offsets == -1024..1023
Codes(horz) == horz \in {HorzGth, HorzGty}
\* The two codes.
LEMMA HorzValues ==
  ASSUME NEW h \in Offsets
  PROVE  HorzGth[h] = (h % 2048) + (IF h < 0 THEN 2048 ELSE 0) /\ HorzGty[h] = (h % 2048) + 2048
<1>1. HorzGth = [k \in Offsets |-> (k % 2048) + (IF k < 0 THEN 2048 ELSE 0)]
  BY DEF HorzGth, Offsets
<1>2. HorzGty = [k \in Offsets |-> (k % 2048) + 2048]
  BY DEF HorzGty, Offsets
<1> QED BY <1>1, <1>2

\* A code read back.
LEMMA HorzCode ==
  ASSUME NEW horz, Codes(horz), NEW h \in Offsets
  PROVE  horz[h] \in Int /\ h = IF horz[h] % 2048 >= 1024 THEN (horz[h] % 2048) - 2048 ELSE horz[h] % 2048
<1>1. horz[h] = (h % 2048) \/ horz[h] = (h % 2048) + 2048
  <2>1. CASE horz = HorzGth
    <3>1. horz[h] = (h % 2048) + (IF h < 0 THEN 2048 ELSE 0)
      BY <2>1, HorzValues
    <3>2. h \in Int /\ h % 2048 \in Int
      BY DEF Offsets
    <3> QED BY <3>1, <3>2
  <2>2. CASE horz = HorzGty
    <3>1. horz[h] = (h % 2048) + 2048
      BY <2>2, HorzValues
    <3> QED BY <3>1
  <2> QED BY <2>1, <2>2 DEF Codes
<1>2. h % 2048 = IF h < 0 THEN h + 2048 ELSE h
  BY DEF Offsets
<1>3. PICK x : x = horz[h]
  OBVIOUS
<1> QED BY <1>1, <1>2, <1>3 DEF Offsets

\* What a channel keeps while its sampler is set.
Kept(r, s) == DOMAIN s = DOMAIN r /\ s.dw = r.dw /\ s.idw = r.idw /\ s.rx_lpm_en = r.rx_lpm_en
\* Where the registers say, field by field.
LEMMA PlaceFields ==
  ASSUME NEW r
  PROVE  /\ Place(r).h = IF r.horz % 2048 >= 1024 THEN (r.horz % 2048) - 2048 ELSE r.horz % 2048
         /\ Place(r).v = IF r.neg_dir THEN -r.vs_code ELSE r.vs_code
         /\ Place(r).ut = r.ut_sign
         /\ Place(r) = [h |-> Place(r).h, v |-> Place(r).v, ut |-> Place(r).ut]
  BY DEF Place

\* A vertical offset, written and read back.
LEMMA SetVPlace ==
  ASSUME NEW r, Sampler \subseteq DOMAIN r, NEW v \in Int
  PROVE  LET s == SetV(r, v) IN
         /\ Kept(r, s) /\ s.mask = r.mask /\ s.prescale = r.prescale
         /\ s.horz = r.horz /\ s.ut_sign = r.ut_sign
         /\ (IF s.neg_dir THEN -s.vs_code ELSE s.vs_code) = v
<1>1. PICK s : s = SetV(r, v)
  OBVIOUS
<1>2. Kept(r, s) /\ s.mask = r.mask /\ s.prescale = r.prescale /\ s.horz = r.horz /\ s.ut_sign = r.ut_sign
  BY <1>1 DEF SetV, Kept, Sampler
<1>3. s.neg_dir = (v < 0) /\ s.vs_code = IF v < 0 THEN -v ELSE v
  BY <1>1 DEF SetV, Sampler
<1>4. (IF s.neg_dir THEN -s.vs_code ELSE s.vs_code) = v
  <2>1. CASE v < 0
    <3>1. s.neg_dir /\ s.vs_code = -v
      BY <1>3, <2>1
    <3> QED BY <3>1
  <2>2. CASE ~(v < 0)
    <3>1. ~s.neg_dir /\ s.vs_code = v
      BY <1>3, <2>2
    <3> QED BY <3>1
  <2> QED BY <2>1, <2>2
<1> QED BY <1>1, <1>2, <1>4

\* The centre of the eye.
LEMMA CentreFields ==
  ASSUME NEW r, Sampler \subseteq DOMAIN r, NEW horz, NEW mask
  PROVE  LET s == Centre(r, horz, mask) IN
         Kept(r, s) /\ s.mask = mask /\ s.ut_sign = 0
<1>1. PICK a : a = SetV(r, 0)
  OBVIOUS
<1>2. Kept(r, a)
  BY <1>1, SetVPlace
<1>3. PICK b : b = [a EXCEPT !.horz = horz[0], !.ut_sign = 0, !.prescale = 4, !.mask = mask]
  OBVIOUS
<1>4. Kept(r, b) /\ b.mask = mask /\ b.ut_sign = 0
  BY <1>2, <1>3 DEF Kept, Sampler
<1>5. PICK s : s = Pulse(b, "rx_pma_reset")
  OBVIOUS
<1>6. Kept(r, s) /\ s.mask = mask /\ s.ut_sign = 0
  BY <1>4, <1>5 DEF Kept, Sampler, Pulse
<1> QED BY <1>1, <1>3, <1>5, <1>6 DEF Centre

\* The first corner of the grid.
LEMMA CornerFields ==
  ASSUME NEW r, Sampler \subseteq DOMAIN r, NEW horz, Codes(horz), NEW mask, NEW bits
  PROVE  LET s == Corner(r, horz, mask, bits) IN
         /\ Kept(r, s) /\ s.mask = mask /\ s.prescale = Prescale(int_data_width(r), bits)
         /\ Place(s) = [h |-> -H_STOP, v |-> -V_STOP, ut |-> 0]
<1>1. PICK a : a = Centre(r, horz, mask)
  OBVIOUS
<1>2. Kept(r, a) /\ a.mask = mask /\ a.ut_sign = 0 /\ Sampler \subseteq DOMAIN a
  BY <1>1, CentreFields DEF Kept
<1>3. PICK b : b = SetV(a, -V_STOP)
  OBVIOUS
<1>4. -V_STOP \in Int /\ -H_STOP \in Offsets
  BY TransceiverAssumption DEF Offsets
<1>5. /\ Kept(a, b) /\ b.mask = mask /\ b.ut_sign = 0 /\ Sampler \subseteq DOMAIN b
      /\ (IF b.neg_dir THEN -b.vs_code ELSE b.vs_code) = -V_STOP
  BY <1>2, <1>3, <1>4, SetVPlace DEF Kept
<1>6. PICK q : q = Prescale(int_data_width(r), bits)
  OBVIOUS
<1>7. PICK s : s = [b EXCEPT !.horz = horz[-H_STOP], !.prescale = q]
  OBVIOUS
<1>8. Kept(b, s) /\ s.mask = b.mask /\ s.prescale = q
  BY <1>5, <1>7 DEF Kept, Sampler
<1>9. s.ut_sign = b.ut_sign /\ s.neg_dir = b.neg_dir /\ s.vs_code = b.vs_code /\ s.horz = horz[-H_STOP]
  BY <1>5, <1>7 DEF Sampler
<1>10. -H_STOP = IF s.horz % 2048 >= 1024 THEN (s.horz % 2048) - 2048 ELSE s.horz % 2048
  <2>1. PICK k \in Offsets : k = -H_STOP
    BY <1>4
  <2>2. PICK z : z = horz[k] /\ z = s.horz
    BY <1>9, <2>1
  <2>3. k = IF horz[k] % 2048 >= 1024 THEN (horz[k] % 2048) - 2048 ELSE horz[k] % 2048
    BY <2>1, HorzCode
  <2> QED BY <2>1, <2>2, <2>3
<1>11. Place(s) = [h |-> -H_STOP, v |-> -V_STOP, ut |-> 0]
  BY <1>5, <1>9, <1>10 DEF Place
<1>12. Kept(r, s)
  BY <1>2, <1>5, <1>8 DEF Kept
<1> QED BY <1>1, <1>3, <1>5, <1>6, <1>7, <1>8, <1>11, <1>12 DEF Corner

\* The start of a scan, in every family: the registers it leaves.
LEMMA StartFields ==
  ASSUME NEW r, Sampler \subseteq DOMAIN r, NEW bits, family \in Families
  PROVE  LET s == gt_ch_eyescan_start(r, TRUE, bits) IN
         /\ Kept(r, s) /\ s.mask = SdataMask(HalfWidth, int_data_width(r))
         /\ s.prescale = Prescale(int_data_width(r), bits)
         /\ Place(s) = [h |-> -H_STOP, v |-> -V_STOP, ut |-> 0]
<1>1. family \in {"gthe3", "gthe4", "gtye3", "gtye4"}
  BY TransceiverAssumption
<1>2. PICK mask : mask = SdataMask(HalfWidth, int_data_width(r))
  OBVIOUS
<1>3. ASSUME NEW horz, Codes(horz)
      PROVE  LET s == Corner(r, horz, mask, bits) IN
             /\ Kept(r, s) /\ s.mask = mask /\ s.prescale = Prescale(int_data_width(r), bits)
             /\ Place(s) = [h |-> -H_STOP, v |-> -V_STOP, ut |-> 0]
  BY <1>3, CornerFields
<1>4. Codes(HorzGth) /\ Codes(HorzGty)
  BY DEF Codes
<1>5. \E horz : Codes(horz) /\ gt_ch_eyescan_start(r, TRUE, bits) = Corner(r, horz, mask, bits)
  <2>1. CASE family = "gthe3"
    BY <1>2, <1>4, <2>1
       DEF gt_ch_eyescan_start, gthe3_ch_eyescan_start, gthe3_ch_set_es_sdata_mask_width, HalfWidth
  <2>2. CASE family = "gthe4"
    BY <1>2, <1>4, <2>2
       DEF gt_ch_eyescan_start, gthe4_ch_eyescan_start, gthe4_ch_set_es_sdata_mask_width, HalfWidth
  <2>3. CASE family = "gtye3"
    BY <1>2, <1>4, <2>3
       DEF gt_ch_eyescan_start, gtye3_ch_eyescan_start, gtye3_ch_set_es_sdata_mask_width, HalfWidth
  <2>4. CASE family = "gtye4"
    BY <1>2, <1>4, <2>4
       DEF gt_ch_eyescan_start, gtye4_ch_eyescan_start, gtye4_ch_set_es_sdata_mask_width, HalfWidth
  <2> QED BY <1>1, <2>1, <2>2, <2>3, <2>4
<1>6. PICK horz : Codes(horz) /\ gt_ch_eyescan_start(r, TRUE, bits) = Corner(r, horz, mask, bits)
  BY <1>5
<1> QED BY <1>2, <1>3, <1>6

\* Aligned or not, a start keeps what a channel is.
LEMMA StartKeeps ==
  ASSUME NEW r, Sampler \subseteq DOMAIN r, NEW aligned, NEW bits, family \in Families
  PROVE  Kept(r, gt_ch_eyescan_start(r, aligned, bits))
<1>1. family \in {"gthe3", "gthe4", "gtye3", "gtye4"}
  BY TransceiverAssumption
<1>2. \A horz \in {HorzGth, HorzGty} : \A mask :
        Kept(r, IF aligned THEN Corner(r, horz, mask, bits) ELSE Centre(r, horz, mask))
  BY CentreFields, CornerFields DEF Codes
<1>3. CASE family = "gthe3"
  BY <1>2, <1>3 DEF gt_ch_eyescan_start, gthe3_ch_eyescan_start
<1>4. CASE family = "gthe4"
  BY <1>2, <1>4 DEF gt_ch_eyescan_start, gthe4_ch_eyescan_start
<1>5. CASE family = "gtye3"
  BY <1>2, <1>5 DEF gt_ch_eyescan_start, gtye3_ch_eyescan_start
<1>6. CASE family = "gtye4"
  BY <1>2, <1>6 DEF gt_ch_eyescan_start, gtye4_ch_eyescan_start
<1> QED BY <1>1, <1>3, <1>4, <1>5, <1>6

\* A step goes to the next point of the grid, and the registers with it; past the
\* last one the scan ends.
Moves(p, r, n, x) ==
  /\ x.priv \in PrivRec /\ x.priv.dfe_en = p.dfe_en /\ x.priv.width = p.width
  /\ x.priv.prescale = p.prescale
  /\ Kept(r, x.reg) /\ x.reg.mask = r.mask /\ x.reg.prescale = r.prescale
  /\ IF x.priv.running THEN Standing(x.priv, n + 1) /\ Place(x.reg) = Spot(x.priv)
     ELSE n + 1 = NH * NV * Signs(p)
LEMMA AdvanceStands ==
  ASSUME NEW p \in PrivRec, p.running, NEW r, Sampler \subseteq DOMAIN r, NEW horz, Codes(horz),
         NEW n \in Nat, Standing(p, n), Place(r) = Spot(p), NEW x, x = Advance(p, r, horz)
  PROVE  Moves(p, r, n, x)
<1> DEFINE sign == NextUt(p)
           up == ~sign /\ p.v < V_STOP
           right == ~sign /\ ~up /\ p.h < H_STOP
           ut2 == IF sign THEN 1 ELSE 0
           v2 == IF sign THEN p.v ELSE IF up THEN p.v + GRID_STEP ELSE -V_STOP
           h2 == IF right THEN p.h + GRID_STEP ELSE p.h
           p2 == [p EXCEPT !.ut = ut2, !.v = v2, !.h = h2, !.running = sign \/ up \/ right]
           r2 == [r EXCEPT !.ut_sign = ut2]
           r3 == IF sign THEN r2 ELSE SetV(r2, v2)
           r4 == IF right THEN [r3 EXCEPT !.horz = horz[h2]] ELSE r3
           s == Signs(p)
<1>1. /\ GRID_STEP \in Nat \ {0} /\ H_STOP \in 0..1023 /\ V_STOP \in Nat
      /\ NV \in Nat \ {0} /\ NH \in Nat \ {0}
      /\ 2*V_STOP = GRID_STEP * (NV - 1) /\ 2*H_STOP = GRID_STEP * (NH - 1)
  BY TransceiverAssumption, GridSizes
<1>2. PICK a \in 0..NH-1, b \in 0..NV-1 :
        /\ p.h = -H_STOP + GRID_STEP * a /\ p.v = -V_STOP + GRID_STEP * b
        /\ p.ut < s /\ n = (a * NV + b) * s + p.ut
  BY DEF Standing
<1>3. p.h \in Int /\ p.v \in Int /\ p.ut \in {0, 1} /\ p.dfe_en \in BOOLEAN /\ s \in {1, 2}
  BY DEF PrivRec, Signs
<1>4. a \in Nat /\ b \in Nat /\ a * NV \in Nat /\ GRID_STEP * a \in Nat /\ GRID_STEP * b \in Nat
  BY <1>1, <1>2
<1>5. sign <=> (s = 2 /\ p.ut = 0)
  BY <1>3 DEF NextUt, Signs
<1>6. p.v < V_STOP <=> b < NV - 1
  <2>1. GRID_STEP * b < GRID_STEP * (NV - 1) <=> b < NV - 1
    <3>1. PICK d \in Nat : d = NV - 1
      BY <1>1
    <3>2. GRID_STEP * b < GRID_STEP * d <=> b < d
      BY <1>1, <1>4
    <3> QED BY <3>1, <3>2
  <2> QED BY <1>1, <1>2, <1>4, <2>1
<1>7. p.h < H_STOP <=> a < NH - 1
  <2>1. GRID_STEP * a < GRID_STEP * (NH - 1) <=> a < NH - 1
    <3>1. PICK d \in Nat : d = NH - 1
      BY <1>1
    <3>2. GRID_STEP * a < GRID_STEP * d <=> a < d
      BY <1>1, <1>4
    <3> QED BY <3>1, <3>2
  <2> QED BY <1>1, <1>2, <1>4, <2>1
<1>8. v2 \in Int /\ h2 \in Int /\ ut2 \in {0, 1}
  BY <1>1, <1>3
<1>9. right => h2 \in Offsets
  <2>1. ASSUME right PROVE h2 \in Offsets
    <3>1. GRID_STEP * (a + 1) <= GRID_STEP * (NH - 1)
      <4>1. PICK d \in Nat : d = NH - 1 /\ a + 1 <= d
        BY <1>1, <1>4, <1>7, <2>1
      <4>2. GRID_STEP * (a + 1) <= GRID_STEP * d
        BY <1>1, <1>4, <4>1
      <4> QED BY <4>1, <4>2
    <3>2. GRID_STEP * (a + 1) = GRID_STEP * a + GRID_STEP
      BY <1>1, <1>4
    <3> QED BY <1>1, <1>2, <1>4, <2>1, <3>1, <3>2 DEF Offsets
  <2> QED BY <2>1
<1>10. Advance(p, r, horz) = [priv |-> p2, reg |-> r4]
  <2>1. p2.ut = ut2 /\ p2.v = v2 /\ p2.h = h2
    BY DEF PrivRec
  <2> HIDE DEF p2
  <2> QED BY <2>1 DEF Advance, p2
<1>11. /\ p2 \in PrivRec /\ p2.dfe_en = p.dfe_en /\ p2.width = p.width /\ p2.prescale = p.prescale
       /\ p2.ut = ut2 /\ p2.v = v2 /\ p2.h = h2 /\ p2.running = (sign \/ up \/ right)
  <2> HIDE DEF ut2, v2, h2, sign, up, right
  <2>1. (sign \/ up \/ right) \in BOOLEAN
    OBVIOUS
  <2> QED BY <1>8, <2>1 DEF PrivRec
<1>12. /\ Kept(r, r2) /\ r2.mask = r.mask /\ r2.prescale = r.prescale /\ r2.horz = r.horz /\ r2.neg_dir = r.neg_dir
       /\ r2.vs_code = r.vs_code /\ r2.ut_sign = ut2 /\ Sampler \subseteq DOMAIN r2
  <2> HIDE DEF ut2
  <2> QED BY DEF Kept, Sampler
<1>13. /\ p.h = IF r.horz % 2048 >= 1024 THEN (r.horz % 2048) - 2048 ELSE r.horz % 2048
       /\ p.v = IF r.neg_dir THEN -r.vs_code ELSE r.vs_code
  <2>1. Place(r).h = p.h /\ Place(r).v = p.v
    BY DEF Spot
  <2> QED BY <2>1, PlaceFields
<1> HIDE DEF r2
<1>14. /\ Kept(r, r3) /\ r3.mask = r.mask /\ r3.prescale = r.prescale /\ r3.horz = r.horz /\ r3.ut_sign = ut2
       /\ Sampler \subseteq DOMAIN r3
       /\ (IF r3.neg_dir THEN -r3.vs_code ELSE r3.vs_code) = v2
  <2>1. CASE sign
    <3>1. r3 = r2 /\ v2 = p.v
      BY <2>1
    <3> HIDE DEF r3, v2
    <3> QED BY <1>12, <1>13, <3>1
  <2>2. CASE ~sign
    <3>1. r3 = SetV(r2, v2)
      BY <2>2
    <3> HIDE DEF r3, v2
    <3>2. /\ Kept(r2, r3) /\ r3.mask = r2.mask /\ r3.prescale = r2.prescale /\ r3.horz = r2.horz /\ r3.ut_sign = r2.ut_sign
          /\ (IF r3.neg_dir THEN -r3.vs_code ELSE r3.vs_code) = v2
      BY <1>8, <1>12, <3>1, SetVPlace
    <3> QED BY <1>12, <3>2 DEF Kept
  <2> QED BY <2>1, <2>2
<1> HIDE DEF r3
<1>15. /\ Kept(r, r4) /\ r4.mask = r.mask /\ r4.prescale = r.prescale /\ r4.ut_sign = ut2
       /\ r4.neg_dir = r3.neg_dir /\ r4.vs_code = r3.vs_code
       /\ h2 = IF r4.horz % 2048 >= 1024 THEN (r4.horz % 2048) - 2048 ELSE r4.horz % 2048
  <2>1. CASE right
    <3>1. PICK z : z = horz[h2]
      OBVIOUS
    <3>2. r4 = [r3 EXCEPT !.horz = z] /\ h2 \in Offsets
      BY <1>9, <2>1, <3>1
    <3> HIDE DEF r4, h2
    <3>3. h2 = IF horz[h2] % 2048 >= 1024 THEN (horz[h2] % 2048) - 2048 ELSE horz[h2] % 2048
      BY <3>2, HorzCode
    <3>4. /\ r4.horz = z /\ r4.mask = r3.mask /\ r4.prescale = r3.prescale
          /\ r4.ut_sign = r3.ut_sign /\ Kept(r3, r4)
          /\ r4.neg_dir = r3.neg_dir /\ r4.vs_code = r3.vs_code
      BY <1>14, <3>2 DEF Kept, Sampler
    <3>5. h2 = IF r4.horz % 2048 >= 1024 THEN (r4.horz % 2048) - 2048 ELSE r4.horz % 2048
      BY <3>1, <3>3, <3>4
    <3> QED BY <1>14, <3>4, <3>5 DEF Kept
  <2>2. CASE ~right
    <3>1. r4 = r3 /\ h2 = p.h
      BY <2>2
    <3> HIDE DEF r4, h2
    <3> QED BY <1>13, <1>14, <3>1
  <2> QED BY <2>1, <2>2
<1> HIDE DEF r4
<1>16. Place(r4) = Spot(p2)
  <2>1. Place(r4) = [h |-> h2, v |-> v2, ut |-> ut2]
    <3> HIDE DEF h2, v2, ut2
    <3> QED BY <1>14, <1>15 DEF Place
  <2> HIDE DEF p2, h2, v2, ut2
  <2> QED BY <1>11, <2>1 DEF Spot
<1>17. Signs(p2) = s
  BY <1>11 DEF Signs
<1>18. ASSUME NEW c \in 0..NH-1, NEW d \in 0..NV-1, h2 = -H_STOP + GRID_STEP * c,
              v2 = -V_STOP + GRID_STEP * d, ut2 < s, n + 1 = (c * NV + d) * s + ut2
       PROVE  Standing(p2, n + 1)
  <2> HIDE DEF p2, h2, v2, ut2, s
  <2> QED BY <1>11, <1>17, <1>18 DEF Standing
<1>19. IF p2.running THEN Standing(p2, n + 1) ELSE n + 1 = NH * NV * s
  <2>1. CASE sign
    <3>1. p2.running
      BY <1>11, <2>1
    <3>2. h2 = p.h /\ v2 = p.v /\ ut2 = 1 /\ s = 2 /\ p.ut = 0
      BY <1>5, <2>1
    <3> HIDE DEF p2, h2, v2, ut2, s, sign
    <3>3. n + 1 = (a * NV + b) * s + ut2
      BY <1>2, <1>4, <3>2
    <3> QED BY <1>2, <1>18, <3>1, <3>2, <3>3
  <2>2. CASE ~sign
    <3>1. p.ut = s - 1
      BY <1>2, <1>3, <1>5, <2>2
    <3>2. n + 1 = (a * NV + b + 1) * s
      <4>1. CASE s = 1
        <5> HIDE DEF s
        <5> QED BY <1>2, <1>4, <3>1, <4>1
      <4>2. CASE s = 2
        <5> HIDE DEF s
        <5> QED BY <1>2, <1>4, <3>1, <4>2
      <4> QED BY <1>3, <4>1, <4>2
    <3>3. ut2 = 0
      BY <2>2
    <3>4. CASE up
      <4>1. p2.running
        BY <1>11, <3>4
      <4>2. h2 = p.h /\ v2 = p.v + GRID_STEP
        BY <3>4
      <4>3. b + 1 \in 0..NV-1
        BY <1>1, <1>2, <1>6, <3>4
      <4> HIDE DEF p2, h2, v2, ut2, s, up, sign
      <4>4. v2 = -V_STOP + GRID_STEP * (b + 1)
        <5>1. GRID_STEP * (b + 1) = GRID_STEP * b + GRID_STEP
          BY <1>1, <1>4
        <5> QED BY <1>1, <1>2, <1>4, <4>2, <5>1
      <4>5. n + 1 = (a * NV + (b + 1)) * s + ut2 /\ ut2 < s
        <5>1. a * NV + b + 1 = a * NV + (b + 1)
          BY <1>4
        <5>2. (a * NV + (b + 1)) * s \in Int
          BY <1>3, <1>4
        <5> QED BY <1>3, <3>2, <3>3, <5>1, <5>2
      <4> QED BY <1>2, <1>18, <4>1, <4>2, <4>3, <4>4, <4>5
    <3>5. CASE right
      <4>1. p2.running
        BY <1>11, <3>5
      <4>2. h2 = p.h + GRID_STEP /\ v2 = -V_STOP
        BY <2>2, <3>5
      <4>3. a + 1 \in 0..NH-1 /\ b = NV - 1 /\ 0 \in 0..NV-1
        BY <1>1, <1>2, <1>6, <1>7, <2>2, <3>5
      <4> HIDE DEF p2, h2, v2, ut2, s, up, right, sign
      <4>4. h2 = -H_STOP + GRID_STEP * (a + 1) /\ v2 = -V_STOP + GRID_STEP * 0
        <5>1. GRID_STEP * (a + 1) = GRID_STEP * a + GRID_STEP
          BY <1>1, <1>4
        <5> QED BY <1>1, <1>2, <1>4, <4>2, <5>1
      <4>5. n + 1 = ((a + 1) * NV + 0) * s + ut2 /\ ut2 < s
        <5>1. (a + 1) * NV + 0 = a * NV + b + 1
          BY <1>1, <1>4, <4>3
        <5>2. (a * NV + b + 1) * s \in Int
          BY <1>3, <1>4
        <5> QED BY <1>3, <3>2, <3>3, <5>1, <5>2
      <4> QED BY <1>18, <4>1, <4>3, <4>4, <4>5
    <3>6. CASE ~up /\ ~right
      <4>1. ~p2.running
        BY <1>11, <2>2, <3>6
      <4>2. a = NH - 1 /\ b = NV - 1
        BY <1>1, <1>2, <1>6, <1>7, <2>2, <3>6
      <4> HIDE DEF p2, s, up, right, sign
      <4>3. a * NV + b + 1 = NH * NV
        <5>1. (NH - 1) * NV = NH * NV - NV /\ NH * NV \in Nat
          BY <1>1
        <5> QED BY <1>1, <4>2, <5>1
      <4> QED BY <3>2, <4>1, <4>3
    <3> QED BY <3>4, <3>5, <3>6
  <2> QED BY <2>1, <2>2
<1> HIDE DEF p2, s
<1> QED BY <1>10, <1>11, <1>15, <1>16, <1>19 DEF Moves, s

---------------------------------------------------------------------------
\* Nothing is measured at the start.
LEMMA ScanStarts == XcvrInit => ScanInv
<1> SUFFICES ASSUME XcvrInit PROVE ScanInv
  OBVIOUS
<1>1. /\ thread = [pc |-> "preset", ch |-> 0, tries |-> 0, done |-> TRUE]
      /\ xopt.mask \in Masks /\ target = TARGET
      /\ meas = [c \in Channels |-> [h |-> 0, v |-> 0, ut |-> 0]]
      /\ priv = [c \in Channels |-> NoPriv] /\ points = [c \in Channels |-> <<>>]
  BY DEF XcvrInit
<1>2. PICK dw \in [Channels -> RawWidths], lpm \in BOOLEAN :
        reg = [c \in Channels |->
                [tx_reset |-> 0, rx_reset |-> 0, rx_pma_reset |-> 0, tx_qpll_sel |-> 0, rx_qpll_sel |-> 0,
                 base |-> quad_rate, eq |-> <<quad_rate, IF lpm THEN "lpm" ELSE "dfe">>, rx_lpm_en |-> lpm,
                 dw |-> dw[c], idw |-> IDW, mask |-> {}, prescale |-> 0,
                 horz |-> 0, neg_dir |-> FALSE, vs_code |-> 0, ut_sign |-> 0, lost |-> {}]]
  BY DEF XcvrInit
<1>3. PICK rate, e : rate = quad_rate /\ e = <<quad_rate, IF lpm THEN "lpm" ELSE "dfe">>
  OBVIOUS
<1>4. ASSUME NEW c \in Channels
      PROVE  Sampler \subseteq DOMAIN reg[c] /\ reg[c].dw \in RawWidths /\ reg[c].idw = IDW
  <2>1. PICK r : r = reg[c]
    OBVIOUS
  <2>2. r = [tx_reset |-> 0, rx_reset |-> 0, rx_pma_reset |-> 0, tx_qpll_sel |-> 0, rx_qpll_sel |-> 0,
             base |-> rate, eq |-> e, rx_lpm_en |-> lpm,
             dw |-> dw[c], idw |-> IDW, mask |-> {}, prescale |-> 0,
             horz |-> 0, neg_dir |-> FALSE, vs_code |-> 0, ut_sign |-> 0, lost |-> {}]
    BY <1>2, <1>3, <2>1, Zenon
  <2>3. dw[c] \in RawWidths
    BY <1>2
  <2>4. Sampler \subseteq DOMAIN r /\ r.dw = dw[c] /\ r.idw = IDW
    BY <2>2 DEF Sampler
  <2> QED BY <2>1, <2>3, <2>4
<1>5. xopt.mask \subseteq Channels /\ target \in Int /\ 0 \in Channels
  BY <1>1, TransceiverAssumption DEF Channels
<1>6. NoPriv \in PrivRec /\ ~NoPriv.running
  BY DEF NoPriv, PrivRec
<1>7. ScanType
  <2>1. thread \in ThreadRec
    BY <1>1, <1>5 DEF ThreadRec
  <2>2. priv \in [Channels -> PrivRec] /\ DOMAIN meas = Channels
    BY <1>1, <1>6
  <2>3. points \in [Channels -> Seq(PointRec)]
    <3>1. <<>> \in Seq(PointRec)
      OBVIOUS
    <3> QED BY <1>1, <3>1
  <2> QED BY <1>4, <1>5, <2>1, <2>2, <2>3 DEF ScanType
<1>8. ChannelsInv
  BY <1>1, <1>6 DEF ChannelsInv, Begun, Fallow
<1>9. Unwritten /\ RoundInv /\ TargetInv
  BY <1>1 DEF Unwritten, RoundInv, TargetInv
<1> QED BY <1>7, <1>8, <1>9 DEF ScanInv

\* The loops over the channels.
LEMMA NextChannel ==
  ASSUME ScanType, NEW then \in {"start", "scan", "end"}, NextCh(then)
  PROVE  /\ thread' \in ThreadRec
         /\ thread'.done = thread.done
         /\ \/ thread'.pc = thread.pc /\ thread'.ch = thread.ch + 1
            \/ thread'.pc = then /\ thread'.ch = 0 /\ thread.ch = CH_COUNT - 1
<1>1. /\ thread \in ThreadRec
      /\ thread.ch \in 0..CH_COUNT-1 /\ CH_COUNT \in Nat \ {0}
  BY TransceiverAssumption DEF ScanType, Channels, ThreadRec
<1>2. CASE thread.ch + 1 < CH_COUNT
  <2>1. thread' = [thread EXCEPT !.ch = thread.ch + 1, !.tries = 0]
    BY <1>2 DEF NextCh
  <2>2. thread.ch + 1 \in Channels
    BY <1>1, <1>2 DEF Channels
  <2>3. PICK k \in Channels : k = thread.ch + 1
    BY <2>2
  <2>4. thread' = [thread EXCEPT !.ch = k, !.tries = 0]
    BY <2>1, <2>3
  <2>5. thread' \in ThreadRec /\ thread'.done = thread.done /\ thread'.pc = thread.pc /\ thread'.ch = k
    <3>1. thread' \in ThreadRec
      <4>1. thread' = [pc |-> thread.pc, ch |-> k, tries |-> 0, done |-> thread.done]
        BY <1>1, <2>4 DEF ThreadRec
      <4>2. thread.pc \in {"preset", "start", "scan", "done", "failed", "end"} /\ thread.done \in BOOLEAN
        BY <1>1 DEF ThreadRec
      <4> QED BY <2>3, <4>1, <4>2 DEF ThreadRec
    <3>2. DOMAIN thread = {"pc", "ch", "tries", "done"}
      BY <1>1 DEF ThreadRec
    <3>3. thread'.pc = thread.pc /\ thread'.ch = k
      BY <2>4, <3>2
    <3>4. thread'.done = thread.done
      BY <2>4, <3>2
    <3> QED BY <3>1, <3>3, <3>4
  <2> QED BY <2>3, <2>5
<1>3. CASE ~(thread.ch + 1 < CH_COUNT)
  <2>1. thread' = [thread EXCEPT !.pc = then, !.ch = 0, !.tries = 0]
    BY <1>3 DEF NextCh
  <2>2. 0 \in Channels /\ thread.ch = CH_COUNT - 1
    BY <1>1, <1>3 DEF Channels
  <2>3. thread' \in ThreadRec /\ thread'.done = thread.done /\ thread'.pc = then /\ thread'.ch = 0
    <3>1. thread' \in ThreadRec
      <4>1. thread' = [pc |-> then, ch |-> 0, tries |-> 0, done |-> thread.done]
        BY <1>1, <2>1 DEF ThreadRec
      <4>2. then \in {"preset", "start", "scan", "done", "failed", "end"} /\ thread.done \in BOOLEAN
        BY <1>1 DEF ThreadRec
      <4> QED BY <2>2, <4>1, <4>2 DEF ThreadRec
    <3>2. DOMAIN thread = {"pc", "ch", "tries", "done"}
      BY <1>1 DEF ThreadRec
    <3>3. thread'.pc = then /\ thread'.ch = 0
      BY <2>1, <3>2
    <3>4. thread'.done = thread.done
      BY <2>1, <3>2
    <3> QED BY <3>1, <3>3, <3>4
  <2> QED BY <2>2, <2>3
<1> QED BY <1>2, <1>3

\* The target of the next channel.
LEMMA ReachedNext ==
  ASSUME NEW goal, NEW ch \in Nat, NEW v, NEW w, Reached(goal, ch, v)
  PROVE  Reached(goal, ch + 1, w)
<1>1. MaxPrescale \in Nat
  BY TransceiverAssumption
<1>2. CASE goal = TARGET
  BY <1>2 DEF Reached
<1>3. CASE goal # TARGET
  <2>1. PICK x \in IntWidths, p \in Nat :
           /\ goal = Bits(x, p) /\ goal >= TARGET
           /\ p <= MaxPrescale - 4 + ch \/ (p <= MaxPrescale - 3 + ch /\ x = v)
    BY <1>3 DEF Reached
  <2>2. p <= MaxPrescale - 4 + (ch + 1)
    BY <1>1, <2>1
  <2> QED BY <2>1, <2>2 DEF Reached
<1> QED BY <1>2, <1>3

\* A channel that is not selected, before the scan.
LEMMA SkipScan ==
  ASSUME ScanInv, Skip
  PROVE  ScanInv'
<1>1. /\ thread.pc \in {"preset", "start"} /\ thread.ch \notin xopt.mask
      /\ reg' = reg /\ meas' = meas /\ priv' = priv /\ target' = target /\ points' = points
      /\ xopt' = xopt /\ family' = family
  BY DEF Skip
<1>2. PICK then \in {"start", "scan", "end"} :
        then = (IF thread.pc = "preset" THEN AfterPresets ELSE "scan") /\ NextCh(then)
  BY DEF Skip, AfterPresets
<1>20. IF thread.pc = "preset" THEN then \in {"start", "end"} ELSE then = "scan"
  BY <1>2 DEF AfterPresets
<1>3. /\ thread' \in ThreadRec
      /\ thread'.done = thread.done
      /\ \/ thread'.pc = thread.pc /\ thread'.ch = thread.ch + 1
         \/ thread'.pc = then /\ thread'.ch = 0 /\ thread.ch = CH_COUNT - 1
  BY <1>2, NextChannel DEF ScanInv
<1>4. thread.ch \in 0..CH_COUNT-1 /\ CH_COUNT \in Nat /\ xopt.mask \subseteq 0..CH_COUNT-1
  <2>1. CH_COUNT \in Nat
    BY TransceiverAssumption
  <2>2. thread \in ThreadRec /\ xopt.mask \subseteq Channels
    BY DEF ScanInv, ScanType
  <2>3. thread.ch \in Channels
    BY <2>2 DEF ThreadRec
  <2> QED BY <2>1, <2>2, <2>3 DEF Channels
<1>5. ASSUME NEW c \in Channels
      PROVE  Begun(c)' <=> Begun(c)
  <2>1. c \in 0..CH_COUNT-1
    BY DEF Channels
  <2> QED BY <1>1, <1>20, <1>3, <1>4, <2>1 DEF Begun
<1>6. thread'.pc # "failed" /\ thread.pc # "failed"
  BY <1>1, <1>20, <1>3
<1>7. ChannelsInv'
  <2>1. ASSUME NEW c \in Channels
        PROVE  IF Begun(c)' THEN Scanned(priv[c], reg[c], meas[c], points[c])'
               ELSE Fallow(priv[c], reg[c], points[c])'
    <3>1. Scanned(priv[c], reg[c], meas[c], points[c])' <=> Scanned(priv[c], reg[c], meas[c], points[c])
      BY <1>1 DEF Scanned, SetUp, HalfWidth
    <3> QED BY <1>1, <1>5, <1>6, <3>1 DEF ScanInv, ChannelsInv, Fallow
  <2> QED BY <2>1 DEF ChannelsInv
<1>8. ScanType'
  BY <1>1, <1>3 DEF ScanInv, ScanType
<1>9. Unwritten'
  BY <1>1, <1>20, <1>3, <1>7 DEF ScanInv, Unwritten, ChannelsInv, Begun, Fallow
<1>10. RoundInv'
  BY <1>1, <1>20, <1>3, <1>4 DEF ScanInv, RoundInv
<1>11. TargetInv'
  <2>1. CASE thread.pc = "preset"
    BY <1>1, <1>20, <1>3, <2>1 DEF ScanInv, TargetInv, Reached
  <2>2. CASE thread.pc = "start"
    <3>1. Reached(target, thread.ch, int_data_width(reg[thread.ch]))
      BY <2>2 DEF ScanInv, TargetInv
    <3>2. Reached(target, thread.ch + 1, int_data_width(reg[thread.ch + 1]))
      BY <1>4, <3>1, ReachedNext
    <3> QED BY <1>1, <1>20, <1>3, <2>2, <3>2 DEF TargetInv
  <2> QED BY <1>1, <2>1, <2>2
<1> QED BY <1>7, <1>8, <1>9, <1>10, <1>11 DEF ScanInv

\* Registers that give the same width.
SameWidth(r, s) == DOMAIN s = DOMAIN r /\ s.dw = r.dw /\ s.idw = r.idw
\* The updates of a preset keep it.
LEMMA WidthUpdates ==
  ASSUME NEW r, NEW lost, Sampler \subseteq DOMAIN r
  PROVE  /\ SameWidth(r, HoldReset(r, lost)) /\ SameWidth(r, Release(r, lost))
         /\ SameWidth(r, PowerUp(r, lost))
         /\ \A k : SameWidth(r, Select(r, lost, k)) /\ SameWidth(r, BaseTable(r, lost, k))
         /\ \A x, p : SameWidth(r, EqTable(r, lost, x, p))
         /\ SameWidth(r, RxReset(r, lost)) /\ SameWidth(r, TxReset(r, lost))
<1>1. SameWidth(r, HoldReset(r, lost))
  BY DEF SameWidth, HoldReset, Sampler
<1>2. SameWidth(r, Release(r, lost))
  BY DEF SameWidth, Release, Sampler
<1>3. SameWidth(r, PowerUp(r, lost))
  BY DEF SameWidth, PowerUp, Sampler
<1>4. ASSUME NEW k PROVE SameWidth(r, Select(r, lost, k))
  BY DEF SameWidth, Select, Sampler
<1>5. ASSUME NEW k PROVE SameWidth(r, BaseTable(r, lost, k))
  BY DEF SameWidth, BaseTable, Sampler
<1>6. ASSUME NEW x, NEW p PROVE SameWidth(r, EqTable(r, lost, x, p))
  <2>1. PICK e, b, l : EqTable(r, lost, x, p) = [r EXCEPT !.eq = e, !.rx_lpm_en = b, !.lost = l]
    BY DEF EqTable
  <2> QED BY <2>1 DEF SameWidth, Sampler
<1>7. SameWidth(r, RxReset(r, lost))
  BY DEF SameWidth, RxReset, Sampler
<1>8. SameWidth(r, TxReset(r, lost))
  BY DEF SameWidth, TxReset, Sampler
<1> QED BY <1>1, <1>2, <1>3, <1>4, <1>5, <1>6, <1>7, <1>8, Zenon

\* So does a preset, in every family.
LEMMA PresetWidth ==
  ASSUME NEW r, Sampler \subseteq DOMAIN r, NEW lost, NEW p, family \in Families
  PROVE  SameWidth(r, gt_ch_load_preset(r, lost, p))
<1>1. family \in {"gthe3", "gthe4", "gtye3", "gtye4"}
  BY TransceiverAssumption
<1>2. ASSUME NEW s, SameWidth(r, s)
      PROVE  /\ SameWidth(r, HoldReset(s, lost)) /\ SameWidth(r, Release(s, lost))
             /\ SameWidth(r, PowerUp(s, lost))
             /\ \A k : SameWidth(r, Select(s, lost, k)) /\ SameWidth(r, BaseTable(s, lost, k))
             /\ \A x : SameWidth(r, EqTable(s, lost, x, p))
  <2>1. Sampler \subseteq DOMAIN s
    BY <1>2 DEF SameWidth
  <2>2. \A z : SameWidth(s, z) => SameWidth(r, z)
    BY <1>2 DEF SameWidth
  <2> QED BY <2>1, <2>2, WidthUpdates, Zenon
<1>3. SameWidth(r, r) /\ SameWidth(r, HoldReset(r, lost))
  BY <1>2 DEF SameWidth
<1>4. SameWidth(r, Select(HoldReset(PowerUp(r, lost), lost), lost, 1))
      /\ SameWidth(r, Select(HoldReset(r, lost), lost, 0))
  BY <1>2, <1>3
<1>5. \A s, x : SameWidth(r, s) => SameWidth(r, Release(EqTable(s, lost, x, p), lost))
  BY <1>2
<1>6. \A s, x, k : SameWidth(r, s) => SameWidth(r, Release(EqTable(BaseTable(s, lost, k), lost, x, p), lost))
  BY <1>2, <1>5
<1>7. \A x : SameWidth(r, Gty10G(r, lost, x, p)) /\ SameWidth(r, Gty25G(r, lost, x, p))
  BY <1>3, <1>4, <1>6 DEF Gty10G, Gty25G
<1>8. CASE family = "gthe3"
  BY <1>3, <1>5, <1>8 DEF gt_ch_load_preset, gthe3_ch_load_preset
<1>9. CASE family = "gthe4"
  BY <1>3, <1>5, <1>9 DEF gt_ch_load_preset, gthe4_ch_load_preset
<1>10. CASE family = "gtye3"
  BY <1>3, <1>7, <1>10 DEF gt_ch_load_preset, gtye3_ch_load_preset
<1>11. CASE family = "gtye4"
  BY <1>3, <1>7, <1>11 DEF gt_ch_load_preset, gtye4_ch_load_preset
<1> QED BY <1>1, <1>8, <1>9, <1>10, <1>11

\* Presets are loaded before anything is measured.
LEMMA LoadPresetScan ==
  ASSUME XcvrInv, ScanInv, LoadPreset
  PROVE  ScanInv'
<1>1. /\ thread.pc = "preset"
      /\ meas' = meas /\ priv' = priv /\ target' = target /\ points' = points /\ xopt' = xopt
  BY DEF LoadPreset
<1>2. /\ thread' \in ThreadRec /\ thread'.done = thread.done
      /\ \/ thread'.pc = thread.pc
         \/ thread'.pc \in {"start", "end"} /\ thread'.ch = 0
  <2>1. PICK then \in {"start", "end"} : NextCh(then)
    BY DEF LoadPreset, AfterPresets
  <2> QED BY <2>1, NextChannel DEF ScanInv
<1>3. PICK c : c = thread.ch /\ c \in Channels
  BY DEF ScanInv, ScanType, ThreadRec
<1>4. /\ family \in Families /\ DOMAIN reg = Channels /\ Sampler \subseteq DOMAIN reg[c]
  BY <1>3 DEF XcvrInv, ScanInv, ScanType
<1>5. PICK lost \in Losses :
        reg' = [reg EXCEPT ![c] =
                 LET r == gt_ch_load_preset(@, lost, xopt.preset) IN
                 IF xopt.reset THEN TxReset(RxReset(r, lost), lost) ELSE r]
  BY <1>3 DEF LoadPreset
<1>6. PICK r : r = gt_ch_load_preset(reg[c], lost, xopt.preset) /\ SameWidth(reg[c], r)
  BY <1>4, PresetWidth
<1>7. PICK s : s = (IF xopt.reset THEN TxReset(RxReset(r, lost), lost) ELSE r)
  OBVIOUS
<1>8. SameWidth(reg[c], s)
  <2>1. Sampler \subseteq DOMAIN r
    BY <1>4, <1>6 DEF SameWidth
  <2>2. PICK z : z = RxReset(r, lost) /\ SameWidth(r, z)
    BY <2>1, WidthUpdates
  <2>3. Sampler \subseteq DOMAIN z
    BY <2>1, <2>2 DEF SameWidth
  <2>4. SameWidth(z, TxReset(z, lost))
    BY <2>3, WidthUpdates
  <2>5. SameWidth(reg[c], TxReset(z, lost))
    BY <1>6, <2>2, <2>4 DEF SameWidth
  <2> QED BY <1>6, <1>7, <2>2, <2>5
<1>9. reg' = [reg EXCEPT ![c] = s]
  BY <1>5, <1>6, <1>7
<1>10. ASSUME NEW k \in Channels
       PROVE  /\ Sampler \subseteq DOMAIN reg'[k]
              /\ reg'[k].dw \in RawWidths /\ reg'[k].idw = IDW
  <2>1. CASE k = c
    <3>1. reg'[k] = s
      BY <1>3, <1>4, <1>9, <2>1
    <3> QED BY <1>3, <1>8, <2>1, <3>1 DEF SameWidth, ScanInv, ScanType
  <2>2. CASE k # c
    <3>1. reg'[k] = reg[k]
      BY <1>4, <1>9, <2>2
    <3> QED BY <3>1 DEF ScanInv, ScanType
  <2> QED BY <2>1, <2>2
<1>11. ScanType'
  BY <1>1, <1>2, <1>10 DEF ScanInv, ScanType
<1>12. \A k \in Channels : ~Begun(k) /\ ~Begun(k)'
  BY <1>1, <1>2 DEF Begun, Channels, ThreadRec
<1>13. ChannelsInv' /\ Unwritten'
  BY <1>1, <1>2, <1>12 DEF ScanInv, ChannelsInv, Fallow, Unwritten
<1>14. RoundInv' /\ TargetInv'
  BY <1>1, <1>2 DEF ScanInv, RoundInv, TargetInv, Reached
<1> QED BY <1>11, <1>13, <1>14 DEF ScanInv

\* What a channel is does not change with its sampler.
LEMMA KeptWidth ==
  ASSUME NEW r, NEW s, Kept(r, s)
  PROVE  int_data_width(s) = int_data_width(r)
  BY DEF Kept, int_data_width

\* The channel the tool is starting.
LEMMA AtStart ==
  ASSUME XcvrInv, ScanInv, thread.pc = "start"
  PROVE  LET c == thread.ch  w == int_data_width(reg[c])  q == Prescale(w, target) IN
         /\ c \in Channels /\ Sampler \subseteq DOMAIN reg[c] /\ w \in IntWidths
         /\ q \in 0..MaxPrescale /\ q <= MaxPrescale - 3 + c
         /\ Bits(w, q) \in Nat /\ Bits(w, q) >= TARGET
<1>1. PICK c : c = thread.ch
  OBVIOUS
<1>2. c \in Channels /\ Sampler \subseteq DOMAIN reg[c] /\ target \in Int
  BY <1>1 DEF ScanInv, ScanType, ThreadRec
<1>3. PICK w : w = int_data_width(reg[c])
  OBVIOUS
<1>4. w \in IntWidths
  BY <1>2, <1>3, Widths DEF ScanInv, ScanType
<1>5. Reached(target, c, w)
  BY <1>1, <1>3 DEF ScanInv, TargetInv
<1>6. PICK q : q = Prescale(w, target)
  OBVIOUS
<1>7. q \in 0..MaxPrescale /\ q <= MaxPrescale - 3 + c /\ Bits(w, q) >= target /\ target >= TARGET
  BY <1>2, <1>4, <1>5, <1>6, Chosen
<1>8. Bits(w, q) \in Nat
  BY <1>4, <1>7, BitsGrow
<1>9. Bits(w, q) >= TARGET
  BY <1>2, <1>7, <1>8, TransceiverAssumption
<1> QED BY <1>1, <1>2, <1>3, <1>4, <1>6, <1>7, <1>8, <1>9

\* The types, when one channel changes.
LEMMA OneType ==
  ASSUME XcvrInv, ScanInv, NEW c \in Channels, NEW r, Kept(reg[c], r), reg' = [reg EXCEPT ![c] = r],
         xopt' = xopt, thread' \in ThreadRec, target' \in Int, DOMAIN meas' = Channels,
         priv' \in [Channels -> PrivRec], points' \in [Channels -> Seq(PointRec)]
  PROVE  ScanType'
<1>1. DOMAIN reg = Channels
  BY DEF XcvrInv
<1>2. ASSUME NEW k \in Channels
      PROVE  Sampler \subseteq DOMAIN reg'[k] /\ reg'[k].dw \in RawWidths /\ reg'[k].idw = IDW
  <2>1. CASE k = c
    <3>1. reg'[k] = r
      BY <1>1, <2>1
    <3> QED BY <2>1, <3>1 DEF Kept, ScanInv, ScanType
  <2>2. CASE k # c
    <3>1. reg'[k] = reg[k]
      BY <1>1, <2>2
    <3> QED BY <3>1 DEF ScanInv, ScanType
  <2> QED BY <2>1, <2>2
<1>3. xopt.mask \subseteq Channels
  BY DEF ScanInv, ScanType
<1> QED BY <1>2, <1>3 DEF ScanType

\* A channel that is left alone.
LEMMA Untouched ==
  ASSUME NEW k, family' = family, priv'[k] = priv[k], reg'[k] = reg[k], meas'[k] = meas[k],
         points'[k] = points[k], Scanned(priv[k], reg[k], meas[k], points[k])
  PROVE  Scanned(priv[k], reg[k], meas[k], points[k])'
  BY DEF Scanned, SetUp, HalfWidth

\* An attempt to align.
LEMMA AlignScan ==
  ASSUME XcvrInv, ScanInv, NEW o, Align(o)
  PROVE  ScanInv'
<1>1. PICK c : c = thread.ch /\ c \in Channels
  BY DEF ScanInv, ScanType, ThreadRec
<1>2. /\ thread.pc = "start" /\ c \in xopt.mask /\ family' = family /\ xopt' = xopt
      /\ priv' = [priv EXCEPT ![c].running = FALSE]
      /\ meas' = meas /\ points' = points /\ DOMAIN reg = Channels
  BY <1>1 DEF Align, XcvrInv
<1>3. PICK w : w = int_data_width(reg[c])
  OBVIOUS
<1>4. PICK q : q = Prescale(w, target)
  OBVIOUS
<1>5. /\ Sampler \subseteq DOMAIN reg[c] /\ w \in IntWidths /\ q \in 0..MaxPrescale
      /\ q <= MaxPrescale - 3 + c /\ Bits(w, q) \in Nat /\ Bits(w, q) >= TARGET
  BY <1>1, <1>2, <1>3, <1>4, AtStart
<1>6. target' = Bits(w, q)
  BY <1>1, <1>3, <1>4 DEF Align
<1>7. PICK a : a = gt_ch_eyescan_start(reg[c], FALSE, target)
  OBVIOUS
<1>8. Kept(reg[c], a)
  BY <1>5, <1>7, StartKeeps DEF XcvrInv
<1> DEFINE high == [a EXCEPT !.horz = 2048]
           r == IF o = "high" THEN high ELSE a
<1>10. Kept(reg[c], r)
  <2>1. Kept(a, high)
    BY <1>5, <1>8 DEF Kept, Sampler
  <2> HIDE DEF high
  <2> QED BY <1>8, <2>1 DEF Kept
<1>11. reg' = [reg EXCEPT ![c] = r]
  BY <1>1, <1>7 DEF Align
<1> HIDE DEF r
<1>12. thread' \in ThreadRec /\ thread'.ch = thread.ch /\ thread'.pc \in {"start", "failed"}
       /\ thread'.done = thread.done
  <2>1. thread \in ThreadRec
    BY DEF ScanInv, ScanType
  <2>2. PICK k \in Int : k = thread.tries + 1
    BY <2>1 DEF ThreadRec
  <2>3. thread' = [thread EXCEPT !.tries = k] \/ thread' = [thread EXCEPT !.pc = "failed"]
    BY <2>2 DEF Align
  <2>4. thread' = [pc |-> thread.pc, ch |-> thread.ch, tries |-> k, done |-> thread.done]
        \/ thread' = [pc |-> "failed", ch |-> thread.ch, tries |-> thread.tries, done |-> thread.done]
    BY <2>1, <2>3 DEF ThreadRec
  <2>5. /\ thread.pc \in {"preset", "start", "scan", "done", "failed", "end"} /\ thread.done \in BOOLEAN
        /\ thread.ch \in Channels /\ thread.tries \in Int
    BY <2>1 DEF ThreadRec
  <2>6. thread' \in ThreadRec
    BY <2>2, <2>4, <2>5 DEF ThreadRec
  <2> QED BY <1>2, <2>4, <2>6
<1>13. priv \in [Channels -> PrivRec] /\ priv' \in [Channels -> PrivRec] /\ ~priv'[c].running
       /\ \A k \in Channels : k # c => priv'[k] = priv[k]
  <2>1. priv \in [Channels -> PrivRec]
    BY DEF ScanInv, ScanType
  <2>2. PICK p : p = [priv[c] EXCEPT !.running = FALSE]
    OBVIOUS
  <2>3. p \in PrivRec /\ ~p.running
    BY <1>1, <2>1, <2>2 DEF PrivRec
  <2>4. priv' = [priv EXCEPT ![c] = p]
    BY <1>2, <2>2
  <2> QED BY <1>1, <2>1, <2>3, <2>4
<1>14. ScanType'
  <2>1. DOMAIN meas' = Channels /\ points' \in [Channels -> Seq(PointRec)] /\ target' \in Int
    BY <1>2, <1>5, <1>6 DEF ScanInv, ScanType
  <2> QED BY <1>1, <1>2, <1>10, <1>11, <1>12, <1>13, <2>1, OneType
<1>15. \A k \in Channels : points'[k] = <<>>
  BY <1>2 DEF ScanInv, Unwritten
<1>16. ChannelsInv'
  <2>1. ASSUME NEW k \in Channels
        PROVE  IF Begun(k)' THEN Scanned(priv[k], reg[k], meas[k], points[k])'
               ELSE Fallow(priv[k], reg[k], points[k])'
    <3>1. k \in Int /\ c \in Int
      BY <1>1 DEF Channels
    <3>2. CASE thread'.pc = "failed"
      <4>1. ~Begun(k)'
        BY <3>2 DEF Begun
      <4>2. CASE k = c
        BY <1>13, <1>15, <4>1, <4>2 DEF Fallow
      <4>3. CASE k # c /\ Begun(k)
        <5>1. reg'[k] = reg[k] /\ priv'[k] = priv[k]
          BY <1>2, <1>11, <1>13, <4>3
        <5>2. SetUp(priv[k], reg[k])
          BY <4>3 DEF ScanInv, ChannelsInv, Scanned
        <5>3. SetUp(priv[k], reg[k])'
          BY <1>2, <5>1, <5>2 DEF SetUp, HalfWidth
        <5> QED BY <1>15, <3>2, <4>1, <5>3 DEF Fallow
      <4>4. CASE k # c /\ ~Begun(k)
        BY <1>2, <1>13, <1>15, <4>1, <4>4 DEF Fallow, ScanInv, ChannelsInv
      <4> QED BY <4>2, <4>3, <4>4
    <3>3. CASE thread'.pc = "start"
      <4>1. Begun(k)' <=> Begun(k)
        BY <1>2, <1>12, <3>3 DEF Begun
      <4>2. CASE Begun(k)
        <5>1. k # c
          BY <1>1, <1>2, <3>1, <4>2 DEF Begun
        <5>2. reg'[k] = reg[k]
          BY <1>2, <1>11, <5>1
        <5> QED BY <1>2, <1>13, <4>1, <4>2, <5>1, <5>2, Untouched DEF ScanInv, ChannelsInv
      <4>3. CASE ~Begun(k)
        <5>1. ~priv'[k].running
          BY <1>2, <1>13, <4>3 DEF ScanInv, ChannelsInv, Fallow
        <5> QED BY <1>15, <4>1, <4>3, <5>1 DEF Fallow
      <4> QED BY <4>2, <4>3
    <3> QED BY <1>12, <3>2, <3>3
  <2> QED BY <2>1 DEF ChannelsInv
<1>17. Unwritten' /\ RoundInv'
  BY <1>2, <1>12, <1>15 DEF Unwritten, RoundInv, ScanInv
<1>18. TargetInv'
  <2>1. int_data_width(reg'[c]) = w
    <3>1. reg'[c] = r
      BY <1>1, <1>2, <1>11
    <3> QED BY <1>3, <1>10, <3>1, KeptWidth
  <2>2. Reached(target', c, w)
    <3>1. q \in Nat
      BY <1>5, TransceiverAssumption
    <3> QED BY <1>5, <1>6, <3>1 DEF Reached
  <2>3. thread'.ch = c
    BY <1>1, <1>12
  <2> QED BY <1>12, <2>1, <2>2, <2>3 DEF TargetInv
<1> QED BY <1>14, <1>16, <1>17, <1>18 DEF ScanInv

\* The first measurement of a channel.
LEMMA MeasureScan ==
  ASSUME XcvrInv, ScanInv, Measure
  PROVE  ScanInv'
<1>1. PICK c : c = thread.ch /\ c \in Channels
  BY DEF ScanInv, ScanType, ThreadRec
<1>2. PICK w : w = int_data_width(reg[c])
  OBVIOUS
<1>3. PICK q : q = Prescale(w, target)
  OBVIOUS
<1>4. PICK r : r = gt_ch_eyescan_start(reg[c], TRUE, target)
  OBVIOUS
<1>5. thread.pc = "start" /\ c \in xopt.mask /\ family' = family /\ xopt' = xopt /\ points' = points
      /\ DOMAIN reg = Channels /\ family \in Families
  BY <1>1 DEF Measure, XcvrInv
<1>6. /\ Sampler \subseteq DOMAIN reg[c] /\ w \in IntWidths /\ q \in 0..MaxPrescale
      /\ q <= MaxPrescale - 3 + c /\ Bits(w, q) \in Nat /\ Bits(w, q) >= TARGET
  BY <1>1, <1>2, <1>3, <1>5, AtStart
<1>7. /\ Kept(reg[c], r) /\ r.mask = SdataMask(HalfWidth, w) /\ r.prescale = q
      /\ Place(r) = [h |-> -H_STOP, v |-> -V_STOP, ut |-> 0]
  BY <1>2, <1>3, <1>4, <1>5, <1>6, StartFields
<1>8. PICK dfe : dfe = ~reg[c].rx_lpm_en
  OBVIOUS
<1>9. dfe \in BOOLEAN
  BY <1>8
<1>10. PICK p : p = [running |-> TRUE, dfe_en |-> dfe, width |-> w, prescale |-> q,
                     h |-> -H_STOP, v |-> -V_STOP, ut |-> 0]
  OBVIOUS
<1>11. /\ priv' = [priv EXCEPT ![c] = p] /\ target' = Bits(w, q)
       /\ meas' = [meas EXCEPT ![c] = Place(r)] /\ reg' = [reg EXCEPT ![c] = r]
  BY <1>1, <1>2, <1>4, <1>7, <1>8, <1>10 DEF Measure, XcvrStart
<1>12. /\ p \in PrivRec /\ p.running /\ p.dfe_en = dfe /\ p.width = w /\ p.prescale = q
       /\ p.h = -H_STOP /\ p.v = -V_STOP /\ p.ut = 0
  <2>1. w \in Int /\ q \in Int /\ -H_STOP \in Int /\ -V_STOP \in Int
    BY <1>6, Widths, TransceiverAssumption
  <2> QED BY <1>9, <1>10, <2>1 DEF PrivRec
<1>13. /\ thread' \in ThreadRec /\ thread'.done = thread.done
       /\ \/ thread'.pc = "start" /\ thread'.ch = c + 1
          \/ thread'.pc = "scan" /\ thread'.ch = 0 /\ c = CH_COUNT - 1
  <2>1. NextCh("scan")
    BY DEF Measure
  <2> QED BY <1>1, <1>5, <2>1, NextChannel DEF ScanInv
<1>14. priv \in [Channels -> PrivRec] /\ DOMAIN meas = Channels /\ points \in [Channels -> Seq(PointRec)]
  BY DEF ScanInv, ScanType
<1>15. ScanType'
  <2>1. priv' \in [Channels -> PrivRec] /\ DOMAIN meas' = Channels /\ points' \in [Channels -> Seq(PointRec)]
    BY <1>5, <1>11, <1>12, <1>14
  <2>2. target' \in Int
    BY <1>6, <1>11
  <2> QED BY <1>1, <1>5, <1>7, <1>11, <1>13, <2>1, <2>2, OneType
<1>16. \A k \in Channels : points'[k] = <<>>
  BY <1>5 DEF ScanInv, Unwritten
<1>17. Scanned(priv[c], reg[c], meas[c], points[c])'
  <2>1. priv'[c] = p /\ reg'[c] = r /\ meas'[c] = Spot(p) /\ points'[c] = <<>> /\ HalfWidth' = HalfWidth
    <3>1. priv'[c] = p /\ reg'[c] = r /\ meas'[c] = Place(r)
      BY <1>1, <1>5, <1>11, <1>14
    <3>2. Place(r) = Spot(p)
      BY <1>7, <1>12 DEF Spot
    <3> QED BY <1>1, <1>5, <1>16, <3>1, <3>2 DEF HalfWidth
  <2>2. r.rx_lpm_en = reg[c].rx_lpm_en /\ int_data_width(r) = w
    BY <1>2, <1>7, KeptWidth DEF Kept
  <2>3. SetUp(p, r)
    BY <1>6, <1>7, <1>8, <1>12, <2>2 DEF SetUp
  <2>4. Standing(p, 0)
    <3>1. 0 \in 0..NH-1 /\ 0 \in 0..NV-1 /\ Signs(p) \in {1, 2}
      BY GridSizes DEF Signs
    <3>2. /\ p.h = -H_STOP + GRID_STEP * 0 /\ p.v = -V_STOP + GRID_STEP * 0
          /\ p.ut < Signs(p) /\ 0 = (0 * NV + 0) * Signs(p) + p.ut
      BY <1>12, <3>1, GridSizes, TransceiverAssumption
    <3> QED BY <3>1, <3>2 DEF Standing
  <2>5. Len(<<>>) = 0 /\ 1..0 = {}
    OBVIOUS
  <2>6. Place(r) = Spot(p)
    BY <1>7, <1>12 DEF Spot
  <2>7. Scanned(p, r, Spot(p), <<>>)
    BY <1>12, <2>3, <2>4, <2>5, <2>6 DEF Scanned
  <2>8. Scanned(p, r, Spot(p), <<>>)'
    <3>1. SetUp(p, r)'
      BY <2>1, <2>3 DEF SetUp
    <3> QED BY <2>7, <3>1 DEF Scanned
  <2> QED BY <2>1, <2>8 DEF Scanned, SetUp
<1>18. ChannelsInv'
  <2>1. ASSUME NEW k \in Channels
        PROVE  IF Begun(k)' THEN Scanned(priv[k], reg[k], meas[k], points[k])'
               ELSE Fallow(priv[k], reg[k], points[k])'
    <3>1. CASE k = c
      <4>1. Begun(c)'
        <5>1. c < c + 1
          BY <1>1 DEF Channels
        <5> QED BY <1>5, <1>13, <5>1 DEF Begun
      <4> QED BY <1>17, <3>1, <4>1
    <3>2. CASE k # c
      <4>1. priv'[k] = priv[k] /\ reg'[k] = reg[k] /\ meas'[k] = meas[k] /\ points'[k] = points[k]
        BY <1>5, <1>11, <1>14, <3>2
      <4>2. Begun(k)' <=> Begun(k)
        <5>1. k \in 0..CH_COUNT-1 /\ c \in 0..CH_COUNT-1 /\ CH_COUNT \in Nat
          BY <1>1, TransceiverAssumption DEF Channels
        <5> QED BY <1>1, <1>5, <1>13, <3>2, <5>1 DEF Begun
      <4>3. CASE Begun(k)
        BY <1>5, <4>1, <4>2, <4>3, Untouched DEF ScanInv, ChannelsInv
      <4>4. CASE ~Begun(k)
        BY <1>5, <4>1, <4>2, <4>4 DEF ScanInv, ChannelsInv, Fallow
      <4> QED BY <4>3, <4>4
    <3> QED BY <3>1, <3>2
  <2> QED BY <2>1 DEF ChannelsInv
<1>19. Unwritten' /\ RoundInv'
  <2>1. \A k \in xopt.mask : ~(k < 0)
    BY DEF ScanInv, ScanType, Channels
  <2> QED BY <1>5, <1>13, <1>16, <2>1 DEF Unwritten, RoundInv, ScanInv
<1>20. TargetInv'
  <2>1. \A x : Reached(target', c + 1, x)
    <3>1. q \in Nat /\ q <= MaxPrescale - 4 + (c + 1)
      BY <1>1, <1>6, TransceiverAssumption DEF Channels
    <3> QED BY <1>6, <1>11, <3>1 DEF Reached
  <2> QED BY <1>13, <2>1 DEF TargetInv
<1> QED BY <1>15, <1>18, <1>19, <1>20 DEF ScanInv

\* The end of a step of the scan loop.
LEMMA Stepped ==
  ASSUME ScanType, thread.pc = "scan", NEW ret \in {0, 1, 2}, EndStep(ret)
  PROVE  /\ thread' \in ThreadRec
         /\ \/ /\ thread'.pc = "scan" /\ thread'.ch = thread.ch + 1
               /\ thread'.done => thread.done /\ ret = 0
            \/ /\ thread'.pc = "done" /\ thread.ch = CH_COUNT - 1
               /\ thread.done /\ ret = 0
            \/ thread'.pc = "scan" /\ thread'.ch = 0
<1>1. thread \in ThreadRec /\ thread.ch \in 0..CH_COUNT-1 /\ CH_COUNT \in Nat \ {0}
  BY TransceiverAssumption DEF ScanType, ThreadRec, Channels
<1>2. thread = [pc |-> "scan", ch |-> thread.ch, tries |-> thread.tries, done |-> thread.done]
  BY <1>1 DEF ThreadRec
<1>3. thread.tries \in Int /\ thread.done \in BOOLEAN /\ 0 \in Channels
  BY <1>1 DEF ThreadRec, Channels
<1>4. PICK done : done = (thread.done /\ ret = 0)
  OBVIOUS
<1>5. done \in BOOLEAN
  BY <1>4
<1>6. CASE thread.ch + 1 < CH_COUNT
  <2>1. PICK k \in Channels : k = thread.ch + 1
    BY <1>1, <1>6 DEF Channels
  <2>2. thread' = [thread EXCEPT !.ch = k, !.done = done]
    BY <1>4, <1>6, <2>1 DEF EndStep
  <2>3. thread' = [pc |-> "scan", ch |-> k, tries |-> thread.tries, done |-> done]
    BY <1>2, <2>2
  <2>4. thread' \in ThreadRec
    BY <1>3, <1>5, <2>1, <2>3 DEF ThreadRec
  <2>5. thread'.pc = "scan" /\ thread'.ch = k /\ thread'.done = done
    BY <2>3
  <2>6. thread'.done => thread.done /\ ret = 0
    BY <1>4, <2>5
  <2> QED BY <2>1, <2>4, <2>5, <2>6
<1>7. CASE ~(thread.ch + 1 < CH_COUNT) /\ done
  <2>1. thread' = [thread EXCEPT !.pc = "done", !.ch = 0]
    BY <1>4, <1>7 DEF EndStep
  <2>2. thread' = [pc |-> "done", ch |-> 0, tries |-> thread.tries, done |-> thread.done]
    BY <1>2, <2>1
  <2>3. thread' \in ThreadRec
    BY <1>3, <2>2 DEF ThreadRec
  <2>4. thread'.pc = "done" /\ thread.ch = CH_COUNT - 1
    BY <1>1, <1>7, <2>2
  <2>5. thread.done /\ ret = 0
    BY <1>4, <1>7
  <2> QED BY <2>3, <2>4, <2>5
<1>8. CASE ~(thread.ch + 1 < CH_COUNT) /\ ~done
  <2>1. thread' = [thread EXCEPT !.ch = 0, !.done = TRUE]
    BY <1>4, <1>8 DEF EndStep
  <2>2. thread' = [pc |-> "scan", ch |-> 0, tries |-> thread.tries, done |-> TRUE]
    BY <1>2, <2>1
  <2>3. thread' \in ThreadRec
    BY <1>3, <2>2 DEF ThreadRec
  <2> QED BY <2>2, <2>3
<1> QED BY <1>5, <1>6, <1>7, <1>8

\* A channel with nothing to report.
LEMMA StepIdleScan ==
  ASSUME ScanInv, StepIdle
  PROVE  ScanInv'
<1>1. /\ thread.pc = "scan" /\ family' = family /\ xopt' = xopt /\ reg' = reg /\ meas' = meas
      /\ priv' = priv /\ target' = target /\ points' = points
  BY DEF StepIdle
<1>2. PICK ret \in {0, 1, 2} :
         EndStep(ret) /\ (ret = 0 => thread.ch \notin xopt.mask \/ ~priv[thread.ch].running)
  BY DEF StepIdle
<1>3. /\ thread' \in ThreadRec
      /\ \/ /\ thread'.pc = "scan" /\ thread'.ch = thread.ch + 1
            /\ thread'.done => thread.done /\ ret = 0
         \/ /\ thread'.pc = "done" /\ thread.ch = CH_COUNT - 1
            /\ thread.done /\ ret = 0
         \/ thread'.pc = "scan" /\ thread'.ch = 0
  BY <1>1, <1>2, Stepped DEF ScanInv
<1>4. ScanType'
  BY <1>1, <1>3 DEF ScanInv, ScanType
<1>5. ChannelsInv'
  <2>1. ASSUME NEW k \in Channels
        PROVE  IF Begun(k)' THEN Scanned(priv[k], reg[k], meas[k], points[k])'
               ELSE Fallow(priv[k], reg[k], points[k])'
    <3>1. Begun(k)' <=> Begun(k)
      BY <1>1, <1>3 DEF Begun
    <3>2. CASE Begun(k)
      BY <1>1, <3>1, <3>2, Untouched DEF ScanInv, ChannelsInv
    <3>3. CASE ~Begun(k)
      BY <1>1, <3>1, <3>3 DEF ScanInv, ChannelsInv, Fallow
    <3> QED BY <3>2, <3>3
  <2> QED BY <2>1 DEF ChannelsInv
<1>6. RoundInv'
  <2>1. ASSUME thread.done, ret = 0, NEW k \in xopt.mask, k < thread.ch + 1
        PROVE  ~priv[k].running
    <3>1. k \in Int /\ thread.ch \in Int
      BY DEF ScanInv, ScanType, ThreadRec, Channels
    <3>2. CASE k = thread.ch
      BY <1>2, <2>1, <3>2
    <3>3. CASE k < thread.ch
      BY <1>1, <2>1, <3>3 DEF ScanInv, RoundInv
    <3> QED BY <2>1, <3>1, <3>2, <3>3
  <2>2. \A k \in xopt.mask : k \in 0..CH_COUNT-1 /\ ~(k < 0)
    BY TransceiverAssumption DEF ScanInv, ScanType, Channels
  <2>3. CASE thread'.pc = "scan" /\ thread'.ch = thread.ch + 1 /\ (thread'.done => thread.done /\ ret = 0)
    BY <1>1, <2>1, <2>3 DEF RoundInv
  <2>4. CASE thread'.pc = "done" /\ thread.ch = CH_COUNT - 1 /\ thread.done /\ ret = 0
    <3>1. ASSUME NEW k \in xopt.mask PROVE ~priv[k].running
      <4>1. k < thread.ch + 1
        BY <2>2, <2>4, TransceiverAssumption
      <4> QED BY <2>1, <2>4, <4>1
    <3> QED BY <1>1, <2>4, <3>1 DEF RoundInv
  <2>5. CASE thread'.pc = "scan" /\ thread'.ch = 0
    BY <1>1, <2>2, <2>5 DEF RoundInv
  <2> QED BY <1>3, <2>3, <2>4, <2>5
<1>7. Unwritten' /\ TargetInv'
  BY <1>3 DEF Unwritten, TargetInv
<1> QED BY <1>4, <1>5, <1>6, <1>7 DEF ScanInv

\* A step of a scan, in every family.
LEMMA StepIsAdvance ==
  ASSUME NEW p, NEW r, family \in Families
  PROVE  \E horz : Codes(horz) /\ gt_ch_eyescan_step(p, r) = Advance(p, r, horz)
<1>1. family \in {"gthe3", "gthe4", "gtye3", "gtye4"}
  BY TransceiverAssumption
<1>2. Codes(HorzGth) /\ Codes(HorzGty)
  BY DEF Codes
<1>3. CASE family = "gthe3"
  BY <1>2, <1>3 DEF gt_ch_eyescan_step, gthe3_ch_eyescan_step
<1>4. CASE family = "gthe4"
  BY <1>2, <1>4 DEF gt_ch_eyescan_step, gthe4_ch_eyescan_step
<1>5. CASE family = "gtye3"
  BY <1>2, <1>5 DEF gt_ch_eyescan_step, gtye3_ch_eyescan_step
<1>6. CASE family = "gtye4"
  BY <1>2, <1>6 DEF gt_ch_eyescan_step, gtye4_ch_eyescan_step
<1> QED BY <1>1, <1>3, <1>4, <1>5, <1>6

\* The point that is written is the next of the grid.
LEMMA PointWritten ==
  ASSUME NEW p \in PrivRec, NEW n \in Nat, Standing(p, n)
  PROVE  PointOk(Signs(p), [x |-> p.h, y |-> p.v, ut |-> p.ut, at |-> Spot(p)], n + 1)
<1>1. Signs(p) \in {1, 2} /\ p.ut \in {0, 1}
  BY DEF Signs, PrivRec
<1>2. PICK a \in 0..NH-1, b \in 0..NV-1 :
        /\ p.h = -H_STOP + GRID_STEP * a /\ p.v = -V_STOP + GRID_STEP * b
        /\ p.ut < Signs(p) /\ n = (a * NV + b) * Signs(p) + p.ut
  BY DEF Standing
<1>3. p.ut \in 0..Signs(p)-1
  BY <1>1, <1>2
<1>4. Grid(Signs(p))[n+1] = [x |-> p.h, y |-> p.v, ut |-> p.ut]
  <2>1. PICK s \in {1, 2} : s = Signs(p)
    BY <1>1
  <2>2. PICK u \in 0..s-1 : u = p.ut
    BY <1>3, <2>1
  <2>3. n = (a * NV + b) * s + u
    BY <1>2, <2>1, <2>2
  <2>4. Grid(s)[n + 1] = Cell(a, b, u)
    BY <2>3, GridPoint
  <2> QED BY <1>2, <2>1, <2>2, <2>4 DEF Cell
<1> QED BY <1>4 DEF PointOk, Spot

\* A finished measurement.
LEMMA StepPointScan ==
  ASSUME XcvrInv, ScanInv, StepPoint
  PROVE  ScanInv'
<1>1. PICK c : c = thread.ch /\ c \in Channels
  BY DEF ScanInv, ScanType, ThreadRec
<1>2. PICK p : p = priv[c]
  OBVIOUS
<1>3. PICK x : x = gt_ch_eyescan_step(p, reg[c])
  OBVIOUS
<1>4. PICK q : q = [x |-> p.h, y |-> p.v, ut |-> p.ut, at |-> meas[c]]
  OBVIOUS
<1>5. /\ thread.pc = "scan" /\ c \in xopt.mask /\ p.running /\ family' = family /\ xopt' = xopt
      /\ target' = target /\ points' = [points EXCEPT ![c] = Append(points[c], q)]
      /\ priv' = [priv EXCEPT ![c] = x.priv] /\ EndStep(1)
  BY <1>1, <1>2, <1>3, <1>4 DEF StepPoint
<1>6. /\ reg' = [reg EXCEPT ![c] = x.reg]
      /\ IF x.priv.running THEN meas' = [meas EXCEPT ![c] = Place(x.reg)] ELSE meas' = meas
  BY <1>1, <1>2, <1>3 DEF StepPoint, XcvrStart
<1>7. /\ DOMAIN reg = Channels /\ family \in Families /\ DOMAIN meas = Channels
      /\ priv \in [Channels -> PrivRec] /\ points \in [Channels -> Seq(PointRec)] /\ target \in Int
      /\ p \in PrivRec /\ Sampler \subseteq DOMAIN reg[c] /\ points[c] \in Seq(PointRec)
      /\ reg[c].dw \in RawWidths /\ reg[c].idw = IDW
  BY <1>1, <1>2 DEF XcvrInv, ScanInv, ScanType
<1>8. Scanned(p, reg[c], meas[c], points[c])
  BY <1>1, <1>2, <1>5 DEF ScanInv, ChannelsInv, Begun
<1>9. PICK n \in Nat : n = Len(points[c])
  BY <1>7
<1>10. Standing(p, n) /\ Place(reg[c]) = Spot(p) /\ meas[c] = Spot(p) /\ SetUp(p, reg[c])
  BY <1>5, <1>8, <1>9 DEF Scanned
<1>11. PICK horz : Codes(horz) /\ x = Advance(p, reg[c], horz)
  BY <1>3, <1>7, StepIsAdvance
<1>12. /\ x.priv \in PrivRec /\ x.priv.dfe_en = p.dfe_en /\ x.priv.width = p.width
       /\ x.priv.prescale = p.prescale
       /\ Kept(reg[c], x.reg) /\ x.reg.mask = reg[c].mask /\ x.reg.prescale = reg[c].prescale
       /\ IF x.priv.running THEN Standing(x.priv, n + 1) /\ Place(x.reg) = Spot(x.priv)
          ELSE n + 1 = NH * NV * Signs(p)
  <2>1. PICK r : r = reg[c]
    OBVIOUS
  <2>2. Sampler \subseteq DOMAIN r /\ Place(r) = Spot(p) /\ x = Advance(p, r, horz)
    BY <1>7, <1>10, <1>11, <2>1
  <2>3. p \in PrivRec /\ p.running /\ Codes(horz) /\ Standing(p, n)
    BY <1>5, <1>7, <1>10, <1>11
  <2>4. Moves(p, r, n, x)
    BY <2>2, <2>3, AdvanceStands
  <2> QED BY <2>1, <2>4 DEF Moves
<1>14. q \in PointRec /\ PointOk(Signs(p), q, n + 1)
  <2>1. Spot(p) \in Spots /\ p.h \in Int /\ p.v \in Int /\ p.ut \in {0, 1}
    BY <1>7 DEF PrivRec, Spot, Spots
  <2>2. q = [x |-> p.h, y |-> p.v, ut |-> p.ut, at |-> Spot(p)]
    BY <1>4, <1>10
  <2>3. q \in PointRec
    BY <2>1, <2>2 DEF PointRec
  <2> QED BY <1>7, <1>9, <1>10, <2>2, <2>3, PointWritten
<1>15. PICK pts : pts = Append(points[c], q)
  OBVIOUS
<1>16. /\ pts \in Seq(PointRec) /\ Len(pts) = n + 1 /\ pts[n + 1] = q
       /\ \A i \in 1..n : pts[i] = points[c][i]
  BY <1>7, <1>9, <1>14, <1>15
<1>17. thread' \in ThreadRec /\ thread'.pc = "scan"
       /\ (thread'.ch = 0 \/ ~thread'.done)
  <2>1. /\ thread' \in ThreadRec
        /\ \/ /\ thread'.pc = "scan" /\ thread'.ch = thread.ch + 1
              /\ thread'.done => thread.done /\ 1 = 0
           \/ /\ thread'.pc = "done" /\ thread.ch = CH_COUNT - 1
              /\ thread.done /\ 1 = 0
           \/ thread'.pc = "scan" /\ thread'.ch = 0
    BY <1>5, Stepped DEF ScanInv
  <2> QED BY <2>1
<1>18. ScanType'
  <2>1. /\ priv' \in [Channels -> PrivRec] /\ DOMAIN meas' = Channels
        /\ points' \in [Channels -> Seq(PointRec)] /\ target' \in Int
    BY <1>5, <1>6, <1>7, <1>12, <1>15, <1>16
  <2> QED BY <1>1, <1>5, <1>6, <1>12, <1>17, <2>1, OneType
<1>19. Scanned(priv[c], reg[c], meas[c], points[c])'
  <2>1. PICK p2, r2 : p2 = x.priv /\ r2 = x.reg
    OBVIOUS
  <2>2. /\ priv'[c] = p2 /\ reg'[c] = r2 /\ points'[c] = pts /\ HalfWidth' = HalfWidth
        /\ p2.running => meas'[c] = Place(r2)
    BY <1>1, <1>5, <1>6, <1>7, <1>15, <2>1 DEF HalfWidth
  <2>3. Signs(p2) = Signs(p)
    BY <1>12, <2>1 DEF Signs
  <2>4. int_data_width(r2) = int_data_width(reg[c])
    BY <1>12, <2>1, KeptWidth
  <2>5. SetUp(p2, r2)
    BY <1>10, <1>12, <2>1, <2>4 DEF SetUp, Kept
  <2>6. ASSUME NEW i \in 1..n+1
        PROVE  PointOk(Signs(p2), pts[i], i)
    <3>1. CASE i = n + 1
      BY <1>14, <1>16, <2>3, <3>1
    <3>2. CASE i \in 1..n
      BY <1>8, <1>9, <1>16, <2>3, <3>2 DEF Scanned
    <3> QED BY <3>1, <3>2
  <2>7. IF p2.running THEN Standing(p2, n + 1) /\ Place(r2) = Spot(p2) /\ Place(r2) = Spot(p2)
        ELSE n + 1 = NH * NV * Signs(p2)
    BY <1>12, <2>1, <2>3
  <2>8. SetUp(p2, r2)'
    BY <2>2, <2>5 DEF SetUp
  <2>9. Scanned(p2, r2, meas[c], pts)'
    <3>1. CASE p2.running
      BY <1>16, <2>2, <2>6, <2>7, <2>8, <3>1 DEF Scanned
    <3>2. CASE ~p2.running
      BY <1>16, <2>2, <2>6, <2>7, <2>8, <3>2 DEF Scanned
    <3> QED BY <3>1, <3>2
  <2> QED BY <2>2, <2>9 DEF Scanned, SetUp
<1>20. ChannelsInv'
  <2>1. ASSUME NEW k \in Channels
        PROVE  IF Begun(k)' THEN Scanned(priv[k], reg[k], meas[k], points[k])'
               ELSE Fallow(priv[k], reg[k], points[k])'
    <3>1. Begun(k)' <=> Begun(k)
      BY <1>5, <1>17 DEF Begun
    <3>2. CASE k = c
      <4>1. Begun(c)'
        BY <1>5, <1>17 DEF Begun
      <4> QED BY <1>19, <3>2, <4>1
    <3>3. CASE k # c
      <4>1. priv'[k] = priv[k] /\ reg'[k] = reg[k] /\ meas'[k] = meas[k] /\ points'[k] = points[k]
        BY <1>5, <1>6, <1>7, <3>3
      <4>2. CASE Begun(k)
        BY <1>5, <3>1, <4>1, <4>2, Untouched DEF ScanInv, ChannelsInv
      <4>3. CASE ~Begun(k)
        BY <1>5, <1>17, <3>1, <4>1, <4>3 DEF ScanInv, ChannelsInv, Fallow
      <4> QED BY <4>2, <4>3
    <3> QED BY <3>2, <3>3
  <2> QED BY <2>1 DEF ChannelsInv
<1>21. Unwritten' /\ RoundInv' /\ TargetInv'
  <2>1. \A k \in xopt.mask : ~(k < 0)
    BY DEF ScanInv, ScanType, Channels
  <2> QED BY <1>5, <1>17, <2>1 DEF Unwritten, RoundInv, TargetInv
<1> QED BY <1>18, <1>20, <1>21 DEF ScanInv

\* The logic of a channel, and steps of others, change nothing of this.
LEMMA QuietScan ==
  ASSUME ScanInv, family' = family, xopt' = xopt, thread' = thread, reg' = reg, meas' = meas,
         priv' = priv, target' = target, points' = points
  PROVE  ScanInv'
<1>1. ScanType'
  BY DEF ScanInv, ScanType
<1>2. ChannelsInv'
  <2>1. ASSUME NEW k \in Channels
        PROVE  IF Begun(k)' THEN Scanned(priv[k], reg[k], meas[k], points[k])'
               ELSE Fallow(priv[k], reg[k], points[k])'
    <3>1. Begun(k)' <=> Begun(k)
      BY DEF Begun
    <3>2. CASE Begun(k)
      BY <3>1, <3>2, Untouched DEF ScanInv, ChannelsInv
    <3>3. CASE ~Begun(k)
      BY <3>1, <3>3 DEF ScanInv, ChannelsInv, Fallow, SetUp, HalfWidth
    <3> QED BY <3>2, <3>3
  <2> QED BY <2>1 DEF ChannelsInv
<1>3. Unwritten' /\ RoundInv' /\ TargetInv'
  BY DEF ScanInv, Unwritten, RoundInv, TargetInv
<1> QED BY <1>1, <1>2, <1>3 DEF ScanInv

\* The invariant.
LEMMA ScanInvariance == XcvrSpec => []ScanInv
<1>1. ASSUME XcvrInv, ScanInv, [XcvrNext]_xcvrVars
      PROVE  ScanInv'
  <2>1. CASE Skip
    BY <1>1, <2>1, SkipScan
  <2>2. CASE LoadPreset
    BY <1>1, <2>2, LoadPresetScan
  <2>3. ASSUME NEW o \in {"stuck", "high"}, Align(o) PROVE ScanInv'
    BY <1>1, <2>3, AlignScan
  <2>4. CASE Measure
    BY <1>1, <2>4, MeasureScan
  <2>5. CASE StepIdle
    BY <1>1, <2>5, StepIdleScan
  <2>6. CASE StepPoint
    BY <1>1, <2>6, StepPointScan
  <2>7. CASE UNCHANGED xcvrVars \/ \E c \in Channels : EyeDone(c)
    BY <1>1, <2>7, QuietScan DEF xcvrVars, EyeDone
  <2> QED BY <1>1, <2>1, <2>2, <2>3, <2>4, <2>5, <2>6, <2>7 DEF XcvrNext, XcvrTool
<1> QED BY <1>1, ScanStarts, XcvrInvariance, PTL DEF XcvrSpec

\* mqnic-xcvr, for every family, number of channels, mask, grid, width and target: when
\* the scan is done every selected channel has its whole grid, in order; every point
\* written was measured where the file says; and while a channel is scanned its
\* counter can count the bits that were asked for.
THEOREM ScansTruly == XcvrSpec => []ScanTrue
<1>1. ASSUME XcvrInv, ScanInv
      PROVE  ScanTrue
  <2>1. /\ DOMAIN points = Channels /\ priv \in [Channels -> PrivRec]
        /\ \A c \in Channels : points[c] \in Seq(PointRec)
    BY <1>1 DEF ScanInv, ScanType
  <2>2. ASSUME NEW c \in Channels, NEW i \in DOMAIN points[c]
        PROVE  /\ points[c][i].at = [h |-> points[c][i].x, v |-> points[c][i].y, ut |-> points[c][i].ut]
               /\ LET half == IF family = "gthe3" THEN 40 ELSE 80 IN
                  (0..half-1) \ reg[c].mask = (half - priv[c].width)..half-1
    <3>1. Begun(c)
      <4>1. points[c] # <<>>
        BY <2>2
      <4> QED BY <1>1, <4>1 DEF ScanInv, ChannelsInv, Fallow
    <3>2. Scanned(priv[c], reg[c], meas[c], points[c])
      BY <1>1, <3>1 DEF ScanInv, ChannelsInv
    <3>3. i \in 1..Len(points[c])
      BY <2>1, <2>2
    <3>4. PointOk(Signs(priv[c]), points[c][i], i)
      BY <3>2, <3>3 DEF Scanned
    <3>5. priv[c].width \in IntWidths
      BY <1>1, <3>2, Widths DEF Scanned, SetUp, ScanInv, ScanType
    <3>6. PICK half \in {40, 80} : half = HalfWidth
      BY DEF HalfWidth
    <3>8. PICK w \in 1..half : w = priv[c].width
      <4>1. PICK w \in 16..40 : w = priv[c].width
        BY <3>5, Widths
      <4> QED BY <4>1
    <3>9. reg[c].mask = SdataMask(half, w)
      BY <3>2, <3>6, <3>8 DEF Scanned, SetUp
    <3>10. (0..half-1) \ SdataMask(half, w) = (half - w)..half-1
      BY MaskWord
    <3>7. (0..HalfWidth-1) \ reg[c].mask = (HalfWidth - priv[c].width)..HalfWidth-1
      BY <3>6, <3>8, <3>9, <3>10
    <3> QED BY <3>4, <3>7 DEF PointOk, HalfWidth
  <2>3. ASSUME thread.pc = "done", NEW c \in Channels
        PROVE  [i \in DOMAIN points[c] |-> [x |-> points[c][i].x, y |-> points[c][i].y, ut |-> points[c][i].ut]]
                 = IF c \in xopt.mask THEN Grid(IF reg[c].rx_lpm_en THEN 1 ELSE 2) ELSE <<>>
    <3>1. CASE c \in xopt.mask
      <4>1. Begun(c) /\ ~priv[c].running
        BY <1>1, <2>3, <3>1 DEF Begun, ScanInv, RoundInv
      <4>2. Scanned(priv[c], reg[c], meas[c], points[c])
        BY <1>1, <4>1 DEF ScanInv, ChannelsInv
      <4>3. PICK s : s = Signs(priv[c])
        OBVIOUS
      <4>4. s = (IF reg[c].rx_lpm_en THEN 1 ELSE 2)
        BY <4>2, <4>3 DEF Scanned, SetUp, Signs
      <4>5. DOMAIN points[c] = 1..NH*NV*s
        BY <2>1, <4>1, <4>2, <4>3 DEF Scanned
      <4>6. \A i \in 1..NH*NV*s : [x |-> points[c][i].x, y |-> points[c][i].y, ut |-> points[c][i].ut] = Grid(s)[i]
        BY <4>1, <4>2, <4>3 DEF Scanned, PointOk
      <4>7. Grid(s) = [i \in 1..NH*NV*s |-> Grid(s)[i]]
        BY DEF Grid, NH, NV
      <4> QED BY <3>1, <4>4, <4>5, <4>6, <4>7
    <3>2. CASE c \notin xopt.mask
      <4>1. points[c] = <<>>
        BY <1>1, <3>2 DEF Begun, ScanInv, ChannelsInv, Fallow
      <4>2. DOMAIN points[c] = {}
        BY <4>1
      <4> QED BY <3>2, <4>2
    <3> QED BY <3>1, <3>2
  <2>4. ASSUME NEW c \in Channels, priv[c].running
        PROVE  Bits(priv[c].width, priv[c].prescale) >= TARGET /\ reg[c].prescale = priv[c].prescale
    <3>1. SetUp(priv[c], reg[c])
      BY <1>1, <2>4 DEF ScanInv, ChannelsInv, Scanned, Fallow
    <3> QED BY <3>1 DEF SetUp
  <2> QED BY <2>2, <2>3, <2>4 DEF ScanTrue, GridComplete, PointsTrue
<1> QED BY <1>1, ScanInvariance, XcvrInvariance, PTL
============================================================================
