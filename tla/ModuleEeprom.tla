---------------------------- MODULE ModuleEeprom ---------------------------
(***************************************************************************)
(* Reading the EEPROM of a pluggable module through ethtool                *)
(* (mqnic_ethtool.c).  A caller asks for bytes of one flat space or of one *)
(* page; the module shows two windows of HALF bytes, the upper one over a  *)
(* page that was selected by an earlier write, or, for an SFP, a second    *)
(* device at another I2C address.  A transfer takes at most BLOCK_MAX      *)
(* bytes, so a request is a loop, and every round finds out anew what the  *)
(* module is, selects the page and borrows the address of the I2C client.  *)
(*                                                                         *)
(* ethtool holds the RTNL lock over a request, so requests do not overlap; *)
(* the page a request leaves selected is what the next one finds.          *)
(***************************************************************************)
EXTENDS Integers, Sequences

CONSTANTS HALF,        \* 128
          BLOCK_MAX,   \* I2C_SMBUS_BLOCK_MAX, 32
          ModuleIds,   \* subset of {"sfp", "qsfp", "qsfp_plus", "qsfp28", "other"}
          EeFaults,    \* subset of {"i2c", "short", "select", "client", "id"}
          MaxBlind     \* bound on the failures of a request no one looks at

ASSUME ModuleEepromAssumption ==
  HALF \in 1..32767 /\ BLOCK_MAX \in Nat \ {0}   \* offsets are u16

VARIABLES
  module,   \* [id, page]: the module and its selected page
  client,   \* whether there is a priv->mod_i2c_client
  ee        \* the request: [pc, req, at, i, data, ret] and, as history, how
            \* many times it took no byte for the module id or lost the selection
            \* of a page [blind], and whether its last transfer had no bytes [empty]

eeVars == <<module, client, ee>>

Paged == {"qsfp", "qsfp_plus", "qsfp28"}

---------------------------------------------------------------------------
(* The module: the byte it shows at an address and an offset. *)
Byte(addr, page, o) == <<addr, IF o < HALF THEN 0 ELSE page, o>>
Shows(addr, o) == Byte(addr, IF module.id \in Paged THEN module.page ELSE 0, o)
Zero == <<0, 0, -1>>   \* a byte of the caller's buffer as memset leaves it

\* Requests, as ethtool lets them through: a flat one, which it checks against
\* the length mqnic_get_module_info reports, or one within half a page.
Flat(o, n) == [op |-> "flat", addr |-> 80, page |-> 0, bank |-> 0, off |-> o, len |-> n]
FlatRequests == {Flat(o, n) : o \in 0..5*HALF-1, n \in 1..5*HALF}
PageRequests ==
  {r \in [op : {"page"}, addr : {80, 81}, page : 0..4, bank : 0..1, off : 0..2*HALF-1, len : 1..HALF] :
     IF r.off < HALF THEN r.page = 0 /\ r.off + r.len <= HALF ELSE r.off + r.len <= 2*HALF}

---------------------------------------------------------------------------
Idle == [pc |-> "idle", req |-> Flat(0, 1), at |-> Flat(0, 1), i |-> 0, data |-> <<Zero>>,
         ret |-> 0, blind |-> 0, empty |-> FALSE]
EINVAL == -22
EIO == -5

EeInit ==
  /\ module \in [id : ModuleIds, page : 0..3]
  /\ client = TRUE
  /\ ee = Idle

EeReturn(r) == ee' = [ee EXCEPT !.pc = "done", !.ret = r]
Fails(n) == n \in EeFaults

\* A request; the buffer it is answered in is cleared.
Ask ==
  /\ ee.pc = "idle"
  /\ \E r \in FlatRequests \cup PageRequests :
       ee' = [Idle EXCEPT !.req = r, !.at = r, !.pc = IF r.op = "flat" THEN "info" ELSE "select",
                          !.data = [j \in 1..r.len |-> Zero]]
  /\ client' \in {TRUE} \cup (IF Fails("client") THEN {FALSE} ELSE {})
  /\ UNCHANGED module

\* mqnic_get_module_info: the type and the length of the flat space.  It wants
\* both bytes it reads.
eeprom_len == IF module.id = "sfp" THEN 4*HALF ELSE 5*HALF

Info ==
  /\ ee.pc = "info"
  /\ \/ /\ client
        /\ IF module.id = "other" \/ ee.req.off + ee.req.len > eeprom_len THEN EeReturn(EINVAL)
           ELSE ee' = [ee EXCEPT !.pc = "locate"]
     \/ ~client /\ EeReturn(EINVAL)
     \/ (Fails("i2c") \/ Fails("short")) /\ EeReturn(EIO)
  /\ UNCHANGED <<module, client>>

\* mqnic_query_module_id: a read that returns no byte leaves the one on the
\* stack, which is never written, and is no error.
Ids == {module.id} \cup (IF Fails("id") /\ ee.blind < MaxBlind THEN ModuleIds ELSE {})
Blind(m, lost) == IF m # module.id \/ lost THEN 1 ELSE 0

\* Where a byte of the flat space of a module m is, and the request clipped to
\* its page; the length is a u16.
Located(m, o, n) ==
  LET page == IF m = "sfp" \/ o < 2*HALF THEN 0 ELSE 1 + ((o - 2*HALF) \div HALF)
      addr == IF m = "sfp" /\ o >= 2*HALF THEN 81 ELSE 80
      off == IF m = "sfp" THEN (IF o >= 2*HALF THEN o - 2*HALF ELSE o) ELSE o - page * HALF
  IN [op |-> "flat", addr |-> addr, page |-> page, bank |-> 0, off |-> off,
      len |-> IF off + n > 2*HALF THEN (2*HALF - off) % 65536 ELSE n]

\* mqnic_query_module_eeprom, one round of mqnic_get_module_eeprom.
Locate ==
  /\ ee.pc = "locate"
  /\ \/ \E m \in Ids \ {"other"} :
          ee' = [ee EXCEPT !.pc = "select", !.blind = @ + Blind(m, FALSE),
                           !.at = Located(m, ee.req.off + ee.i, ee.req.len - ee.i)]
     \/ "other" \in Ids /\ EeReturn(EINVAL)
     \/ Fails("i2c") /\ EeReturn(EIO)
  /\ UNCHANGED <<module, client>>

\* mqnic_query_module_eeprom_by_page: its checks.
Valid(m, r) ==
  IF m = "sfp" THEN r.page = 0 /\ r.bank = 0
  ELSE m \in Paged /\ r.page <= 3 /\ r.bank = 0 /\ r.addr = 80

\* Mutant: the page is selected for requests that begin in the upper half.
NeedsPage_FromHalf(m, r) == m \in Paged /\ r.off >= HALF

NeedsPage(m, r) == m \in Paged /\ r.off + r.len >= HALF

\* The module gets to know the page it is to show, if it needs one; the result
\* of that write is not looked at.
Selected(m, lost) ==
  /\ ee' = [ee EXCEPT !.pc = "read", !.blind = @ + Blind(m, lost)]
  /\ module' = [module EXCEPT !.page = IF NeedsPage(m, ee.at) /\ ~lost THEN ee.at.page ELSE @]

SelectPage ==
  /\ ee.pc = "select"
  /\ \/ \E m \in Ids, lost \in BOOLEAN :
          /\ client /\ Valid(m, ee.at) /\ (lost => Fails("select") /\ NeedsPage(m, ee.at) /\ ee.blind < MaxBlind)
          /\ Selected(m, lost)
     \/ client /\ (\E m \in Ids : ~Valid(m, ee.at)) /\ EeReturn(EINVAL) /\ UNCHANGED module
     \/ ~client /\ EeReturn(EINVAL) /\ UNCHANGED module
     \/ Fails("i2c") /\ EeReturn(EIO) /\ UNCHANGED module
  /\ UNCHANGED client

\* The caller's buffer with n bytes more.  The client has the address of the
\* request for one transfer.  (With a wrong id a transfer may go on behind the
\* end of the buffer: what it overwrites there is not modelled.)
Filled(n) ==
  [j \in DOMAIN ee.data |->
     IF j > ee.i /\ j <= ee.i + n THEN Shows(ee.at.addr, ee.at.off + (j - ee.i) - 1) ELSE ee.data[j]]
Least2(a, b) == IF a < b THEN a ELSE b

\* One transfer; then the next round, if bytes are left.  A transfer of no
\* bytes ends the request as a success.
ReadBlock ==
  LET most == Least2(ee.at.len, BLOCK_MAX) IN
  /\ ee.pc = "read"
  /\ \/ \E n \in {most} \cup (IF Fails("short") THEN 0..most ELSE {}) :
          LET i == ee.i + n IN
          ee' = [ee EXCEPT
                   !.data = Filled(n), !.i = i, !.empty = (n = 0),
                   !.pc = IF n = 0 \/ i >= ee.req.len THEN "done"
                          ELSE IF ee.req.op = "flat" THEN "locate" ELSE "select",
                   !.at = IF ee.req.op = "flat" THEN @
                          ELSE [ee.req EXCEPT !.off = @ + i, !.len = @ - i],
                   !.ret = IF ee.req.op = "flat" \/ n = 0 THEN 0 ELSE i]
     \/ Fails("i2c") /\ EeReturn(EIO)
  /\ UNCHANGED <<module, client>>

Answered ==
  /\ ee.pc = "done"
  /\ ee' = Idle /\ UNCHANGED <<module, client>>

EeRequest == Info \/ Locate \/ SelectPage \/ ReadBlock
EeNext == Ask \/ EeRequest \/ Answered
EeSpec == EeInit /\ [][EeNext]_eeVars /\ WF_eeVars(EeRequest)
---------------------------------------------------------------------------
\* The byte the j-th byte of a request stands for, by the layout of SFF-8472
\* and SFF-8636: pages of the upper half one behind the other.
WantedByte(r, j) ==
  LET o == r.off + j - 1 IN
  IF r.op = "page" THEN Byte(r.addr, r.page, o)
  ELSE IF o < 2*HALF THEN Byte(80, 0, o)
  ELSE IF module.id = "sfp" THEN Byte(81, 0, o - 2*HALF)
  ELSE Byte(80, (o - HALF) \div HALF, HALF + (o % HALF))

\* What the caller gets: the whole buffer from mqnic_get_module_eeprom, as many
\* bytes as it returns from mqnic_get_module_eeprom_by_page.
Handed == 1 .. (IF ee.req.op = "flat" THEN ee.req.len ELSE ee.ret)

\* Every byte read is the one asked for, whatever page earlier requests left
\* selected and however the request was cut up; and a byte that is handed out
\* and was not read is 0, and there are such bytes only after a transfer of no
\* bytes, which mqnic_get_module_eeprom takes for the end of the request.  It
\* says nothing of a request that took the byte on the stack for a module id,
\* or whose selection of a page got lost: the driver looks at neither.
EepromTrue ==
  ee.pc = "done" /\ ee.ret >= 0 /\ ee.blind = 0 =>
    \A j \in Handed : IF j <= ee.i THEN ee.data[j] = WantedByte(ee.req, j)
                      ELSE ee.empty /\ ee.data[j] = Zero
============================================================================
