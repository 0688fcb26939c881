------------------------------- MODULE Board -------------------------------
(***************************************************************************)
(* What the driver knows of the boards (mqnic_board.c, mqnic_i2c.c): which *)
(* I2C devices it creates on which board, in which order, and how it comes *)
(* by the MAC addresses of the interfaces.                                 *)
(*                                                                         *)
(* An I2C device is given by its path: bus, multiplexer address and        *)
(* channel (NoMux, 0 when it is on the bus itself), own address.           *)
(***************************************************************************)
EXTENDS Integers, Sequences, SequencesExt, TLC

CONSTANT MAX_IF      \* MQNIC_MAX_IF

ASSUME BoardAssumption == MAX_IF \in Nat \ {0}

NoMux == 0
NoDev == <<-1, 0, 0, 0>>
On(bus, addr) == <<bus, NoMux, 0, addr>>
Behind(bus, mux, ch, addr) == <<bus, mux, ch, addr>>

\* mods: transceiver modules, one per interface; mac: how MACs are read.
Entry(mods, eeprom, mac) == [mods |-> mods, eeprom |-> eeprom, mac |-> mac]

XilinxBoards ==
  [NETFPGA_SUME |-> Entry([c \in 1..4 |-> Behind(0, 116, c-1, 80)], NoDev, "none"),
   VCU108 |-> Entry(<<Behind(0, 116, 2, 80)>>, Behind(0, 117, 3, 84), "base"),
   VCU118 |-> Entry(<<Behind(0, 116, 2, 80), Behind(0, 116, 3, 80)>>,
                    Behind(0, 117, 3, 84), "base")]

XilinxBoards2 ==
  [VCU1525 |-> Entry(<<Behind(0, 116, 0, 80), Behind(0, 116, 1, 80)>>,
                     Behind(0, 116, 2, 84), "base"),
   ZCU106 |-> Entry(<<Behind(0, 117, 7, 80), Behind(0, 117, 6, 80)>>,
                    Behind(0, 116, 0, 84), "base"),
   DK_DEV_1SMX_H_A |-> Entry(<<Behind(0, 116, 0, 80), Behind(0, 116, 1, 80)>>,
                             NoDev, "none"),
   DK_DEV_1SDX_P_A |-> Entry(<<On(0, 120), On(0, 124)>>, On(0, 87), "none")]

IntelBoards ==
  [DK_DEV_AGF014EA |-> Entry(<<Behind(1, 116, 0, 80), Behind(1, 116, 1, 80)>>,
                             On(0, 80), "none"),
   DE10_AGILEX |-> Entry(<<On(0, 80), On(1, 80)>>, NoDev, "none"),
   B250SOC |-> Entry(<<Behind(0, 112, 6, 80), Behind(0, 112, 7, 80)>>, On(2, 80), "none"),
   B520NMX |-> Entry([c \in 1..4 |-> Behind(0, 114, c+3, 80)], On(0, 87), "list")]

OtherBoards ==
  [XUPP3R |-> Entry([c \in 1..4 |-> On(c-1, 80)], On(4, 80), "hex"),
   ADM_PCIE_9V3 |-> Entry(<<Behind(0, 116, 0, 80), Behind(0, 116, 1, 80)>>,
                          On(1, 80), "base"),
   NEXUS_K3P_Q |-> Entry(<<On(0, 80), On(1, 80)>>, On(2, 80), "base"),
   DNPCIE_40G_KU |-> Entry(<<On(0, 80), On(1, 80)>>, On(2, 80), "none")]

LastBoards ==
  [FB4CGG3_VU9P |-> Entry([c \in 1..4 |-> On(c-1, 80)], NoDev, "none"),
   unknown |-> Entry(<<>>, NoDev, "none")]

AlveoBoards ==
  [AU200 |-> Entry(<<Behind(0, 116, 0, 80), Behind(0, 116, 1, 80)>>,
                   Behind(0, 116, 2, 84), "alveo"),
   AU50 |-> Entry(<<>>, NoDev, "alveo")]

GeckoBoards == [FB2CG_KU15P |-> Entry(<<On(0, 80), On(1, 80)>>, NoDev, "gecko")]

\* mqnic_board_init chooses the operations by the board identifier.
Boards == XilinxBoards @@ XilinxBoards2 @@ IntelBoards @@ OtherBoards @@ LastBoards
          @@ AlveoBoards @@ GeckoBoards

\* Buses created; multiplexers as <<bus, address>>; devices.
Devices(b) == ToSet(Boards[b].mods) \cup ({Boards[b].eeprom} \ {NoDev})
Muxes(b) == {<<d[1], d[2]>> : d \in {x \in Devices(b) : x[2] # NoMux}}
Buses(b) == {d[1] : d \in Devices(b)} \cup (IF b = "B250SOC" THEN {1} ELSE {})

\* create_i2c_client and get_i2c_mux_channel give NULL when what the device
\* hangs on is missing: a bus, multiplexer or device in failed takes along
\* everything behind it.  A device in failed is one no driver attaches to; an
\* error pointer of i2c_new_client_device passes the test for NULL, which comes
\* before that, and is left out.
BusUp(b, failed) == {x \in Buses(b) : <<x, -1>> \notin failed}
MuxUp(b, failed) == {m \in Muxes(b) : m[1] \in BusUp(b, failed) /\ m \notin failed}
DevUp(b, failed) ==
  {d \in Devices(b) : /\ d \notin failed
                      /\ d[1] \in BusUp(b, failed)
                      /\ d[2] # NoMux => <<d[1], d[2]>> \in MuxUp(b, failed)}
Parts(b) == {<<x, -1>> : x \in Buses(b)} \cup Muxes(b) \cup Devices(b)

---------------------------------------------------------------------------
(* MAC addresses.  A stored address is read as "ok", "bad" (read, but not  *)
(* a valid unicast address) or "err" (the read fails), or, where a read    *)
(* takes several words, "torn" (a word fails and the result still passes   *)
(* for an address).  An address in the list is <<slot, increment>>: the    *)
(* slot it was read from and what was added to its last byte; addresses    *)
(* with a failed word in them may well all be the same.                    *)
Torn == <<-3, -1>>

\* init_mac_list_from_base_mac: count addresses counted up from a valid base.
FromBase(reading, count) ==
  IF reading # "ok" THEN <<>>
  ELSE [k \in 1..(IF count < MAX_IF THEN count ELSE MAX_IF) |-> <<0, k-1>>]

\* init_mac_list_from_eeprom: addresses up to the first that is not usable.
FromList(stored) ==
  LET usable == {n \in 0..MAX_IF : \A k \in 0..n-1 : stored[k] = "ok"}
      n == CHOOSE x \in usable : \A y \in usable : y <= x
  IN [k \in 1..n |-> <<k-1, 0>>]

\* mqnic_alveo_bmc_read_mac_list: the valid ones, moved together.  Reading a
\* register cannot fail.
FromAlveo(stored) ==
  LET valid == SelectSeq([k \in 1..MAX_IF |-> k-1], LAMBDA k : stored[k] # "bad")
  IN [k \in 1..Len(valid) |-> <<valid[k], 0>>]

\* mqnic_gecko_bmc_read_mac_list.  A query that fails returns a negative number,
\* but it is kept in a u16: the test for an error never fires.  A -1 in the
\* first word gives ff:ff:.., which is multicast and left out; a -2 (the BMC
\* timed out) there gives the unicast fe:ff:.., and a failure of a later word
\* goes into the address as well.
FromGecko(stored) ==
  LET valid == SelectSeq([k \in 1..MAX_IF |-> k-1],
                         LAMBDA k : stored[k] \in {"ok", "torn"})
  IN [k \in 1..Len(valid) |-> IF stored[valid[k]] = "ok" THEN <<valid[k], 0>> ELSE Torn]

\* The list the board's init leaves in mac_list, given what is stored.  Without
\* its EEPROM client an EEPROM method reads nothing.
MacList(b, up, stored) ==
  LET method == Boards[b].mac
      eeprom == Boards[b].eeprom \in up
  IN CASE method \in {"base", "hex"} -> IF eeprom THEN FromBase(stored[0], MAX_IF) ELSE <<>>
       [] method = "list" -> IF eeprom THEN FromList(stored) ELSE <<>>
       [] method = "alveo" -> FromAlveo(stored)
       [] method = "gecko" -> FromGecko(stored)
       [] method = "none" -> <<>>
============================================================================
