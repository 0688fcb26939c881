------------------------------- MODULE Device ------------------------------
(***************************************************************************)
(* How the mqnic driver takes hold of a device and lets go of it again:    *)
(* mqnic_pci_probe and mqnic_platform_probe with mqnic_common_probe,       *)
(* mqnic_create_interface and what they call (mqnic_main.c, mqnic_irq.c,   *)
(* mqnic_if.c, mqnic_port.c, mqnic_sched_block.c, mqnic_scheduler.c), and  *)
(* mqnic_common_remove, mqnic_destroy_interface and the error labels.      *)
(*                                                                         *)
(* Probing is a fixed sequence of steps; each acquires something or checks *)
(* something, and each may fail.  Removing, and every error label, is a    *)
(* sequence of releases.  While this goes on, users may already open and   *)
(* close the network devices that are registered.                          *)
(***************************************************************************)
EXTENDS Board, FiniteSets

CONSTANTS KINDS,      \* subset of {"pci", "platform"}
          BOARDS,     \* boards tried; subset of DOMAIN Boards
          IF_COUNT,   \* interfaces of the device
          EQ_NUM,     \* event queues, and interrupts
          PciFaults, PlatformFaults   \* names of the steps that may fail

ASSUME DeviceAssumption ==
  /\ KINDS \subseteq {"pci", "platform"} /\ BOARDS \subseteq DOMAIN Boards
  /\ IF_COUNT \in 1..MAX_IF /\ (\A b \in BOARDS : Len(Boards[b].mods) <= MAX_IF) /\ EQ_NUM \in Nat \ {0}

IFs == 0..IF_COUNT-1

VARIABLES
  kind,    \* bus the device is on
  opt,     \* [app, board, phandles]: whether it holds an application, which board
           \* it is, and which interfaces of a platform device name a module EEPROM
  mode,    \* "probe", "up", "release", "gone"
  at,      \* position in Program
  todo,    \* releases left, as <<resource, guarded>>
  next,    \* what follows the releases: "resume" or "gone"
  held,    \* resources the driver holds
  bad,     \* releases of something not held
  mac,     \* mac_list
  ndevMac, \* address of each registered network device, or NoMac
  passed   \* interfaces that were given their module I2C client

devVars == <<kind, opt, mode, at, todo, next, held, bad, mac, ndevMac, passed>>

Faults == IF kind = "pci" THEN PciFaults ELSE PlatformFaults

NoMac == <<-1, -1>>
Random == <<-2, 0>>       \* eth_hw_addr_random
NoRes == <<"check", 0, 0>>
Res(n) == <<n, 0, 0>>
IfRes(n, k) == <<n, k, 0>>

---------------------------------------------------------------------------
(* The steps of a probe, as <<name, resource>>. *)
Need(n) == <<n, Res(n)>>
Check(n) == <<n, NoRes>>
Maybe(c, n) == IF c THEN <<Need(n)>> ELSE <<>>
Each(n) == [j \in 1..EQ_NUM |-> <<n, <<n, j-1, 0>>>>]

\* mqnic_assign_id: the lowest free number.
IdStep == Need("id")

\* mqnic_enumerate_reg_block_list, and mqnic_find_reg_block in such a list.
BlockList(n, k) == <<n, IfRes(n, k)>>
FindBlock(n) == Check(n)

PciSteps ==
  <<IdStep, Need("enable"), Check("dma"), Need("regions"), Need("bar0")>>
  \o Maybe(opt.app, "app_bar") \o <<Need("ram_bar")>>
  \o <<Check("alive"), Need("irq_vec")>> \o Each("irq") \o <<Need("master")>>

\* mqnic_irq_init_platform: every interrupt in turn, managed.
PlatformIrqs == Each("irq")

PlatformSteps ==
  <<IdStep, Check("dma"), Need("bar0")>>
  \o Maybe(opt.app, "app_bar") \o <<Need("ram_bar")>> \o PlatformIrqs

\* mqnic_create_res, for a kind of queue.
ResStep(n, k) == <<"res", IfRes(n, k)>>

\* mqnic_create_port: its block list, in which the control block must be.
PortSteps(k) ==
  <<<<"port", IfRes("port", k)>>, BlockList("port_rb", k), FindBlock("port_ctrl")>>

\* mqnic_create_sched_block, with the schedulers of its block list.
mqnic_create_scheduler(k) == <<"sched", IfRes("sched", k)>>
SchedSteps(k) ==
  <<<<"block", IfRes("block", k)>>, BlockList("block_rb", k), mqnic_create_scheduler(k)>>

\* mqnic_create_eq, then mqnic_open_eq: number, buffer, interrupt.
EqParts == <<"eq", "eqn", "eq_buf", "eq_irq">>
EqSteps(k) ==
  FlattenSeq([j \in 1..EQ_NUM |-> [i \in 1..4 |-> <<EqParts[i], <<EqParts[i], k, j-1>>>>]])

\* mqnic_create_interface.  Each register block is looked for before its
\* resource is made; queues are made and opened one by one.
IfSteps(k) ==
  <<<<"if", IfRes("if", k)>>, BlockList("if_rb_list", k), FindBlock("if_ctrl"),
    FindBlock("eqm"), ResStep("eq_res", k), FindBlock("cqm"), ResStep("cq_res", k),
    FindBlock("txqm"), ResStep("txq_res", k), FindBlock("rxqm"), ResStep("rxq_res", k),
    FindBlock("qmap")>>
  \o PortSteps(k) \o SchedSteps(k) \o EqSteps(k) \o <<<<"ndev", IfRes("ndev", k)>>>>

AllIfSteps == FlattenSeq([k \in 1..IF_COUNT |-> IfSteps(k-1)])

BoardStep == IF kind = "pci" THEN <<Check("board")>> ELSE <<Check("of_mac"), Check("eeprom")>>

CommonSteps ==
  <<BlockList("rb_list", 0), FindBlock("fw_id"), FindBlock("if_rb"), Check("bar_size")>> \o BoardStep
  \o <<Need("phc")>> \o AllIfSteps
  \o <<Check("pass_i2c"), Need("misc")>> \o Maybe(opt.app, "adev")

Program == (IF kind = "pci" THEN PciSteps ELSE PlatformSteps) \o CommonSteps
Named(n) == {i \in DOMAIN Program : Program[i][1] = n}

---------------------------------------------------------------------------
(* Releases.  A guarded one is done only for what is held. *)
Guarded(r) == <<r, TRUE>>
Always(r) == <<r, FALSE>>
ForAll(n, of) == [k \in 1..n |-> Guarded(<<of, k-1, 0>>)]

mqnic_free_reg_block_list(n, k) == Guarded(IfRes(n, k))
DestroyPort(k) == <<mqnic_free_reg_block_list("port_rb", k), Guarded(IfRes("port", k))>>
mqnic_destroy_scheduler(k) == Guarded(IfRes("sched", k))
DestroySchedBlock(k) ==
  <<mqnic_destroy_scheduler(k), mqnic_free_reg_block_list("block_rb", k), Guarded(IfRes("block", k))>>
CloseEq(k, j) == [i \in 1..3 |-> Guarded(<<EqParts[5-i], k, j>>)]
DestroyEqs(k) ==
  FlattenSeq([j \in 1..EQ_NUM |-> CloseEq(k, j-1) \o <<Guarded(<<"eq", k, j-1>>)>>])

DestroyRes(k) ==
  <<Guarded(IfRes("eq_res", k)), Guarded(IfRes("cq_res", k)), Guarded(IfRes("txq_res", k)),
    Guarded(IfRes("rxq_res", k))>>

\* Mutant: the event queues go before the network device.
DestroyInterface_EqFirst(k) ==
  DestroyEqs(k) \o <<Guarded(IfRes("ndev", k))>> \o DestroySchedBlock(k) \o DestroyPort(k)
  \o DestroyRes(k) \o <<mqnic_free_reg_block_list("if_rb_list", k), Guarded(IfRes("if", k))>>

DestroyInterface(k) ==
  <<Guarded(IfRes("ndev", k))>> \o DestroyEqs(k) \o DestroySchedBlock(k) \o DestroyPort(k)
  \o DestroyRes(k) \o <<mqnic_free_reg_block_list("if_rb_list", k), Guarded(IfRes("if", k))>>

\* Mutant: module clients are unregistered whether they were made or not.
BoardDeinit_NoTest ==
  [k \in 1..MAX_IF |-> Always(<<"mod", k-1, 0>>)] \o <<Guarded(Res("eeprom"))>>
  \o ForAll(5, "bus")

\* mqnic_generic_board_deinit: module clients, EEPROM client, then the buses,
\* which take the multiplexers along.
BoardDeinit ==
  ForAll(MAX_IF, "mod") \o <<Guarded(Res("eeprom"))>>
  \o ForAll(5, "bus")

\* mqnic_platform_module_eeprom_put, for the interfaces counted so far: the
\* guard tests the array, not its entry.
EepromPut ==
  IF \E i \in Named("if_rb") : at > i
  THEN [k \in 1..IF_COUNT |-> Always(<<"mod", k-1, 0>>)] ELSE <<>>

\* The auxiliary device an application driver is bound to.
AdevRelease == Guarded(Res("adev"))
mqnic_unregister_phc == Guarded(Res("phc"))

CommonRemove ==
  <<AdevRelease, Guarded(Res("misc"))>>
  \o FlattenSeq([k \in 1..IF_COUNT |-> DestroyInterface(k-1)])
  \o <<mqnic_unregister_phc>>
  \o (IF kind = "pci" THEN BoardDeinit ELSE EepromPut) \o <<mqnic_free_reg_block_list("rb_list", 0)>>

IrqDeinit == ForAll(EQ_NUM, "irq") \o <<Always(Res("irq_vec"))>>

mqnic_free_id == Always(Res("id"))

Bars == <<Guarded(Res("bar0")), Guarded(Res("app_bar")), Guarded(Res("ram_bar"))>>
FromRegions == <<Always(Res("regions")), Always(Res("enable")), mqnic_free_id>>

PciTail == <<Always(Res("master"))>> \o IrqDeinit \o Bars \o FromRegions

\* Managed resources of a platform device go by themselves, last one first.
PlatformTail ==
  <<mqnic_free_id>> \o Reverse(ForAll(EQ_NUM, "irq"))
  \o Reverse(Bars)

Tail_ == IF kind = "pci" THEN PciTail ELSE PlatformTail

IfParts == {"if", "if_rb_list", "if_ctrl", "eqm", "cqm", "txqm", "rxqm", "qmap", "res",
            "port", "port_rb", "port_ctrl", "block", "block_rb", "sched", "eq", "eqn", "eq_buf",
            "eq_irq", "ndev"}

\* The interface a step of AllIfSteps belongs to.
IfAt == (at - CHOOSE i \in Named("if") : \A j \in Named("if") : i <= j) \div Len(IfSteps(0))

\* What a failing step of an interface releases before the interface is
\* destroyed: the label fail of the function it is in.  A failed mqnic_create_res
\* leaves an error pointer, which is released like a resource.
PartFails(n, r) ==
  CASE n \in {"port_rb", "port_ctrl"} -> DestroyPort(IfAt)
    [] n \in {"block_rb", "sched"} -> DestroySchedBlock(IfAt)
    [] n \in {"eq_buf", "eq_irq"} -> CloseEq(IfAt, r[3])
    [] n = "res" -> <<Always(r)>>
    [] OTHER -> <<>>
InterfaceFails(n, r) ==
  LET first == PartFails(n, r) IN
  first \o SelectSeq(DestroyInterface(IfAt), LAMBDA x : \A i \in DOMAIN first : first[i] # x)

\* Where a failing step goes: the error label of mqnic_pci_probe, of
\* mqnic_platform_probe or of mqnic_common_probe.
Unwind(n) ==
  IF n = "rb_list" THEN Tail_
  ELSE IF \E i \in Named("rb_list") : at > i THEN CommonRemove \o Tail_
  ELSE IF kind = "platform" THEN PlatformTail
  ELSE CASE n = "enable" -> <<mqnic_free_id>>
         [] n \in {"dma", "regions"} -> <<Always(Res("enable")), mqnic_free_id>>
         [] n = "irq" -> IrqDeinit \o Bars \o FromRegions
         [] OTHER -> Bars \o FromRegions

Doing(list) == SelectSeq(list, LAMBDA x : ~x[2] \/ x[1] \in held)

---------------------------------------------------------------------------
DevInit ==
  /\ kind \in KINDS
  /\ opt \in [app : BOOLEAN, board : BOARDS, phandles : SUBSET IFs]
  /\ kind = "platform" => opt.board = CHOOSE b \in BOARDS : TRUE
  /\ kind = "pci" => opt.phandles = {}
  /\ mode = "probe" /\ at = 1 /\ todo = <<>> /\ next = "gone"
  /\ held = {} /\ bad = {} /\ mac = <<>>
  /\ ndevMac = [k \in IFs |-> NoMac] /\ passed = {}

Advance ==
  /\ mode' = IF at = Len(Program) THEN "up" ELSE "probe"
  /\ at' = IF at = Len(Program) THEN at ELSE at + 1
  /\ UNCHANGED <<todo, next>>

Step == Program[at]
SpecialSteps == {"board", "of_mac", "eeprom", "pass_i2c", "ndev"}

\* A step that succeeds.
Acquire ==
  /\ mode = "probe" /\ Step[1] \notin SpecialSteps
  /\ held' = held \cup ({Step[2]} \ {NoRes})
  /\ Advance
  /\ UNCHANGED <<kind, opt, bad, mac, ndevMac, passed>>

\* mqnic_register_phc without a clock is only reported.
SkipPhc ==
  /\ mode = "probe" /\ Step[1] = "phc" /\ "phc" \in Faults
  /\ Advance
  /\ UNCHANGED <<kind, opt, held, bad, mac, ndevMac, passed>>

\* mqnic_board_init: buses, multiplexers, clients, MAC addresses.  Bound: not
\* both a part and an address fail in one probe.
BoardInit ==
  LET b == opt.board IN
  /\ mode = "probe" /\ Step[1] = "board"
  /\ \E failed \in {{}} \cup {{p} : p \in IF "i2c" \in Faults THEN Parts(b) ELSE {}},
        stored \in [0..MAX_IF-1 -> {"ok"} \cup (IF "mac" \in Faults THEN {"bad", "err"} ELSE {})
                                       \cup (IF "mac_torn" \in Faults THEN {"torn"} ELSE {})] :
       LET up == DevUp(b, failed) mods == Boards[b].mods IN
       /\ failed # {} => \A k \in DOMAIN stored : stored[k] = "ok"
       /\ held' = held
            \cup {<<"bus", x, 0>> : x \in BusUp(b, failed)}
            \cup {<<"mux", m[1], m[2]>> : m \in MuxUp(b, failed)}
            \cup {<<"mod", k-1, 0>> : k \in {i \in DOMAIN mods : mods[i] \in up}}
            \cup (IF Boards[b].eeprom \in up THEN {Res("eeprom")} ELSE {})
       /\ mac' = MacList(b, up, stored)
  /\ Advance
  /\ UNCHANGED <<kind, opt, bad, ndevMac, passed>>

\* mqnic_platform_get_mac_address: no address is no error.
PlatformMac ==
  /\ mode = "probe" /\ Step[1] = "of_mac"
  /\ mac' \in {<<>>, [k \in 1..IF_COUNT |-> <<0, k-1>>]}
  /\ Advance
  /\ UNCHANGED <<kind, opt, held, bad, ndevMac, passed>>

\* mqnic_platform_module_eeprom_get: a missing phandle is no error.
PlatformEeprom ==
  /\ mode = "probe" /\ Step[1] = "eeprom"
  /\ held' = held \cup {<<"mod", k, 0>> : k \in opt.phandles}
  /\ Advance
  /\ UNCHANGED <<kind, opt, bad, mac, ndevMac, passed>>

\* Mutant: dev_port is the index within the interface.
CreateNetdev_PerIf ==
  /\ mode = "probe" /\ Step[1] = "ndev"
  /\ held' = held \cup {IfRes("ndev", IfAt)}
  /\ ndevMac' = [ndevMac EXCEPT ![IfAt] = IF 0 < Len(mac) THEN mac[1] ELSE Random]
  /\ Advance
  /\ UNCHANGED <<kind, opt, bad, mac, passed>>

\* mqnic_create_netdev: dev_port counts the network devices of the device.
CreateNetdev ==
  LET k == IfAt  dev_port == Cardinality({r \in held : r[1] = "ndev"}) IN
  /\ mode = "probe" /\ Step[1] = "ndev"
  /\ held' = held \cup {IfRes("ndev", k)}
  /\ ndevMac' = [ndevMac EXCEPT ![k] = IF dev_port < Len(mac) THEN mac[dev_port+1] ELSE Random]
  /\ Advance
  /\ UNCHANGED <<kind, opt, bad, mac, passed>>

\* The module clients are handed to the interfaces once all of them exist.
PassI2c ==
  /\ mode = "probe" /\ Step[1] = "pass_i2c"
  /\ passed' = {k \in IFs : <<"mod", k, 0>> \in held}
  /\ Advance
  /\ UNCHANGED <<kind, opt, held, bad, mac, ndevMac>>

\* A step that fails.  An interface that cannot be created is destroyed, and
\* probing goes on with the character device and the interfaces there are.
StepFails ==
  LET n == Step[1] IN
  /\ mode = "probe" /\ n \in Faults \ {"phc"}
  /\ IF n \in IfParts
     THEN /\ todo' = Doing(InterfaceFails(n, Step[2]))
          /\ next' = "resume"
          /\ at' = CHOOSE i \in Named("misc") : TRUE
     ELSE /\ todo' = Doing(Unwind(n)) /\ next' = "gone" /\ UNCHANGED at
  /\ mode' = "release"
  /\ UNCHANGED <<kind, opt, held, bad, mac, ndevMac, passed>>

\* mqnic_pci_remove, mqnic_pci_shutdown, mqnic_platform_remove.
mqnic_remove ==
  /\ mode = "up"
  /\ todo' = Doing(CommonRemove \o Tail_) /\ next' = "gone" /\ mode' = "release"
  /\ UNCHANGED <<kind, opt, at, held, bad, mac, ndevMac, passed>>

\* What goes with a resource: unregister_netdev closes the device first,
\* i2c_del_adapter removes the clients left on the bus.
GoesWith(r) ==
  CASE r[1] = "ndev" -> {r, IfRes("opened", r[2])}
    [] r[1] = "bus" -> {r} \cup {x \in held : x[1] = "mux" /\ x[2] = r[2]}
    [] OTHER -> {r}

Release ==
  /\ mode = "release" /\ todo # <<>>
  /\ LET r == Head(todo)[1] IN
       /\ held' = held \ GoesWith(r)
       /\ bad' = IF r \in held THEN bad ELSE bad \cup {r}
       /\ ndevMac' = IF r[1] = "ndev" THEN [ndevMac EXCEPT ![r[2]] = NoMac] ELSE ndevMac
       /\ passed' = IF r[1] = "ndev" THEN passed \ {r[2]} ELSE passed
  /\ todo' = Tail(todo)
  /\ UNCHANGED <<kind, opt, mode, at, next, mac>>

Released ==
  /\ mode = "release" /\ todo = <<>>
  /\ mode' = IF next = "resume" THEN "probe" ELSE "gone"
  /\ UNCHANGED <<kind, opt, at, todo, next, held, bad, mac, ndevMac, passed>>

\* A user opens or closes a registered network device.
UserOpen(k) ==
  /\ IfRes("ndev", k) \in held /\ IfRes("opened", k) \notin held
  /\ held' = held \cup {IfRes("opened", k)}
  /\ UNCHANGED <<kind, opt, mode, at, todo, next, bad, mac, ndevMac, passed>>

UserClose(k) ==
  /\ IfRes("opened", k) \in held
  /\ held' = held \ {IfRes("opened", k)}
  /\ UNCHANGED <<kind, opt, mode, at, todo, next, bad, mac, ndevMac, passed>>

DevNext ==
  \/ Acquire \/ SkipPhc \/ BoardInit \/ PlatformMac \/ PlatformEeprom \/ CreateNetdev
  \/ PassI2c \/ StepFails \/ mqnic_remove \/ Release \/ Released
  \/ \E k \in IFs : UserOpen(k) \/ UserClose(k)

DevSpec == DevInit /\ [][DevNext]_devVars
---------------------------------------------------------------------------
(* What the code behind a resource reaches while it is held. *)
DependsOn(r) ==
  LET k == r[2]
      eqs == {<<"eq_irq", k, j>> : j \in 0..EQ_NUM-1} IN
  CASE r[1] = "regions" -> {Res("enable")}
    [] r[1] \in {"bar0", "app_bar", "ram_bar"} /\ kind = "pci" -> {Res("regions")}
    [] r[1] = "irq" /\ kind = "pci" -> {Res("irq_vec")}
    [] r[1] \in {"rb_list", "bus"} -> {Res("bar0")}
    [] r[1] = "mux" -> {<<"bus", k, 0>>}
    [] r[1] \in {"phc", "misc"} -> {Res("bar0"), Res("rb_list")}
    [] r[1] = "adev" -> {Res("bar0"), Res("rb_list"), Res("misc")}
    [] r[1] = "if" -> {Res("bar0"), Res("rb_list")}
    [] r[1] \in {"port", "block"} -> {IfRes("if", k), IfRes("if_rb_list", k)}
    [] r[1] = "sched" -> {IfRes("block", k), IfRes("block_rb", k)}
    [] r[1] \in {"eq", "eqn"} -> {IfRes("if", k), IfRes("eq_res", k)}
    [] r[1] = "eq_irq" -> {<<"irq", r[3], 0>>} \cup {<<EqParts[i], k, r[3]>> : i \in 1..3}
    [] r[1] = "ndev" -> {IfRes("port", k), IfRes("port_rb", k), IfRes("sched", k), IfRes("cq_res", k),
                         IfRes("txq_res", k), IfRes("rxq_res", k)} \cup eqs
                        \cup (IF k \in passed THEN {<<"mod", k, 0>>} ELSE {})
    [] r[1] = "opened" -> {IfRes("ndev", k)} \cup eqs
    [] OTHER -> {}

\* Nothing is let go of while something that uses it is still there: users of
\* a network device keep it and its queues, interrupts stay while event queues
\* are on their chains, registers stay mapped under all of them.
NothingPulledAway == \A r \in held : DependsOn(r) \subseteq held

\* The module clients a platform device got (mqnic_platform_module_eeprom_get).
Obtained == {<<"mod", k, 0>> : k \in {x \in opt.phandles : \A i \in Named("eeprom") : at > i}}

\* After a failed probe, whichever step failed, and after remove, the driver
\* holds nothing of the device; and no error label and no remove path releases
\* what is not held.  The one exception: a platform device puts the module
\* client of every interface, the ones it never got included, since the test is
\* of the array and not of its entry (mqnic_main.c:176).
ReleasedOnce ==
  /\ mode = "gone" => held = {}
  /\ bad \subseteq IF kind = "pci" THEN {} ELSE {<<"mod", k, 0>> : k \in IFs} \ Obtained

\* No two registered network devices have the same permanent address, and none
\* has one that is made of a failed read, but for the boards with a Gecko BMC,
\* where a failed word is not noticed (mqnic_board.c:1005).
MacsDistinct ==
  \A j \in IFs : ndevMac[j] \notin {NoMac, Random} =>
     IF ndevMac[j] = Torn THEN kind = "pci" /\ Boards[opt.board].mac = "gecko"
     ELSE \A k \in IFs \ {j} : ndevMac[j] # ndevMac[k]
============================================================================
