------------------------------ MODULE MCTools ------------------------------
(* Instances, for TLC, of the software around the network driver: the      *)
(* transceiver tool, the firmware tool, the SLMP sender, PsPIN, the user   *)
(* library and the module EEPROM of ethtool.  They share nothing, so a     *)
(* behaviour uses one of them and the others stay in one of their initial  *)
(* states: their states add up and do not multiply.                        *)
EXTENDS Transceiver, Flash, Slmp, Pspin, UserLib, ModuleEeprom, TLC

VARIABLE used   \* the one that runs
toolsVars == <<used, xcvrVars, flashVars, slmpVars, pspinVars, libVars, eeVars>>

SomeMasks == {{0, 1}, {1}}
\* Every write of a preset, or of the reset behind it, fails on its own, and
\* together with the last one of the preset.
Writes == {"qpll1_pd", "tx_hold", "rx_hold", "tx_qpll_sel", "rx_qpll_sel", "base", "eq", "rx_lpm_en",
           "tx_release", "rx_release", "rx_set", "rx_clear", "tx_set", "tx_clear"}
SomeLosses == {{}} \cup {{w} : w \in Writes} \cup {{"tx_release", "tx_set"}}

Setup(kind, ops, config, seg0, dflt) ==
  [kind |-> kind, ops |-> ops, config |-> config, seg0 |-> seg0, dflt |-> dflt]
SomeSetups ==
  {Setup("spi", "none", 1, 0, 0), Setup("spi", "none", 2, 12, 0), Setup("spi", "none", 4, 0, 1),
   Setup("spi", "none", 3, 0, 0), Setup("spi", "none", 2, 64, 1),
   Setup("dual", "none", 2, 0, 1), Setup("dual", "none", 2, 24, 0),
   Setup("bpi", "intel", 2, 0, 0), Setup("bpi", "intel", 4, 0, 1),
   Setup("bpi", "amd", 2, 0, 1), Setup("bpi", "micron", 2, 0, 0)}

Opt(slot, e, w, r, b, x) ==
  [slot |-> slot, erase |-> e, write |-> w, read |-> r, boot |-> b, reset |-> x]
SomeOptions ==
  {Opt(-1, FALSE, TRUE, TRUE, FALSE, FALSE), Opt(-1, TRUE, FALSE, FALSE, FALSE, FALSE),
   Opt(1, TRUE, TRUE, FALSE, TRUE, TRUE), Opt(9, FALSE, TRUE, FALSE, FALSE, TRUE),
   Opt(9, TRUE, FALSE, FALSE, FALSE, FALSE), Opt(-1, FALSE, FALSE, FALSE, FALSE, TRUE)}

\* What a name leads to: the character device by its path, its name or the name
\* of a network device; a PCIe device by its path or its number, through its
\* character device if the driver has bound it, then through its resources.
Ways(f) == [i \in 1..9 |-> IF i \in DOMAIN f THEN f[i] ELSE "none"]
SomeNames ==
  {Ways(<<>>), Ways(<<"misc">>), Ways(<<"pcie">>), Ways(2 :> "misc"), Ways(3 :> "misc"),
   Ways(4 :> "misc" @@ 7 :> "pcie"), Ways(5 :> "misc" @@ 8 :> "pcie"),
   Ways(6 :> "misc" @@ 9 :> "pcie"), Ways(8 :> "pcie")}
SomeNics == {[regs |-> 4, app |-> a, ram |-> r] : <<a, r>> \in {<<0, 0>>, <<2, 0>>, <<2, 1>>}}

\* Block lists: one that needs to grow, one out of order, one that loops, one
\* without identity, one that ends past the registers.
Blocks(f) == [o \in 0..3 |-> f[o+1]]
NoBlock == <<"other", 0>>
SomeChains ==
  {Blocks(<<<<"fw_id", 1>>, <<"if", 2>>, <<"other", 3>>, NoBlock>>),
   Blocks(<<<<"other", 2>>, <<"fw_id", 0>>, <<"if", 1>>, NoBlock>>),
   Blocks(<<<<"fw_id", 1>>, <<"other", 1>>, NoBlock, NoBlock>>),
   Blocks(<<<<"other", 3>>, NoBlock, NoBlock, NoBlock>>),
   Blocks(<<<<"fw_id", 1>>, <<"if", 9>>, NoBlock, NoBlock>>)}

ToolsInit ==
  /\ used \in {"xcvr", "flash", "slmp", "pspin", "lib", "eeprom"}
  /\ used # "flash" => /\ set = Setup("spi", "none", 1, 0, 0)
                       /\ opt = Opt(-1, FALSE, TRUE, TRUE, FALSE, FALSE)
                       /\ file = [type |-> "bin", ok |-> TRUE, sync |-> TRUE, len |-> CHOOSE n \in Lens : TRUE]
  /\ used # "slmp" => call = [wnd |-> CHOOSE n \in WndSizes : TRUE, len |-> CHOOSE n \in Lengths : TRUE]
  /\ used # "xcvr" => /\ family = (CHOOSE f \in Families : TRUE) /\ q25g = FALSE
                      /\ xopt = [mask |-> CHOOSE m \in Masks : TRUE, preset |-> "none", reset |-> FALSE, scan |-> FALSE]
  /\ XcvrInit
  /\ used # "xcvr" => \A c \in Channels : ~reg[c].rx_lpm_en /\ reg[c].dw = CHOOSE w \in RawWidths : TRUE
  /\ used # "lib" => /\ name = Ways(<<>>)
                     /\ nic = [regs |-> 4, app |-> 0, ram |-> 0, alive |-> "no",
                               chain |-> CHOOSE c \in SomeChains : TRUE]
  /\ used # "eeprom" => module = [id |-> CHOOSE m \in ModuleIds : TRUE, page |-> 0]
  /\ FlashInit /\ SlmpInit /\ PspinInit /\ LibInit /\ EeInit

\* Bound: writes of a preset fail in runs of the transceiver tool without a scan,
\* to one channel in each.
LossBound ==
  /\ xopt.scan => \A c \in Channels : reg'[c].lost = {}
  /\ Cardinality({c \in Channels : reg'[c].lost # {}}) <= 1

ToolsNext ==
  /\ UNCHANGED used
  /\ \/ used = "xcvr" /\ XcvrNext /\ LossBound /\ UNCHANGED <<flashVars, slmpVars, pspinVars, libVars, eeVars>>
     \/ used = "flash" /\ FlashNext /\ UNCHANGED <<xcvrVars, slmpVars, pspinVars, libVars, eeVars>>
     \/ used = "slmp" /\ SlmpNext /\ UNCHANGED <<xcvrVars, flashVars, pspinVars, libVars, eeVars>>
     \/ used = "pspin" /\ PspinNext /\ UNCHANGED <<xcvrVars, flashVars, slmpVars, libVars, eeVars>>
     \/ used = "lib" /\ LibProcess /\ UNCHANGED <<xcvrVars, flashVars, slmpVars, pspinVars, eeVars>>
     \/ used = "eeprom" /\ EeNext /\ UNCHANGED <<xcvrVars, flashVars, slmpVars, pspinVars, libVars>>

\* The fairness of each module, for the one that runs.
ToolsFairness ==
  /\ WF_xcvrVars(used = "xcvr" /\ XcvrTool)
  /\ \A c \in Channels : WF_xcvrVars(used = "xcvr" /\ EyeDone(c))
  /\ WF_flashVars(used = "flash" /\ FwTool)
  /\ \A c \in 1..2 : WF_flashVars(used = "flash" /\ c \in Chips /\ ChipDone(c))
  /\ WF_slmpVars(used = "slmp" /\ Sender) /\ WF_slmpVars(used = "slmp" /\ Network)
  /\ \A p \in Procs : /\ WF_pspinVars(used = "pspin" /\ Op(p) # "none" /\ Step(p))
                      /\ WF_pspinVars(used = "pspin" /\ Serve(p))
  /\ \A r \in Readers : WF_pspinVars(used = "pspin" /\ (ReadLoop(r) \/ ReadOut(r)))
  /\ WF_pspinVars(used = "pspin" /\ RemoveEnd)
  /\ \A h \in Hpus : WF_pspinVars(used = "pspin" /\ Handler(h))
  /\ WF_libVars(used = "lib" /\ LibProcess) /\ WF_eeVars(used = "eeprom" /\ EeRequest)

ToolsSpec == ToolsInit /\ [][ToolsNext]_toolsVars /\ ToolsFairness

Busy == CASE used = "pspin" -> drv.pc = "removing"
          [] used = "eeprom" -> ee.pc # "idle"
          [] OTHER -> TRUE
Settled == CASE used = "xcvr" -> ScanEnded
             [] used = "flash" -> FwEnded
             [] used = "slmp" -> SlmpDone
             [] used = "pspin" -> RemovalDone
             [] used = "lib" -> LibraryReturned
             [] used = "eeprom" -> ee.pc = "done"

\* Every run of a tool ends, every slmp_sendmsg returns whatever is lost, every
\* call of the library returns, every EEPROM request is answered, and removing
\* the PsPIN driver ends although handlers print nothing and readers wait.
ToolsEnd == Busy ~> Settled
============================================================================
