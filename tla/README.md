# Corundum: a TLA+ verification project

Corundum is an FPGA network card: RTL under `fpga/common/rtl`, a Linux driver
under `modules/mqnic`, applications (here PsPIN, in-network compute) under
`fpga/app`, and user-space tools. Host and card share descriptor and completion
rings in host memory, moved by free-running pointers, doorbells and interrupts.
This project models the parts where that sharing is decided, the driver's life
cycles around it, and the software on both sides (user library, firmware and
transceiver tools, PsPIN and SLMP libraries); it checks them with TLC and proves with
TLAPS the safety of the core (queue managers, rings, scheduler, network device), of the
clock, and of most of the software around it.

`PROJECT.json` lists the components, the runs, the mutants that show that every
property can fail, the source lines of every definition, the findings and the
hazards.

## Inventory

| Part | State | Operations | What is hard | Correct when |
|---|---|---|---|---|
| Descriptor queue manager, `queue_manager.v` | a word per queue (pointers, size, base, enable, index of the last operation), a pipeline, a table of dequeues in flight | register write/read, dequeue request, commit | acts on a copy read PIPELINE clocks ago; resources tested at stage 0 and used at the last; commits in any order, retirement in order; pointers wrap | no stale copy, no response or table entry overwritten, every descriptor is handed out once and only while the driver owns it |
| Completion queue manager, `cpl_queue_manager.v`, and `cpl_write.v` | the same, plus arm and event | register write/read, enqueue, commit, event | one phase bit tells new from old; event on commit or on arm; one event register | no record overwritten or taken twice, no lost wake-up, every completion reaches the driver |
| Transmit ring of the driver, `mqnic_tx.c` | `prod_ptr`, `cons_ptr`, `tx_info`, stopped bit | `start_xmit`, NAPI poll, open, close | two CPUs without a common lock or a full barrier; batching of doorbells; dropped packets | no slot reused early, each skb freed once, a stopped queue is woken, a batch is rung |
| Transmit scheduler, `tx_scheduler_rr.v` | a word per queue (enables, active, scheduled, tail), scheduled-queue FIFO, linked lists of requests in flight | doorbell, request, completion, control, register access, initialisation | a doorbell overtakes the status of a failed request; FIFO ready signals ignored | a queue with packets is never left inactive, each scheduled queue circulates once, no table entry leaks |
| Transmit and receive engines, `desc_fetch.v`, `cpl_op_mux.v`, `desc_op_mux.v` | tables of descriptors in flight, buffer pointers | request, fetch, DMA, completion | several pointers chase each other around one table; credits | every request ends in exactly one status and at most one completion |
| Receive ring of the driver, `mqnic_rx.c` | pointers, a page per slot | refill, NAPI poll, open, close | packets finish out of order; pages and skbs cannot be had | no page is posted or handed up twice; the ring stops only when it is really dry |
| Network device, `mqnic_netdev.c`, `mqnic_cq.c`, `mqnic_eq.c`, `mqnic_res.c` | port state, queues and their numbers, event tables, timer | open, close, MTU, channels, ring sizes, hash table; interrupt, poll, link timer | one step of several failing; events of a queue that is gone; numbers reused | a port is up with exactly its configuration, or stopped and empty; no event or poll reaches a queue that is gone; nothing stalls |
| Device, `mqnic_main.c`, `mqnic_if.c`, `mqnic_irq.c`, `mqnic_port.c`, `mqnic_board.c`, `mqnic_i2c.c` | what is acquired of the system | PCI and platform probe, remove, users opening devices meanwhile | forty steps that may fail, one undo path; users of a half-built device | everything released once and in order; MAC addresses distinct |
| PTP clock, `mqnic_ptp.c`, `mqnic_ptp_clock.v` | the clock, its latches, the ring's cached seconds | completion time stamps, gettime, settime, adjtime, periodic output | time passes between register accesses; 16 bits widened to 48 | reported times are times of the call or of the packet |
| Module EEPROM, `mqnic_ethtool.c` | the selected page, the I2C client's address | flat and paged reads | requests cut into blocks across pages; state left by earlier requests | every byte is the one asked for |
| User library, `lib/mqnic` | what the process holds, what its struct says | open in nine ways, enumerate, close | retries on one struct; error labels | no leak, double release or stale pointer |
| Firmware tool, `mqnic-fw.c`, `flash*.c` | chips, the PCIe port, the tool | erase, write, verify, read, boot, reset, rescan | kills, silent failures, two chips, erase blocks of several sizes | success means the image is there; nothing else changes |
| Transceiver tool, `mqnic-xcvr.c`, `xcvr_*.c` | registers of each channel, the scan | presets, resets, eye scan | channels side by side; registers and the tool's idea drifting apart | complete, true scans; coherent PLLs |
| SLMP sender, `lib/fpspin/slmp.c` | windows, socket, threads | `slmp_sendmsg` | ACKs shared by threads, lost or late | the result is true |
| PsPIN driver and library, `mqnic_app_pspin/main.c`, `runtime.c`, `loader.c` | areas, handler contexts, flags, FIFO | init, exit, poll, read, remove | handlers run while memory is freed; 8-bit numbers | no stray DMA, each request answered once |
| TDMA, `tdma_scheduler.v`, `tx_scheduler_ctrl_tdma.v` | slot counters | slot start/end, enable/disable of all queues | time | queues are enabled in their slots |
| PsPIN RTL, `fpga/app/pspin/rtl` | free lists of packet buffers, the latched contexts, DMA states | allocate, free, match, generate requests | counts and FIFOs that disagree for some clocks | no buffer leaked or given twice |
| Checksums, hash, statistics, PCIe and Ethernet wrappers | datapath and counters | | | out of scope, see below |

Interactions. The driver writes registers (posted, in order) and reads and
writes rings in host memory. `queue_manager.v` turns a producer pointer write
into a doorbell for the schedulers; a scheduler sends a request to the transmit
engine, which asks `desc_fetch.v` for a descriptor, which dequeues it from the
queue manager and commits it when it has been read; the engine sends the packet
and asks `cpl_write.v` for a completion, which reserves a slot of the completion
queue, writes the record and commits; the commit may raise an event, which takes
the same way through an event queue and ends in an interrupt; the interrupt
schedules NAPI, which consumes records, frees descriptors, writes the consumer
pointer and arms the queue again.

## Modules

| Module | Models | Uses |
|---|---|---|
| `DescQueue` | abstract descriptor queue: three pointers and an owner | |
| `QueueManager` | `queue_manager.v`, the driver's ring life, the fetch engine | refines `DescQueue` |
| `QueueManager_proofs` | theorems on `QueueManager`: pipeline and operation table, ownership of descriptors, refinement of `DescQueue` | `PointerTheorems` |
| `CplQueue` | abstract completion queue: reserve, publish, consume, arm | |
| `CplQueueManager` | `cpl_queue_manager.v`, `cpl_write.v`'s order, posted writes, NAPI poll loops | refines `CplQueue` |
| `CplQueueManager_proofs` | theorems on `CplQueueManager`: records, slots, wake-ups, refinement of `CplQueue` | |
| `TxRing` | `mqnic_tx.c`: `mqnic_start_xmit` against `mqnic_process_tx_cq` | hardware as a counter |
| `RxRing` | `mqnic_rx.c`: refill and poll against the hardware | hardware takes in order, finishes in any order |
| `PtpClock` | `mqnic_ptp.c` over the registers of `mqnic_ptp_clock.v` | |
| `TxScheduler` | `tx_scheduler_rr.v`, the transmit engine's order, the driver's enables | |
| `NetPort` | `mqnic_netdev.c`, `mqnic_cq.c`, `mqnic_eq.c`, `mqnic_res.c`, restarting calls of `mqnic_ethtool.c` | device as starts and completions |
| `Board`, `Device` | `mqnic_board.c`, `mqnic_i2c.c`; probe and removal in `mqnic_main.c`, `mqnic_if.c`, `mqnic_irq.c`, ... | `Device` extends `Board` |
| `ModuleEeprom` | module EEPROM calls of `mqnic_ethtool.c` | |
| `UserLib` | `lib/mqnic` over `mqnic_dev.c` | |
| `Flash` | `mqnic-fw.c`, `flash.c`, `flash_spi.c`, `flash_bpi.c`, `bitfile.c` | |
| `Transceiver` | `mqnic-xcvr.c`, `xcvr_gt.c` and the four families | |
| `Slmp` | `lib/fpspin/slmp.c`, the network and the receiver's ACKs | |
| `Pspin` | `mqnic_app_pspin/main.c`, `runtime.c`, `loader.c`; `pspin_her_gen.v` and `pspin_pkt_match.v` as they see them; handlers | |
| `PointerTheorems` | lemmas on wrapping pointers, sequences and least elements | |
| `Rings_proofs` | theorems on `TxRing`, `RxRing` and `PtpClock` | `PointerTheorems` |
| `TxScheduler_proofs` | theorems on `TxScheduler` | `PointerTheorems` |
| `NetPort_proofs` | theorems on `NetPort` | |
| `Tools_proofs` | theorems on `ModuleEeprom`, `Transceiver` and `Flash` | `PointerTheorems` |
| `Pspin_proofs` | theorems on `Pspin` and `Slmp` | `PointerTheorems` |
| `MCRings` | `TxRing`, `RxRing` and `PtpClock` in one run | |
| `MCTools` | `Transceiver`, `Flash`, `Slmp`, `Pspin`, `UserLib`, `ModuleEeprom` in one run | |
| other `MC*` | one per module, for TLC | |

### How state and actions correspond to the code

*The three RTL modules* are written in one style. `Clock` is one rising edge: it
conjoins `Stage0` (which operation is accepted, with the priorities of the
`if`/`else if` chain), `Perform` (what the operation in the last stage does to its
word) and one definition per register group for what it becomes (`OpTableNext`,
`RespNext`, ...). A pipeline entry carries the queue's address, the word read at
stage 0 and the write data. What other parts drive on the inputs in that clock is
chosen with `\E`: a register write the driver has to make, a ready signal, a commit, a
status. Bubbles are always possible when no higher-priority operation is ready, so the
handshakes that only delay an operation need no state.

*Freed operation table entries.* In the two queue managers the fields of a freed
entry are reset to those of `FreeEntry`; the RTL keeps the old values, but reads an
entry only if it is active. In the scheduler the old `next` and `prev` can be read
again, and are kept.

*The driver in the queue managers.* One register write per step, in the order of
`mqnic_open_*_ring`, `mqnic_open_cq`, `mqnic_close_*`. For descriptor queues the
write and its execution are one step (the driver's own state is what the register
write carries); for completion queues, where the order of the arm, of the consumer
pointer and of the next doorbell matters, writes travel through `mmio`, a FIFO of
posted writes. A descriptor may be completed when the driver has written the
producer pointer that covers it: `slots` is that credit, granted by the `ring`
write that follows the consumer pointer in the same FIFO.

*Waiting.* `mqnic_stop_port` disables the rings, calls `msleep(20)` and closes
them. It never asks the hardware whether it is done, so that the hardware is quiet
after 20 ms is an assumption of timing, and `Drained` states it. The mutant that
drops it (`Drained_NoWait`) breaks `GrantedOwned`.

*NAPI in `CplQueueManager`.* An event on its way to the driver is a count in
`pending`; `Interrupt` is `napi_schedule_irqoff` (it marks a running poll as
missed), `PollStart`, `PollRecord` and `PollEnd` the poll loop, `ArmCq` the arm
after `napi_complete`. Several CPUs may be between `napi_complete` and the arm.
`netif_napi_del` waits for a grace period (`synchronize_net`), so none is left when a queue is
closed. A poll between the opening of a queue and `port_up` returns at once and is
left out. The end of a poll covers both a spent budget and a receive poll that stops
because no skb could be allocated. The `continuous` bit is never set by any command.

*`TxRing`.* Every access to a variable the other CPU can observe is a step. The
store to `cons_ptr` is a plain store that no full barrier follows, so it may wait in
a store buffer (`store`, `Drain`) while the same CPU reads the stopped bit. Atomic
bit operations and the lock of the transmit queue are in order. `Complete` completes what was rung,
in order. A `start_xmit` that runs when the port goes down is taken to have returned
before the ring is freed.

*`TxScheduler`.* `packets` is what the descriptor queue holds; `Post` is a producer
pointer write and its doorbell, `Dequeue` the engine's dequeue for its oldest
request, `OtherPort` another port's scheduler that takes a packet of the same queue. An
empty queue is reported at once (`early_tx_req_status`, `tx_engine.v:611-616`), a
packet when it is sent, in order (`785-822`); with `AnyOrder` statuses come in any
order. The driver writes 3 to every queue: enabled and globally enabled.

*`RxRing`.* Pages are "none", "free" (posted) or "packet" (filled); one action per
record of the poll loop, so the hardware finishes packets between any two of them.
`rx_short` is history: the last refill stopped at a slot it could get no page for. It is
the only excuse `StopsOnlyDry` knows for a queue that stays without descriptors.

*`NetPort`.* Everything under RTNL is one thread (`thread`), one action per queue and
per step of `mqnic_start_port` and `mqnic_stop_port`; interrupts, polls, the link
timer and the device run beside it. An interrupt handler looks a queue up
(`IrqLookup`) and calls its handler (`IrqHandle`) in two steps, a poll ends with
`napi_complete` (`Poll`) and arms the queue afterwards (`PollArm`). A handler that
holds a queue freed since its lookup is `Dangling`.

*`Device`.* The probe is a sequence of steps, each of which acquires or checks
something and may fail; the removal and each error label are sequences of releases,
guarded as in the code by a pointer or not. `held` is what the system has given,
`bad` what was released without being held. `opt.phandles` says which interfaces of a
platform device name a module EEPROM: any set of them, none included, since a missing one
is no error. *`Board`.* Where an address takes several words (the Gecko BMC) a failed
read may be "torn": it still passes for an address (`Torn`).

*`PtpClock`.* The clock may tick before any register access, and several callers may be
in `gettime`, `settime` and `adjtime` at once: nothing in `mqnic_ptp.c` keeps them apart. `latcher`
is history, the caller whose read of the fraction latched last; `Truthful` judges an answer when
it is given. `Steady` is what a time stamp has to
satisfy for 16 bits to be enough: the cache is of the same clock setting and within
2^16 seconds of the record.

*`Flash`.* A nibble is the set of what was programmed into it since its erase, so
programming over something shows. A kill ends the tool anywhere and starts it again;
`bpi_flash_init` ends with its chip in array mode, whatever mode a kill left it in. The
PCIe side (`host`) keeps which handle is open and whether turning the fatal errors off and
unbinding worked or was missed, since the tool looks at neither; the reload is triggered
with the second handle open (`Boot`, `Iprog`, `Disconnect`).
*`Transceiver`.* A measurement uses the registers as they are when it starts; the
properties compare with the tool's file. Every write of a preset and of the reset after it may
fail, and `lost` keeps which did; a table stops at its first failure ("mixed"), the preset goes on.
How many samples a measurement took is not modelled, the counts written to the file are those of
the hardware; that the accesses of the scan itself succeed is assumed.
*`ModuleEeprom`.* The buffer starts cleared, a transfer may have fewer bytes than asked for or none,
the id of the module may be the byte on the stack, a selection may get lost; `blind` counts the last two
in the request under way. *`UserLib`.* `owns` is what the process
holds, apart from what its struct says. *`Pspin`.* The HER generator keeps the context it was last shown
(`stored`, `Latched`): a valid bit only has it taken over, and an application's is the default context. `Matched` is
the valid bit and the rule of the matching engine. The cores and the handlers on them are modelled from the
memories the host side uses. *`Slmp`.* `wire` and
`queued` are packets and ACKs under way; time is the choice between an arrival and
the deadline.

## Runs

Deadlock is checked except in `net_port`, `device_probe` and `tools`, whose
operations are bounded or whose tools end. Every property of a passing run has a
mutant in `PROJECT.json`: a changed definition under which the same run fails.

| Run | Instance | Checks | Distinct states |
|---|---|---|---|
| `qm_single` | 1 queue, 3 operations, 3 stages, pointers of 2 bits, rings of 2, two buffers, register reads | `GrantedOwned`, `OpsRetire` | 72 099 |
| `qm_multi` | 2 queues, 2 operations, 2 stages, rings of 1 | `PipeCoherent`, `ReqResourcesFree`, `OpTableRing`, `TagsExclusive`, `ImplementsDescQueue` | 363 948 |
| `cplq` | a queue of 1 or 2 with a ring of 2, 2 operations, event FIFO may be full | `RecordsFresh`, `NeverDropped`, `NoLostWakeup`, `SlotsOwned`, `ImplementsCplQueue` | 1 292 923 |
| `cplq_live` | 1 queue of 1, 1 operation, register reads | `CompletionsDelivered` | 13 321 |
| `cplq_lost_event` | 2 queues, event FIFO may be full | `NoLostWakeup`: violated | |
| `rings` | transmit and receive rings of 4, pointers wrap after 2 laps; a clock from 9 to 17 with two callers | `TxSlotsOwned`, `PagesOwned`, `ClockTrue`, `StoppedIsWoken`, `StopsOnlyDry` | 845 326 |
| `tx_batch` | the transmit ring alone | `BatchRung`: violated | |
| `sched` | 1 queue, 3 requests in flight, 2 packets, controller | `NeverForgotten`, `CirculatesOnce`, `EntriesLive` | 1 403 634 |
| `sched_tdma` | 1 queue, 2 requests in flight, 2 packets, controller | `NeverStuck`: violated | |
| `net_port` | 2 receive and 1 transmit queue, 1 event queue, 3 numbers, 2 requests, failing allocations | `QueuesLive`, `UpOrClean`, `NoStall`, `RequestsEnd` | 330 648 |
| `device_probe` | every board, both buses, 2 interfaces, every step but the ones below may fail | `NothingPulledAway`, `ReleasedOnce`, `MacsDistinct` | 329 685 |
| `tools` | the six modules of `MCTools`, see below | `ScanTrue`, `PresetsCoherent`, `Programmed`, `OthersIntact`, `QuietReset`, `SlmpTruthful`, `NoStrayDma`, `AnsweredOnce`, `LibraryHoldsWhatItSays`, `EepromTrue`, `ToolsEnd`, `PspinProgress` | 310 346 |

*Union runs.* `MCRings` and `MCTools` put modules that share nothing into one state
space: a behaviour steps one of them while the others stay in an initial state, so
the states add up instead of multiplying, and each property is about one module. In
both a variable `used` names the module that runs. In `MCTools` the fairness is
conditioned on it; in `MCRings` a ring that does not run is closed, and none of its
fair actions is enabled.

What the passing runs show: the pipelines of the three modules are free of
hazards (an operation never acts on a stale word, never finds its output register or
its table entry taken); a descriptor is handed out once per post, while the driver
owns it, across wrap-around and re-opening; the phase bit never shows a record of an
earlier lap or of an earlier life of the queue; no completion is refused as long as
the queue is as large as the ring; the arm protocol loses no wake-up, and every
completion reaches the driver; `start_xmit` and NAPI never reuse a slot early nor
leak an skb, and a stopped queue is woken although neither side has a full barrier;
a receive page is never posted twice, and a receive queue stops only when it is dry and
its last refill could get no page; a doorbell that overtakes a failed status is not lost by
the scheduler; a port that was started, restarted or failed to start is complete or
empty, and its completions are noticed across reused queue numbers; a probe that
fails at any of the admitted steps gives back everything once; the tools report what
they did, under kills, silent failures and lost packets.

### Findings

* `tx_batch` (`mqnic_tx.c:474`): a dropped packet that ends a batch leaves the
  packets before it without a doorbell, until a later call rings.
* `cplq_lost_event` (`cpl_queue_manager.v:560`): an arm that raises an event does
  not test that the event register is free; while the event FIFO is full one event
  overwrites another. With no more open completion queues than the FIFO has entries
  (1024) it never is full; `cplq` has one queue.
* `sched_tdma` (`tx_scheduler_rr.v:676`): with a scheduler controller a completion
  tests bit 1 of its write data, always 0, instead of the queue's global enable, and
  does not put a globally enabled queue back; the packet waits for the next doorbell.

A limit worth knowing: with `AnyOrder = TRUE` in `TxScheduler_sched.cfg`, `NeverForgotten`
fails. A completion does not move the queue's tail, so a doorbell after the newest
request was removed is not recorded. `docs/source/modules/tx_scheduler_rr.rst:33`
promises any order; `tx_engine.v` does not use that freedom.

### Defects met while modelling

No line of the repository promises the opposite of these, or no run is spent on it; the
passing instances leave the case out, by the constant named, or the property states
its exception.

| Where | What | Left out by |
|---|---|---|
| `mqnic_cq.c:94` | a completion buffer that cannot be allocated closes the event queue the other queues share; `NoStall` fails | `Faults` without `cq_buf` |
| `mqnic_netdev.c:57-80` | a failure after `napi_enable` frees a completion queue whose NAPI context is enabled and listed | counted in `orphans`, no property |
| `mqnic_eq.c:220` | a queue freed between lookup and call of its handler | `Dangling`, no property |
| `mqnic_if.c:83-160` | the error pointer of a failed `mqnic_create_res` is passed to `mqnic_destroy_res` | `CommonFaults` |
| `mqnic_board.c:956, 1002-1030` | Gecko BMC: the result of a word is kept in a `u16`, so a failed word is taken for data; a timeout (-2) of the first one gives the unicast fe:ff:.. | in the run; exception in `MacsDistinct` |
| `mqnic_board.c:42-51` | the error pointer of `i2c_new_client_device` passes the test for NULL | not modelled |
| `mqnic_main.c:171-178` | a platform device puts the module client of every interface, also of one without a phandle, whose entry is NULL | in the run; exception in `ReleasedOnce` |
| `mqnic_main.c:204-215` | a phandle without its I2C device ends the probe with the clients put twice | `SafePlatformFaults` without `eeprom` |
| `mqnic_ptp.c:15-35` | a record stamped just before a 256 s boundary and refreshed just after it, or a cache 2^16 s old, is widened wrongly | `Steady` |
| `mqnic_ptp.c:68` | two callers of gettime mix their latches: when a second ends in between, seconds and nanoseconds are of two times | in the run; exception in `Truthful` |
| `mqnic_ptp.c:117` | offsets beyond 2^29 ns change sign in the 30-bit register | not modelled |
| `mqnic_ethtool.c:371` | the result of the page selection is ignored: bytes of another page are handed out | in the run; exception in `EepromTrue` (`blind`) |
| `mqnic_ethtool.c:312-323` | a read without bytes leaves the module id uninitialised and is no error; with a wrong id a transfer may go on behind the buffer | in the run; exception in `EepromTrue` (`blind`); what is overwritten is not modelled |
| `mqnic_ethtool.c:503-510` | a transfer without bytes ends the request with success, and the rest of the buffer is 0 | in the run; part of `EepromTrue` |
| `xcvr_gtye4.c:443-468` | the results of a preset's writes are ignored (`drp.c:26` fails on a timeout): a channel may stay in reset, on the wrong PLL or with half a table | in the run; `PresetsCoherent` says that only what a failed write was to set is wrong |
| `mqnic-fw.c:456-511, 1366` | `pcie_disable_fatal_err` tests `!fd`, and its result and that of the unbinding are ignored | in the run; `QuietReset` asks that they were tried |
| `mqnic-fw.c:1404` | IPROG is written with the flash register block of a list that was freed | in the run: the tool may crash there |
| `lib/mqnic/mqnic.c:192` | a failing `fstat` jumps past the labels that unmap the registers | `LibFaults` without `fstat` |
| `mqnic-fw.c:1115` | with two chips the last 0x68 bytes of a file as long as its segment are not written | `MaxDualLen`; hypothesis `Loadable` of `ImageThere` |
| `mqnic-fw.c:1195` | lengths are rounded up to an erase block: a segment that does not end with one loses the first block of its neighbour | `SomeSetups`; hypothesis `Aligned` of `OthersSurvive` and `ImageThere` |
| `mqnic-fw.c:1329` | a run that only erases and resets, and finds no flash after a kill, goes on to the reset with a chip left in status mode | `SomeOptions`; hypothesis `Careful` of `ResetIsQuiet` |
| `mqnic-fw.c:895` | `-e` alone does not validate the slot | exception in `OthersIntact` |
| `mqnic-fw.c:1460` | a device that stays off the bus ends with status 0 | no property on the status |
| `slmp.c:31` | a window of 0 ("unlimited window / no ACK") always times out in the final drain; `SlmpTruthful` fails | `WndSizes`; hypothesis `Acked` of `SendsTruthfully` |
| `runtime.c:94` | when `nm` fails, or the process is killed, the area is freed under running handlers; `NoStrayDma` fails | `PspinFaults` |
| `runtime.c:104` | a packet before the first read of the flags is taken for answered | `early` in `PspinProgress` |
| `loader.c:153` | a section whose length is not a multiple of 4 never ends | `SectionLens` |

### Bounds, and why they are enough

Two queues are enough for one queue's operation to meet another's in the pipeline
and the table; one queue meets its own hazards. Two table entries are enough for out
of order commits, three for a request in the middle of a list. A two-stage pipeline
is the smallest the RTL allows, and `qm_single` has the three of the real
configuration; the theorems hold for every depth. Pointers of 1 or 2 bits wrap
within a few steps, and rings of half that size are the largest that tell full from
empty. Two buffers let a queue be re-opened elsewhere. `MaxPosted`, `MaxArming` and
`MaxPending` cap the posted writes, the CPUs about to arm and the events in flight: the
arm of one poll is still in flight when the next interrupt comes. `MaxPosts` caps the packets
posted in a run of the scheduler: two let one packet be taken and a second doorbell
overtake the status of the request that followed it. `LAPS` and `RX_LAPS` replace the
32-bit wrap of the driver's pointers; `REFILL` (8 in the code) and `BUDGET` (64) are 2, so
that a refill is sometimes postponed and a poll sometimes cut short.

`PtpClock` scales 2^8, 2^16 and 2^32 seconds to 2, 4 and 8 and a second to 2 ticks, and starts
just below a carry of each; the deltas of adjtime are smaller than the clock's value. Two callers make one or
two calls between them, beside two completions, so that a call may latch between the reads of another.

`net_port`: two requests, so every restart is followed by another; two receive
queues and one transmit queue share the event queue and exactly use up the numbers,
so every number is reused. `device_probe`: two interfaces, so the second may fail
with the first in use; to keep the states few, not both a part of the board and an address fail in one probe. `Transceiver`: a grid of 2 by 2 points and 2 channels, alone
and together, in all four families; `SomeLosses` has each write of a preset fail alone, and two of different steps
together, and `LossBound` has them fail for one channel, in runs without a scan; the theorem `PresetsWhole` has neither bound. `Flash`: a flash of 32 bytes with the order of
page, sub-sector, sector, step and write buffer kept, image lengths on and off block
boundaries, one silent failure and one kill. `Slmp`: two threads, windows of 1 to 3
(smaller, equal and larger than the threads), messages up to 6 packets, two losses. `Pspin`: two
applications, one reader, numbers modulo 2, so that they wrap at the second request;
the driver is removed only while no application uses it (the kernel's module count
does the same for open files). `UserLib`: lists that start with room for 2 blocks and
grow by 1 (8 and 4 in the code), so that the list of three grows; all nine ways to a
device. `ModuleEeprom`: halves of 2 bytes and blocks of 2, so that a request of up to three pages is cut
across a half, and a short read inside a block; `MaxBlind` is 1: a second failure nobody looks at
tells no more of a request of which `EepromTrue` says nothing any longer.

### Fairness, and why the code justifies it

* Hardware: the clock runs (weak fairness of `Clock`); the fetch engine and `cpl_write`
  take a response and commit what they hold (no path in `desc_fetch.v` or
  `cpl_write.v` drops one); a commit at the head of the table is finalized in the end
  (strong fairness: it has a lower priority than register accesses, but these are
  single writes of the host, separated by the hazard and in-pipe tests of line 371-393,
  never a continuous stream).
* Host bus: a posted write arrives and is accepted.
* Driver: NAPI runs once scheduled and its loop goes on (the kernel's softirq);
  `start_xmit` returns; a store buffer drains. Nothing is assumed of how often the
  network stack sends, of when a port goes down, or of register reads.
* Receive ring: packets keep arriving while a buffer is posted, and a poll that cannot
  get an skb, which NAPI repeats, gets one in the end (strong fairness of `RxPollCpl`);
  pages need never be had. This is what makes "stops only when dry" a claim about the
  driver and not about the traffic.

* Network device and tools: a thread under RTNL, an interrupt, a scheduled poll and
  the device's operations go on (`NetFairness`); a process or tool runs on, a chip or
  the eye scan logic finishes what it was told, a datagram arrives or is lost, a deadline
  passes. Nothing makes a handler print, a packet arrive or the FPGA load.

Liveness of the scheduler is not checked: its fixed priorities make it depend on
the rate of doorbells (`tx_scheduler_rr.v:517`).

## Proofs

`QueueManager_proofs` proves for every number of queues, table size, pipeline depth (at
least 2), pointer width, set of ring sizes and of buffers:

| Theorem | Statement |
|---|---|
| `TypeCorrect` | `Spec => []TypeOK` |
| `HazardFree` | `Spec => []PipeCoherent`: the hazard comparison of stage 0 is enough, whatever the depth |
| `ResourcesFree` | `Spec => []ReqResourcesFree`: what a dequeue tested at stage 0 still holds at the last stage |
| `TableIsRing` | `Spec => []OpTableRing` |
| `TagsAreExclusive` | `Spec => []TagsExclusive` |

The assumptions are the `ASSUME`s of `QueueManager`: positive sizes, `PIPELINE >= 2`
(the RTL asserts it), a table smaller than the pointer range, ring sizes below the
pointer range. That `2^n` is a positive natural is stated as an assumption, since
the provers do not know exponentiation; TLC evaluates it for each instance.

The argument. None of these is inductive by itself. The inductive invariant is
`IInv == TypeOK /\ PipeInv /\ TableInv /\ GrantInv`. `PipeInv` adds to `PipeCoherent` that at
most one dequeue is in the pipeline (`OneReq`): this makes the test made at stage 0
last until the last stage, since only a dequeue takes the response register and
the entry at `start_ptr`. `TableInv` joins `OpTableRing` and `ReqResourcesFree`; it
needs `OneReq` for the entry that is allocated and the ring for the entry that is
retired. `GrantInv` says that the tags of the response register and of the fetch engine name
different, active, uncommitted entries (`TagsExclusive`) and that the response is
not also held (`RespNotHeld`); it needs the ring, because a new tag is `start_ptr`, and
the commit flag, because only a committed entry is retired. `InvInductive` has one step per action
and one lemma per part of the invariant for `Clock`.

The second part of `QueueManager_proofs`, on top of that invariant and under the same assumptions (ring sizes
below the pointer range is now stated as `2^n < PtrMod` too):

| Theorem | Statement |
|---|---|
| `DescriptorsAreOwned` | `Spec => []GrantedOwned` |
| `ThreePointers` | `Spec => ImplementsDescQueue`: the refinement of `DescQueue` |

The argument. `OwnInv` adds five parts to `IInv`. `OneSet` and `WriteInv`: one register write is in
the pipeline, the last one the driver made. `PhaseInv`: at each step of opening a ring the word
has the fields written so far, and a queue is enabled only between `EnableRing` and `CloseRing`.
`HeldInv`: a ring with a descriptor handed out is not closed and keeps its address and size.
`ChainInv` is about the pointers. Pointers wrap, so each is described as the remainder of an
integer that only grows: `B` where the retired descriptors end, `N` the next to hand out, `U` and
`X` the driver's consumer and producer, `P` the producer in the word. There is a chain `c` of
table entries such that the queue's entries are `c[B+1] .. c[N]`, in table order, with pointers
`B+1 .. N`; `op_index` names the last one; the word's consumer pointer is `B`, or `B-1` while a
commit is in the pipeline; and `U <= N <= P <= X <= U + size`, where an uncommitted entry is ahead of
`U`, and what the driver may reap is committed. A retirement pops the chain (`ChainPops`), a dequeue
pushes it (`ChainPushes`: the entry at `start_ptr` is the youngest, because the table is a ring),
everything else leaves it (`ChainStays`). `GrantedOwned` follows: a descriptor handed out is an
uncommitted entry `k` of the chain with `U < k <= N <= X`. For the refinement, the shadow pointer
is `N` wherever the RTL keeps it (`ShadowNow`: the entry of the last dequeue, the commit in the
pipeline, or the word), and the operation in the last stage is the `DescQueue` step on its queue
(`LastMoves`); other queues keep their pointers (`OthersKeep`).

`CplQueueManager_proofs`, for any number of queues, table size, pipeline depth (at least 2), pointer
width, set of queue sizes, number of register writes in flight and NAPI budget. The only
assumption beyond those above is that twice a queue size divides the pointer range, which is what
makes the phase bit of a record alternate from lap to lap when the pointer wraps:

| Theorem | Statement |
|---|---|
| `RecordsAreFresh` | `Spec => []RecordsFresh` |
| `SlotsAreOwned` | `Spec => []SlotsOwned` |
| `CompletionsFit` | `Spec => []NeverDropped` |
| `WakeupsArrive` | `Reliable` gives `Spec => []NoLostWakeup` |
| `CompletionQueue` | `Spec => ImplementsCplQueue`: the refinement of `CplQueue` |

The argument. Pipeline, table and chain are those of the descriptor queue, with producer and
consumer exchanged. New is that the host writes ahead: between the driver's view of a queue and the
word in the hardware lies a FIFO of posted writes and one write in the pipeline. `CplInv` numbers
all writes and has, for each position of that way (`Way`), the step `L` of the opening that the
write completes, the consumer pointer `A` and the number `S` of descriptors posted once it has
performed; every write moves these three by its `Effect`. What the driver knows is true at the end
of the way (`Made`), what the hardware knows at its start (`Now`), and `Range` bounds every position in
between: `A <= U` and `S <= RING_SIZE + A`, where `U` is what the driver has consumed. The word, the
chain `B .. N` of reservations and the descriptors not yet completed stay within the `A` and `S` of the
start, so `N - A` never exceeds the queue (`Room`, `Budgeted`): this gives `NeverDropped`. `Filled` says of
each of the next `size` numbers `k` from `U` on that its slot holds the record of `k` or of `k - size`,
and that a slot still to be written holds the older one; as the phase bits of these two differ, a
record the driver accepts is the right one, and a slot to be written is ahead of the driver.
`Armed`: an armed queue has nothing published beyond the consumer pointer the hardware knows; one
that is not armed has a poll, an arm or an event behind it. The last half needs `Reliable`, one queue or
an event FIFO that is always ready, because an arm overwrites the event register: the run
`cplq_lost_event` shows the loss when neither holds. For the refinement, the operation in the last stage
is the `CplQueue` step on its queue (`ReqMoves`, `CommitMoves`, `WriteMoves`, `ReadMoves`), and the event
register its notification.

`Rings_proofs`, for rings of any size of at least 2 entries (transmit; at least 1 for
receive) whose pointers wrap after at least 2 laps:

| Theorem | Statement |
|---|---|
| `TxSlotsAreOwned` | `Spec => []TxSlotsOwned` |
| `PagesAreOwned` | `RxSpec => []PagesOwned` |
| `TimesTrue` | `PtpSpec => []ClockTrue` |

The transmit invariant bounds how full the ring can get. `mqnic_start_xmit` stops the queue at
`full_size`, but NAPI may read the stopped bit before its own `cons_ptr` is visible and
wake the queue on a reading that is out of date. Such a wake-up comes at most once per store, so
the ring exceeds `full_size` by one, and by two while the store is buffered (`TxBound`);
`full_size` leaves room for that. From the bound follows the order of `cons_ptr`, what
the device has completed, what was rung and `prod_ptr`, and slots of different pointers
less than a ring apart are different. The receive invariant keeps the same order and adds,
for each point of the poll loop, how far `cons_ptr` has to move (`RxReach`, `RxConsAfter`),
because packets finish out of order.

`TimesTrue` is for any number of ticks to a second, any of seconds to a block of the time
stamp, and any number of callers, completions, ring and clock settings. The invariant (`PtpInv`) says
of a call that each part it has read so far is that part of a time of the clock since the call began, and of
the latched time itself as long as no other call latched; this gives both halves of `Truthful`, the time when the
latch is its own or no second ended, the seconds when another latched in between. Of the ring's
cache it says that it is the block of the time at which it was read, so that a record that
is `Steady` and has the cache's low bits is in the same block. `OrBytes`, the bitwise or of the code,
is a constant that `MCRings` binds to an operator over `Bitwise`; the proof uses of it only the
assumption that the or of a byte with itself is that byte.

`TxScheduler_proofs`, for any number of queues, table size, pipeline depth (at least 2), with
and without a controller:

| Theorem | Statement |
|---|---|
| `QueuesCirculateOnce` | `Spec => []CirculatesOnce` |
| `EntriesAreLive` | `Spec => []EntriesLive` |
| `NothingForgotten` | `AnyOrder = FALSE` gives `Spec => []NeverForgotten` |

`SchedIInv` says that an operation in the pipeline carries the current word, that nothing
but initialisation happens until it is done, that a scheduled queue is in the FIFO or in a
request but not both, and that every active entry is at exactly one place of a line:
pipeline (request), request register, engine, results, finish FIFO, finish register,
pipeline (completion). A clock moves each request to one place and no two to the same
(`From`, `Origins`, `OriginsApart`, `Onward`), so tags stay unique. `NeverForgotten` needs
the order of that line too. When results that found a queue empty leave in the order of
their requests, the newest request of the queue leaves after all of them (`SchedTail`), so
that a doorbell recorded at the tail is still in the line when the last such status is
applied (`SchedRung`). Without that order the theorem is false, see the limit under
"Findings".

`NetPort_proofs`, for any number of queues, queue numbers and requests and any set of
failing steps:

| Theorem | Statement |
|---|---|
| `QueuesAreLive` | `Spec => []QueuesLive` |
| `PortIsUpOrClean` | `Spec => []UpOrClean` |
| `NothingStalls` | `"cq_buf" \notin Faults` gives `Spec => []NoStall` |

The invariant follows the thread under RTNL: for each phase of a start, of a failed start and
of a stop, which queues exist, which one is half made, that a number has one owner and that
the event table names exactly the owners. `UpOrClean` needs in addition that the counts a restart
will use are those the indirection table was made for. `NoStall` adds that a completion
nobody has seen has an armed queue, an event, an interrupt or a poll behind it; its
hypothesis is the first row of the table of defects above.

`Tools_proofs`, for every value of the constants of the three modules:

| Theorem | Statement |
|---|---|
| `BytesAskedFor` | `EeSpec => []EepromTrue` |
| `PresetsWhole` | `XcvrSpec => []PresetsCoherent` |
| `ScansTruly` | `XcvrSpec => []ScanTrue` |
| `ResetIsQuiet` | `Careful` gives `FlashSpec => []QuietReset` |
| `OthersSurvive` | `Aligned` gives `FlashSpec => []OthersIntact` |
| `ImageThere` | `Aligned` and `Loadable` give `FlashSpec => []Programmed` |

Each hypothesis names a row of the table of defects that it excludes.
`Careful`: a run that erases and resets also reads or writes. `Aligned`: on each chip every segment
ends with an erase block. `Loadable`: with two chips an image has whole pairs of bytes after
the first 0x68 and ends 0x68 before its segment does (the row of `mqnic-fw.c:1115`; a
bitstream is a sequence of 32-bit words, so its length is even); with a parallel flash
segments start on a word and erase blocks are whole words. All three hold of the instance of the run `tools`.
The scan assumes of its constants that offsets fit their registers (`H_STOP` at most 1023,
`V_STOP` at most 127) and that the prescaler can reach the target; facts on powers of 2, which the provers do
not know, are `PowersAssumption`, which TLC evaluates.

The arguments. `ModuleEeprom`: the bytes read so far are the ones asked for and the rest of the buffer is as
cleared; the round under way aims at the next byte with the page it needs, unless the request was blind; what
page earlier calls left selected does not matter, because each round selects. `Transceiver`, presets:
`Coherent` is the property with its excuses (`Missed`). The set of failed writes only grows, so an excuse
lasts; each helper of a preset has a lemma that names the fields it sets and the excuse it leaves; no step of
a scan writes one of those fields. `Transceiver`, scan: point `n` of a channel is `(a * NV + b) * signs + u`
for column `a`, row `b` and sign `u` (`GridPoint`), and `ScanInv` says where a channel stands (`Standing`, `Place`):
the points written are the grid's first `n`, the registers are set to point `n`, and the measurement under
way was started there. A step of the scan goes to point `n + 1` or finds the grid complete (`AdvanceStands`). `TargetInv`: the prescaler
was chosen for a target at least the one asked for (`Chosen`), though a channel replaces the target by what its own counter
counts, because that raises the prescaler by at most one from channel to channel; `MaskWord`: the mask leaves one word
of the lower half; `RoundInv`: while a round has found nothing to do, no channel before this one is running;
`Fallow`: a channel not yet started has no point. `Flash`, reset: outside
an operation every chip is idle and out of status mode, whatever failed, because each path out
of an operation ends in array mode; from `Prepare` on both steps were tried and the first handle
is closed (`Tried`), and at the step that takes the device off the bus the second is too (`FlashAt`, one clause per step). `Flash`, contents: `IntactInv` says of every job of a run that the
addresses it still has to do, its step, erase block and page lie within what the segment is of
its chip; the length that is rounded up ends with the segment's last block at the latest. `Flash`,
success: `ProgInv` adds to both that the jobs left of a write are the end of one plan (the chips erased one after
the other, then written), that a chip whose write is done holds its half of the image up to the length
verified and is awake, and that the segment and the file stay those the plan was made
for. Success is reported at the end of the plan only. There `Merged` undoes `PriBuf` and `SecBuf`, and the bit
reversal undoes itself, so the image is what is read; a kill or a failure drops the
plan and with it the claim.

`Pspin_proofs`, for every number of processes, readers and cores and of request numbers, and for every
number of threads, set of windows and of lengths and number of failures:

| Theorem | Statement |
|---|---|
| `HandlersStayInside` | `Orderly` gives `PspinSpec => []NoStrayDma` |
| `RequestsTakenOnce` | `Orderly` gives `PspinSpec => []AnsweredOnce` |
| `SendsTruthfully` | `Acked` gives `SlmpSpec => []SlmpTruthful` |

`Orderly`: neither of the two failures after which a process loses its mapping while its
handlers run. At most one process owns the application area, and `PspinInv` gives
its place in the list of steps load, requests, unload; from the place follows what the
NIC can be doing (no handler before the execution contexts are enabled, none after the
reset, and a stored context is that of the area that was loaded), and for each handler which of
its last two request numbers the host has taken, so that numbers that come around are told apart.

`Acked` is `0 \notin WndSizes`: the row of `slmp.c:31` is excluded. `SlmpInv` says of a call that has not failed that
it is in one of three stages. `Opening`: there is the first packet or its
reply, and nothing else. `Sending`: the credit of the threads (of the caller, before and after them), the packets sent that have not
arrived, and the replies on their way are together at most `window_total`, and exactly that
while nothing was lost (`Balance`). `AllDone`: the receiver has every packet. The balance
gives both halves of the claim. The last drain ends well only with the whole window, so that
nothing is out and every packet has arrived, since the threads' parts cover the packets. And
while nothing was lost nobody waits in vain: no thread has more than its share of the window, so
when one has none (or, at the end, the caller has less than the window) a packet or a reply is still
on its way. The credit is a sum over the threads. It is defined by its partial
sums, whose properties are shown with least counterexamples in place of induction, and
`FoldIsSum` shows that the fold with which `Join` collects the windows is that sum.

Only model-checked, and why:

* all liveness properties: fairness and `ENABLED` are beyond TLAPS;
* `NothingPulledAway`, `ReleasedOnce`, `MacsDistinct` of `Device`: the steps of a probe are a
  sequence flattened from one sequence per device, and what that computes for any number of
  devices needs induction over data, as does what the recursive enumeration of
  `UserLib` finds (`LibraryHoldsWhatItSays`).

## Plan

1. Prove: what of `Device` and `UserLib` needs no induction over the flattened steps, for a fixed number
   of interfaces.
2. Compose: `TxRing` over `DescQueue` and `CplQueue` in place of its counter; the
   scheduler over `DescQueue`, with the doorbell rate that its liveness needs.
3. Model: `desc_fetch.v` with `desc_op_mux.v` and the engines' tables; the PsPIN buffer
   allocator (`pspin_pkt_alloc.v:159` accepts a packet by counts that run ahead of its
   FIFOs) and the rules and tags of the matching engine and request generator.

## Not modelled

Packet bytes: checksums, hashing, datapath FIFOs and the PCIe, AXI and Ethernet
libraries under `fpga/lib` (vendored); the TDMA slot counters and the fractional
arithmetic of the PTP clock; statistics; the engines' descriptor tables and the rest of the PsPIN
RTL, which are planned; the DMA benchmark; `mqnic-config`, `mqnic-dump`, `mqnic-bmc`,
which print registers or write one; the register headers under `include/gt`, which are
tables of field positions. The doorbell FIFO of the scheduler is not bounded
(`tx_scheduler_rr.v:278`: its ready signal is not connected), and `mqnic_start_xmit` is taken
to have returned when a ring is freed (`mqnic_netdev.c:231`). `PROJECT.json` gives the reason for each
component.
