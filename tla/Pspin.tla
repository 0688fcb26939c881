------------------------------- MODULE Pspin -------------------------------
(***************************************************************************)
(* The PsPIN application: its kernel driver (app/pspin/modules/            *)
(* mqnic_app_pspin/main.c), the library applications use (lib/fpspin:      *)
(* runtime.c, loader.c), and the NIC as both see it.                       *)
(*                                                                         *)
(* An application maps a host DMA area, loads handlers into the cluster,   *)
(* points the handler execution requests (HER) at the area and the         *)
(* matching engine (ME) at its packets.  A handler (external: only the     *)
(* registers and memories it shares with the host are in the repository)   *)
(* writes a numbered request into the area, and waits until the host       *)
(* writes that number back.  Others read the handlers' output, a FIFO, or  *)
(* remove the driver.                                                      *)
(*                                                                         *)
(* One handler context, as the loader's FIXME on relocation says; register *)
(* writes do not fail; an area is mapped by every caller of fpspin_init    *)
(* (hostdma_pages > 0).  Contents of images and payloads are left out.     *)
(***************************************************************************)
EXTENDS Integers, Sequences, FiniteSets

CONSTANTS Procs,       \* processes that use libfpspin
          Readers,     \* processes that read the stdout FIFO
          Handles,     \* DMA addresses the allocator may return
          Hpus,        \* cores that run handlers
          DMA_IDS,     \* values of the 8-bit dma_id
          BLOCK,       \* pspin_block_size, bytes
          SectionLens, \* lengths of an image's section, bytes
          MaxOut,      \* words in the FIFO
          PspinFaults  \* what may fail

ASSUME PspinAssumption ==
  /\ DMA_IDS \in Nat \ {0, 1} /\ MaxOut \in Nat
  /\ BLOCK \in {4 * n : n \in 1..1024} /\ SectionLens \subseteq Nat
  /\ Handles # {} /\ Hpus # {}

VARIABLES
  drv,    \* the driver: [pc, res, exiting, holder (of the FIFO's pspin_mutex)]
  app,    \* struct mqnic_app_pspin: [in_reset, in_me_conf, in_her_conf]
  hw,     \* registers and queued packet of the NIC
  area,   \* dma_areas[0]: [enabled, mem, ref_count]
  proc,   \* processes: [todo, dma_idx, cur, left]
  page,   \* per core, dma_id of the flag in the host area
  flag,   \* per core, dma_id of the flag in the NIC's memory (host_data)
  hpu,    \* cores: [st, id, mem, early]
  handled,\* times the host took the request each core waits for
  reader, \* stdout readers: [pc, off]
  fifo    \* words in the stdout FIFO

pspinVars == <<drv, app, hw, area, proc, page, flag, hpu, handled, reader, fifo>>
hostVars == <<drv, app, area, proc, reader>>
nicVars == <<hw, page, flag, hpu, handled, fifo>>

NoProc == [todo |-> <<>>, dma_idx |-> [h \in Hpus |-> 0], cur |-> [h \in Hpus |-> -1], left |-> 0]
NoArea == [enabled |-> FALSE, mem |-> "none", ref_count |-> 0]
PspinInit ==
  /\ drv = [pc |-> "unbound", res |-> {}, exiting |-> FALSE, holder |-> "none"]
  /\ app = [in_reset |-> TRUE, in_me_conf |-> TRUE, in_her_conf |-> TRUE]
  /\ hw = [reset |-> TRUE, fetch |-> FALSE, me_valid |-> FALSE, rule |-> "bypass",
           her_valid |-> FALSE, ctx_enabled |-> FALSE, her_mem |-> "none", stored |-> "none",
           pending |-> {}]
  /\ area = NoArea
  /\ proc = [p \in Procs |-> NoProc]
  /\ page = [h \in Hpus |-> 0] /\ flag = [h \in Hpus |-> 0] /\ handled = [h \in Hpus |-> 0]
  /\ hpu = [h \in Hpus |-> [st |-> "idle", id |-> 0, mem |-> "none", early |-> FALSE]]
  /\ reader = [r \in Readers |-> [pc |-> "idle", off |-> 0]]
  /\ fifo = 0

\* The HER generator keeps the context it was last shown: a reset clears it, and
\* her/valid, which gates nothing else, has it taken over.
Latched(r) ==
  [r EXCEPT !.stored = IF r.reset THEN "none"
                       ELSE IF r.her_valid THEN (IF r.ctx_enabled THEN r.her_mem ELSE "none") ELSE @]

---------------------------------------------------------------------------
(* Probe and remove.                                                       *)
Devices == {"cdev0", "cdev1"}
ProbeSteps == {"chrdev", "class", "cdevs", "sysfs"} \union Devices
\* What probe has acquired when step f fails.
AcquiredBefore(f) ==
  CASE f = "chrdev" -> {}
    [] f = "class" -> {"chrdev"}
    [] f = "cdevs" -> {"chrdev", "class"}
    [] f = "cdev0" -> {"chrdev", "class"}
    [] f = "cdev1" -> {"chrdev", "class", "cdev0"}
    [] OTHER -> {"chrdev", "class", "sysfs"} \union Devices

devices_to_destroy(f) ==
  CASE f = "cdev1" -> {"cdev0"} [] f = "sysfs" -> Devices [] OTHER -> {}
pspin_cleanup_chrdev(res, devs) == res \ ({"chrdev", "class"} \union devs)

\* init_pspin_sysfs: the removal of the directories is registered when all exist.
\* If one of them or a group in it cannot be made, those before it stay, and the
\* next probe of this device cannot make them again.
init_pspin_sysfs(f, res) == f # "sysfs" /\ "sysfs" \notin res
remove_pspin_sysfs(res) == res \ {"sysfs"}

\* The state of the driver is new in every probe; the registers of the device are
\* what the last user left.
mqnic_app_pspin_probe(f) ==
  LET fail == IF f = "none" /\ ~init_pspin_sysfs(f, drv.res) THEN "sysfs" ELSE f IN
  /\ drv.pc = "unbound"
  /\ area' = NoArea
  /\ IF fail = "none"
     THEN /\ drv' = [pc |-> "bound", res |-> AcquiredBefore(fail), exiting |-> FALSE, holder |-> "none"]
          /\ hw' = Latched([hw EXCEPT !.reset = FALSE, !.rule = "bypass", !.me_valid = TRUE])
          /\ app' = [in_reset |-> FALSE, in_me_conf |-> FALSE, in_her_conf |-> TRUE]
     ELSE /\ drv' = [drv EXCEPT !.res = IF fail = "chrdev" THEN @
                       ELSE pspin_cleanup_chrdev(@ \union AcquiredBefore(fail), devices_to_destroy(fail))]
          /\ UNCHANGED <<hw, app>>
  /\ UNCHANGED <<proc, page, flag, hpu, handled, reader, fifo>>

\* pspin_destroy_device: readers are told, then waited for.  The device is
\* removed only while no application uses it.
RemoveBegin ==
  /\ drv.pc = "bound" /\ \A p \in Procs : proc[p] = NoProc
  /\ drv' = [drv EXCEPT !.pc = "removing", !.exiting = TRUE]
  /\ UNCHANGED <<app, area, proc, reader>> /\ UNCHANGED nicVars
\* The mutex is taken, destroyed and never released.
RemoveEnd ==
  /\ drv.pc = "removing" /\ drv.holder = "none"
  /\ drv' = [drv EXCEPT !.pc = "unbound", !.res = remove_pspin_sysfs(pspin_cleanup_chrdev(@, Devices))]
  /\ reader' = [r \in Readers |-> IF reader[r].pc = "lock" THEN [pc |-> "stuck", off |-> 0] ELSE reader[r]]
  /\ UNCHANGED <<app, area, proc>> /\ UNCHANGED nicVars

---------------------------------------------------------------------------
(* pspin_read of the stdout FIFO.                                          *)
Read(r, pc, off) == reader' = [reader EXCEPT ![r] = [pc |-> pc, off |-> off]]
ReadBegin(r) ==
  /\ reader[r].pc = "idle" /\ drv.pc \in {"bound", "removing"}
  /\ ~drv.exiting
  /\ Read(r, "lock", 0)
  /\ UNCHANGED <<drv, app, area, proc>> /\ UNCHANGED nicVars
ReadLock(r) ==
  /\ reader[r].pc = "lock" /\ drv.holder = "none"
  /\ drv' = [drv EXCEPT !.holder = r]
  /\ Read(r, "loop", 0)
  /\ UNCHANGED <<app, area, proc>> /\ UNCHANGED nicVars

\* Mutant: exiting is only looked at before the first wait.
ReadLeaves_Once(r) == drv.exiting /\ reader[r].off > 0
\* The loop ends when the driver goes away.
ReadLeaves(r) == drv.exiting
ReadLoop(r) ==
  LET off == reader[r].off
      wait == fifo > 0 IN
  /\ reader[r].pc = "loop"
  /\ IF ReadLeaves(r) \/ off >= BLOCK THEN Read(r, "out", off) /\ UNCHANGED fifo
     ELSE IF wait THEN Read(r, "loop", off + 4) /\ fifo' = fifo - 1
     ELSE Read(r, IF off = 0 THEN "loop" ELSE "out", off) /\ UNCHANGED fifo
  /\ UNCHANGED <<drv, app, area, proc, hw, page, flag, hpu, handled>>
\* A signal: what was read so far is lost.
ReadSignal(r) ==
  /\ reader[r].pc = "loop"
  /\ Read(r, "out", 0)
  /\ UNCHANGED <<drv, app, area, proc>> /\ UNCHANGED nicVars
ReadOut(r) ==
  /\ reader[r].pc = "out"
  /\ drv' = [drv EXCEPT !.holder = "none"]
  /\ Read(r, "idle", 0)
  /\ UNCHANGED <<app, area, proc>> /\ UNCHANGED nicVars

---------------------------------------------------------------------------
(* Mapping and unmapping of the host DMA area.                             *)
\* Steps of fpspin_load and fpspin_prog_me, of what is left of fpspin_init,
\* and of fpspin_exit.
Load == <<"fetch_off", "rst_on", "rst_off", "section", "fetch_on",
          "her_off", "her_set", "her_on", "me_off", "me_rules", "me_on", "nm", "flags">>

\* Mutant: the area is unmapped first.
Unload_Late == <<"unmap", "fetch_off", "rst_on", "rst_off", "me_off", "me_bypass", "me_on">>

Unload == <<"fetch_off", "rst_on", "rst_off", "me_off", "me_bypass", "me_on", "unmap">>

Op(p) == IF proc[p].todo = <<>> THEN "none" ELSE Head(proc[p].todo)
NextOp(p) == proc' = [proc EXCEPT ![p].todo = Tail(@)]
Jump(p, ops) == proc' = [proc EXCEPT ![p].todo = ops]

\* pspin_mmap: the area belongs to one mapping at a time.
fpspin_init(p) ==
  /\ drv.pc = "bound" /\ proc[p] = NoProc
  /\ ~area.enabled
  /\ \E m \in Handles, n \in SectionLens :
       /\ area' = [enabled |-> TRUE, mem |-> m, ref_count |-> 1]
       /\ proc' = [proc EXCEPT ![p].todo = <<"query">> \o Load, ![p].left = n]
  /\ page' = [h \in Hpus |-> 0]
  /\ UNCHANGED <<drv, app, reader, hw, flag, hpu, handled, fifo>>
\* vm_iomap_memory fails: nothing is unmapped, so the area stays taken.
MapFails(p) ==
  /\ drv.pc = "bound" /\ proc[p] = NoProc
  /\ ~area.enabled /\ "iomap" \in PspinFaults
  /\ \E m \in Handles : area' = [enabled |-> TRUE, mem |-> m, ref_count |-> 0]
  /\ UNCHANGED <<drv, app, proc, reader>> /\ UNCHANGED nicVars

\* pspin_vma_close.
Closed == IF area.ref_count = 0 THEN area
          ELSE [area EXCEPT !.ref_count = @ - 1, !.enabled = @ /\ area.ref_count > 1]
Unmap(p) ==
  /\ Op(p) = "unmap"
  /\ area' = Closed
  /\ proc' = [proc EXCEPT ![p] = NoProc]
  /\ UNCHANGED <<drv, app, reader>> /\ UNCHANGED nicVars
Query(p) ==
  /\ Op(p) = "query" /\ NextOp(p)
  /\ UNCHANGED <<drv, app, area, reader>> /\ UNCHANGED nicVars
\* A process whose madvise or query fails (before the load), whose nm fails
\* (after it), or that is killed during any step, loses its mapping: nothing
\* stops the NIC first.
Stopped(p) == IF "kill" \in PspinFaults THEN Op(p) \notin {"none", "unmap"}
              ELSE Op(p) \in {"query", "nm"} \intersect PspinFaults
InitFails(p) ==
  /\ Stopped(p)
  /\ Jump(p, <<"unmap">>)
  /\ UNCHANGED <<drv, app, area, reader>> /\ UNCHANGED nicVars

---------------------------------------------------------------------------
(* Registers (pspin_reg_store with its checks) and memory, as the loader   *)
(* writes them.                                                            *)
SetHw(r) == hw' = Latched(r) /\ UNCHANGED <<page, flag, hpu, handled, fifo>>
Fetch(p) ==
  /\ Op(p) \in {"fetch_on", "fetch_off"}
  /\ SetHw([hw EXCEPT !.fetch = Op(p) = "fetch_on"])
  /\ NextOp(p)
  /\ UNCHANGED <<drv, app, area, reader>>
\* Handlers and queued packets are gone after a reset.
Reset(p) ==
  LET on == Op(p) = "rst_on" IN
  /\ Op(p) \in {"rst_on", "rst_off"}
  /\ app' = [app EXCEPT !.in_reset = on]
  /\ hw' = Latched([hw EXCEPT !.reset = on, !.pending = IF on THEN {} ELSE @])
  /\ hpu' = IF on THEN [h \in Hpus |-> [hpu[h] EXCEPT !.st = "idle", !.mem = "none"]] ELSE hpu
  /\ NextOp(p)
  /\ UNCHANGED <<drv, area, reader, page, flag, handled, fifo>>

\* Mutant: only whole double words are moved, and the last word never is.
Transferred_Doubles(count) == ((IF count > BLOCK THEN BLOCK ELSE count) \div 8) * 8

\* pspin_write: at most a block, and whole words.
Transferred(count) == ((IF count > BLOCK THEN BLOCK ELSE count) \div 4) * 4
\* fpspin_write_memory: until everything is written.  The handlers' data, with
\* the flags and the numbers of the requests, start at zero.
Section(p) ==
  LET left == proc[p].left IN
  /\ Op(p) = "section" /\ ~app.in_reset
  /\ IF left > 0
     THEN /\ proc' = [proc EXCEPT ![p].left = @ - Transferred(left)]
          /\ UNCHANGED <<flag, hpu, handled>>
     ELSE /\ NextOp(p)
          /\ flag' = [h \in Hpus |-> 0] /\ handled' = [h \in Hpus |-> 0]
          /\ hpu' = [h \in Hpus |-> [hpu[h] EXCEPT !.id = 0]]
  /\ UNCHANGED <<drv, app, area, reader, hw, page, fifo>>

\* check_her_in_conf, then host_mem_addr, ctx_enabled and the rest.
HerSet(p) ==
  /\ Op(p) = "her_set" /\ app.in_her_conf
  /\ SetHw([hw EXCEPT !.her_mem = area.mem, !.ctx_enabled = TRUE])
  /\ NextOp(p)
  /\ UNCHANGED <<drv, app, area, reader>>
check_her_en == area.enabled => hw.her_mem = area.mem
HerValid(p) ==
  LET on == Op(p) = "her_on" IN
  /\ Op(p) \in {"her_on", "her_off"}
  /\ on => check_her_en
  /\ app' = [app EXCEPT !.in_her_conf = ~on]
  /\ SetHw([hw EXCEPT !.her_valid = on])
  /\ NextOp(p)
  /\ UNCHANGED <<drv, area, reader>>
\* check_me_in_conf; fpspin_set_me_ruleset.
MeRules(p) ==
  /\ Op(p) \in {"me_rules", "me_bypass"} /\ app.in_me_conf
  /\ SetHw([hw EXCEPT !.rule = IF Op(p) = "me_rules" THEN "match" ELSE "bypass"])
  /\ NextOp(p)
  /\ UNCHANGED <<drv, app, area, reader>>
MeValid(p) ==
  LET on == Op(p) = "me_on" IN
  /\ Op(p) \in {"me_on", "me_off"}
  /\ app' = [app EXCEPT !.in_me_conf = ~on]
  /\ SetHw([hw EXCEPT !.me_valid = on])
  /\ NextOp(p)
  /\ UNCHANGED <<drv, area, reader>>

---------------------------------------------------------------------------
(* The host side of a request.                                             *)
Nm(p) ==
  /\ Op(p) = "nm" /\ NextOp(p)
  /\ UNCHANGED <<drv, app, area, reader>> /\ UNCHANGED nicVars
\* dma_idx starts at what the flags hold now.
Flags(p) ==
  /\ Op(p) = "flags"
  /\ proc' = [proc EXCEPT ![p].dma_idx = page, ![p].todo = <<"run">>]
  /\ UNCHANGED <<drv, app, area, reader>> /\ UNCHANGED nicVars
Running(p) == Op(p) = "run"

\* Mutant: the request is not marked as processed.
Processed_Never(p, h) == proc[p].dma_idx[h]

Processed(p, h) == page[h]

Unseen(p, h) == page[h] # proc[p].dma_idx[h]
fpspin_pop_req(p, h) ==
  /\ Running(p) /\ proc[p].cur[h] = -1
  /\ Unseen(p, h)
  /\ proc' = [proc EXCEPT ![p].dma_idx[h] = Processed(p, h), ![p].cur[h] = page[h]]
  /\ handled' = [handled EXCEPT ![h] = @ + 1]
  /\ UNCHANGED <<drv, app, area, reader, hw, page, flag, hpu, fifo>>
\* PSPIN_HOST_WRITE of the flag.
fpspin_push_resp(p, h) ==
  /\ Running(p) /\ proc[p].cur[h] # -1
  /\ flag' = [flag EXCEPT ![h] = proc[p].dma_idx[h]]
  /\ proc' = [proc EXCEPT ![p].cur[h] = -1]
  /\ UNCHANGED <<drv, app, area, reader, hw, page, hpu, handled, fifo>>
fpspin_exit(p) ==
  /\ Running(p)
  /\ proc' = [proc EXCEPT ![p].todo = Unload, ![p].cur = [h \in Hpus |-> -1]]
  /\ UNCHANGED <<drv, app, area, reader>> /\ UNCHANGED nicVars

---------------------------------------------------------------------------
(* The NIC.  The matching engine and the HER generator are in the          *)
(* repository; the cores and the handlers on them are external.            *)

\* While me/valid is off no packet matches.
Matched == hw.me_valid /\ hw.rule = "match"

\* A packet that matches asks for a handler with the memory of the stored
\* context, the default one; without a stored one that is enabled it waits.
\* (Between the two the packet is written to the cluster's memory: only a
\* reset, which clears both, lies between two contexts.)
Packet ==
  /\ Matched /\ hw.stored # "none" /\ ~hw.reset
  /\ hw.pending = {}
  /\ SetHw([hw EXCEPT !.pending = {hw.stored}])
  /\ UNCHANGED hostVars
HandlerStarts(h) ==
  /\ hw.fetch /\ ~hw.reset /\ hpu[h].st = "idle"
  /\ \E m \in hw.pending :
       /\ hw' = [hw EXCEPT !.pending = {}]
       /\ hpu' = [hpu EXCEPT ![h] = [st |-> "start", id |-> (@.id + 1) % DMA_IDS, mem |-> m, early |-> FALSE]]
  /\ UNCHANGED <<page, flag, handled, fifo>> /\ UNCHANGED hostVars
HandlerAsks(h) ==
  /\ hw.fetch /\ hpu[h].st = "start"
  /\ page' = [page EXCEPT ![h] = hpu[h].id]
  /\ handled' = [handled EXCEPT ![h] = 0]
  /\ hpu' = [hpu EXCEPT ![h].st = "wait", ![h].early = ~\E p \in Procs : Running(p)]
  /\ UNCHANGED <<hw, flag, fifo>> /\ UNCHANGED hostVars
HandlerEnds(h) ==
  /\ hw.fetch /\ hpu[h].st = "wait" /\ flag[h] = hpu[h].id
  /\ hpu' = [hpu EXCEPT ![h].st = "idle", ![h].mem = "none"]
  /\ UNCHANGED <<hw, page, flag, handled, fifo>> /\ UNCHANGED hostVars
\* A handler prints.
HandlerPrints ==
  /\ \E h \in Hpus : hpu[h].st # "idle"
  /\ fifo < MaxOut /\ fifo' = fifo + 1
  /\ UNCHANGED <<hw, page, flag, hpu, handled>> /\ UNCHANGED hostVars

---------------------------------------------------------------------------
Step(p) == \/ fpspin_init(p) \/ Query(p) \/ Fetch(p) \/ Reset(p) \/ Section(p) \/ HerSet(p)
           \/ HerValid(p) \/ MeRules(p) \/ MeValid(p) \/ Nm(p) \/ Flags(p) \/ Unmap(p)
Serve(p) == \E h \in Hpus : fpspin_pop_req(p, h) \/ fpspin_push_resp(p, h)
ReadStep(r) == ReadLock(r) \/ ReadLoop(r) \/ ReadOut(r)
Handler(h) == HandlerStarts(h) \/ HandlerAsks(h) \/ HandlerEnds(h)

PspinNext ==
  \/ \E f \in (ProbeSteps \intersect PspinFaults) \union {"none"} : mqnic_app_pspin_probe(f)
  \/ RemoveBegin \/ RemoveEnd
  \/ \E r \in Readers : ReadBegin(r) \/ ReadStep(r) \/ ReadSignal(r)
  \/ \E p \in Procs : Step(p) \/ Serve(p) \/ fpspin_exit(p) \/ MapFails(p) \/ InitFails(p)
  \/ Packet \/ HandlerPrints \/ \E h \in Hpus : Handler(h)

\* Running code goes on: processes that poll, readers, the removal, the cores.
PspinFairness ==
  /\ \A p \in Procs : WF_pspinVars(Op(p) # "none" /\ Step(p)) /\ WF_pspinVars(Serve(p))
  /\ \A r \in Readers : WF_pspinVars(ReadLoop(r) \/ ReadOut(r))
  /\ WF_pspinVars(RemoveEnd)
  /\ \A h \in Hpus : WF_pspinVars(Handler(h))
PspinSpec == PspinInit /\ [][PspinNext]_pspinVars /\ PspinFairness

---------------------------------------------------------------------------
\* A handler that runs writes to memory that belongs to the context: not to an
\* area that was freed, nor to the one of an earlier application.
NoStrayDma ==
  \A h \in Hpus : hpu[h].st # "idle" => area.enabled /\ area.mem = hpu[h].mem

\* The host takes each request once, and no handler goes on before its own
\* request was taken: not on an answer to an earlier one with the same number.
AnsweredOnce ==
  \A h \in Hpus : hpu[h].st = "wait" =>
    handled[h] \in {0, 1} /\ (flag[h] = hpu[h].id => handled[h] = 1)

\* A request that is made while an application polls is answered, unless the
\* application leaves or the cluster is reset.
RequestsAnswered ==
  \A h \in Hpus : (hpu[h].st = "wait" /\ ~hpu[h].early) ~> (hpu[h].st # "wait")

\* fpspin_init and fpspin_exit return: every section is written to its end and
\* no register is refused.
CallsReturn == \A p \in Procs : (Op(p) # "none") ~> (Op(p) \in {"run", "none"})

\* Neither side waits for ever.
PspinProgress == RequestsAnswered /\ CallsReturn

\* The driver is gone, and no reader is left in the device.
RemovalDone == drv.pc = "unbound" /\ drv.holder = "none"
============================================================================
