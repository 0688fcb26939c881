------------------------------ MODULE UserLib ------------------------------
(***************************************************************************)
(* The user-space library (lib/mqnic) on top of the driver's character     *)
(* device (mqnic_dev.c).  mqnic_open tries a name in nine ways, one after  *)
(* the other and on the same struct mqnic; a try that fails part way must  *)
(* leave the struct as fit for the next one as a fresh struct is.  Then    *)
(* the register blocks are walked and the interfaces are opened; one that  *)
(* fails is skipped.  mqnic_close lets go of everything.                   *)
(*                                                                         *)
(* The process is one thread.  What it holds of the system (descriptors,   *)
(* mappings, heap blocks) is kept apart from what its struct says, so that *)
(* a leak, a double release or a stale pointer shows as a difference.      *)
(***************************************************************************)
EXTENDS Integers, Sequences
LOCAL INSTANCE SequencesExt

CONSTANTS Names,        \* what each of the nine tries finds: "none", "misc" or "pcie"
          Chains,       \* register blocks by offset: <<type, next>>
          Nics,         \* [regs, app, ram]: sizes of the device's regions, 0 if absent
          NumIfs, NumPorts, NumScheds,
          MaxCount, Grow,   \* first capacity of a block list (8), and its growth (4)
          LibFaults     \* calls that may fail

ASSUME UserLibAssumption ==
  /\ \A n \in Names : n \in [1..9 -> {"none", "misc", "pcie"}]
  /\ \A n \in Nics : n.regs > 0 /\ n.app >= 0 /\ n.ram >= 0
  /\ MaxCount \in Nat \ {0} /\ Grow \in Nat \ {0}

VARIABLES
  name,     \* what the name given to mqnic_open leads to
  nic,      \* the device: its regions, its chain and whether it answers reads
  lib,      \* struct mqnic, and where the process is
  owns      \* what the process holds, and the wrong releases it made

libVars == <<name, nic, lib, owns>>

---------------------------------------------------------------------------
(* The character device. *)
Regions == <<"regs", "app", "ram">>

\* MQNIC_IOCTL_GET_REGION_INFO: a region the device does not have has size 0.
region_info(i) == [type |-> Regions[i+1], size |-> nic[Regions[i+1]], offset |-> <<i, 0>>]

\* mmap: the page offset is a region and where to start in it.
mqnic_mmap(offset, len) ==
  /\ offset[1] + 1 \in DOMAIN Regions
  /\ offset[2] + len <= nic[Regions[offset[1] + 1]]

---------------------------------------------------------------------------
(* Releases.  Releasing nothing (NULL, -1, MAP_FAILED) has no effect. *)
NULL == <<"NULL", 0>>
MAP_FAILED == <<"failed", 0>>
NoFd == <<"-1", 0>>

Munmap(p, ptr, size) ==
  IF ptr \in {NULL, MAP_FAILED} THEN p
  ELSE IF <<ptr, size>> \in p.maps THEN [p EXCEPT !.maps = @ \ {<<ptr, size>>}]
  ELSE [p EXCEPT !.wrong = @ \cup {ptr}]
CloseFd(p, fd) ==
  IF fd = NoFd THEN p
  ELSE IF fd \in p.fds THEN [p EXCEPT !.fds = @ \ {fd}]
  ELSE [p EXCEPT !.wrong = @ \cup {fd}]
Free(p, x) ==
  IF x = NULL THEN p
  ELSE IF x \in p.mem THEN [p EXCEPT !.mem = @ \ {x}]
  ELSE [p EXCEPT !.wrong = @ \cup {x}]

---------------------------------------------------------------------------
(* Register blocks. *)

\* Room in the list once it holds count blocks.
Capacity(count, cap) == IF count >= cap THEN cap + Grow ELSE cap

\* mqnic_enumerate_reg_block_list: follow the next pointers from offset until 0
\* or past the end.  A block seen before ends the walk with no list.  Each round
\* writes the terminator behind the blocks found, inside the list or not.
mqnic_enumerate_reg_block_list(chain, offset, size) ==
  LET seen(l) == {l[i] : i \in DOMAIN l}
      walk[n \in 0..size+1] ==
        IF n = 0 THEN [at |-> offset, list |-> <<>>, cap |-> MaxCount, over |-> FALSE, st |-> "go"]
        ELSE LET w == walk[n-1]
                 r == [w EXCEPT !.over = @ \/ Len(w.list) >= w.cap]
             IN IF w.st # "go" THEN w
                ELSE IF (w.at = 0 /\ w.list # <<>>) \/ w.at >= size THEN [r EXCEPT !.st = "done"]
                ELSE IF w.at \in seen(w.list) THEN [r EXCEPT !.st = "loop"]
                ELSE [r EXCEPT !.list = Append(@, w.at), !.at = chain[w.at][2],
                               !.cap = Capacity(Len(w.list) + 1, @)]
  IN walk[size+1]

BlockLists ==
  [c \in Chains, size \in {n.regs : n \in Nics} |-> mqnic_enumerate_reg_block_list(c, 0, size)]

mqnic_find_reg_block(chain, list, type) ==
  SelectSeq(list, LAMBDA o : chain[o][1] = type) # <<>>

---------------------------------------------------------------------------
(* Interfaces.  A part is <<name, interface, index>>; each is made inside  *)
(* another one, and a check makes nothing. *)
IfPart(n, i, j) == <<n, i, j>>
LibCheck == <<"check", 0, 0>>

mqnic_port_open(i, j) == <<IfPart("port", i, j), IfPart("port_rb", i, j), LibCheck>>
mqnic_sched_open(i, j) == <<IfPart("sched", i, j), LibCheck>>
mqnic_sched_block_open(i, j) ==
  <<IfPart("block", i, j), IfPart("block_rb", i, j)>> \o mqnic_sched_open(i, j)
mqnic_res_open(i, q) == <<IfPart("res", i, q)>>

\* Every queue manager's block is looked for, then its resource is made.
IfQueues(i) == FlattenSeq([q \in 1..4 |-> <<LibCheck>> \o mqnic_res_open(i, q)])
IfPorts(i) ==
  FlattenSeq([j \in 1..NumPorts |-> <<LibCheck>> \o mqnic_port_open(i, j)])
  \o FlattenSeq([j \in 1..NumScheds |-> <<LibCheck>> \o mqnic_sched_block_open(i, j)])
mqnic_if_open(i) ==
  <<IfPart("if", i, 0), LibCheck, IfPart("if_rb", i, 0), LibCheck>>
  \o IfQueues(i) \o <<LibCheck>> \o IfPorts(i)

\* The calls an interface makes, in order; the frees of closing it.
OpenParts == [i \in 1..NumIfs |-> mqnic_if_open(i)]

Inside(x) ==
  CASE x[1] = "port_rb" -> [x EXCEPT ![1] = "port"]
    [] x[1] \in {"block_rb", "sched"} -> [x EXCEPT ![1] = "block"]
    [] x[1] = "if" -> NULL
    [] OTHER -> IfPart("if", x[2], 0)

mqnic_port_close(i, j) == <<IfPart("port_rb", i, j), IfPart("port", i, j)>>
mqnic_sched_close(i, j) == <<IfPart("sched", i, j)>>
mqnic_sched_block_close(i, j) ==
  mqnic_sched_close(i, j) \o <<IfPart("block_rb", i, j), IfPart("block", i, j)>>
mqnic_res_close(i, q) == IfPart("res", i, q)

mqnic_if_close(i) ==
  FlattenSeq([j \in 1..NumScheds |-> mqnic_sched_block_close(i, j)])
  \o FlattenSeq([j \in 1..NumPorts |-> mqnic_port_close(i, j)])
  \o [q \in 1..4 |-> mqnic_res_close(i, q)] \o <<IfPart("if_rb", i, 0), IfPart("if", i, 0)>>

CloseParts == [i \in 1..NumIfs |-> mqnic_if_close(i)]

\* Parts freed a second time, or after the part that points to them.
Late(p, parts) ==
  {parts[i] : i \in {j \in DOMAIN parts :
     parts[j] \in p.mem /\ \E h \in 1..j-1 : parts[h] \in {parts[j], Inside(parts[j])}}}

\* Closes these interfaces: what was made of each is freed, in order.
FreeIfs(p, is) ==
  [p EXCEPT !.mem = @ \ UNION {Range(CloseParts[i]) : i \in is},
            !.wrong = @ \cup UNION {Late(p, CloseParts[i]) : i \in is}]

---------------------------------------------------------------------------
(* mqnic_open. *)
NewStruct ==
  [pc |-> "try", k |-> 1, fd |-> NoFd, app_fd |-> NoFd, ram_fd |-> NoFd, pci |-> FALSE,
   regs |-> NULL, app_regs |-> NULL, ram |-> NULL, size |-> [r \in {"regs", "app", "ram"} |-> 0],
   rb_list |-> NULL, ifs |-> {}]

LibInit ==
  /\ name \in Names
  /\ nic \in {[regs |-> n.regs, app |-> n.app, ram |-> n.ram, chain |-> c, alive |-> a] :
                n \in Nics, c \in Chains, a \in {"yes", "disabled", "no"}}
  /\ lib = NewStruct
  /\ owns = [fds |-> {}, maps |-> {}, mem |-> {<<"dev", 0>>}, wrong |-> {}]

CanFail(n) == n \in LibFaults
At(c) == lib.pc = c
Unmaps(l, p) ==
  Munmap(Munmap(Munmap(p, l.ram, l.size["ram"]), l.app_regs, l.size["app"]), l.regs, l.size["regs"])
CloseFds(l, p) == CloseFd(CloseFd(CloseFd(p, l.fd), l.app_fd), l.ram_fd)

\* Mutant: the pointers keep their values.
FailMaps_Stale(l) == l

FailMaps(l) == [l EXCEPT !.ram = NULL, !.app_regs = NULL, !.regs = NULL]

\* The error labels of mqnic_try_open, from the one the failure goes to down;
\* then the next try.  The block list is freed and its pointer kept.
Fail(label, l, p) ==
  LET p1 == IF label = "fail_enum" THEN Free(p, l.rb_list) ELSE p
      unmap == label \in {"fail_enum", "fail_mmap_regs"}
      p2 == IF unmap THEN Unmaps(l, p1) ELSE p1
      l2 == IF unmap THEN FailMaps(l) ELSE l
  IN /\ owns' = CloseFds(l2, p2)
     /\ lib' = [l2 EXCEPT !.fd = NoFd, !.app_fd = NoFd, !.ram_fd = NoFd, !.pc = "try", !.k = @ + 1]

\* A path that is absent, not writable or a directory; or open fails.
TryNext ==
  /\ At("try") /\ lib.k <= 9
  /\ IF name[lib.k] = "none" THEN TRUE ELSE CanFail("open")
  /\ lib' = [lib EXCEPT !.k = @ + 1, !.pci = FALSE]
  /\ UNCHANGED <<name, nic, owns>>

\* The PCIe device behind the path may not be found; that is no error.
TryOpen ==
  /\ At("try") /\ lib.k <= 9 /\ name[lib.k] # "none"
  /\ \E found \in {TRUE} \cup (IF CanFail("realpath") THEN {FALSE} ELSE {}) :
       LET fd == <<"fd", lib.k>> IN
       /\ lib' = [lib EXCEPT !.fd = fd, !.pci = found, !.pc = "fstat"]
       /\ owns' = [owns EXCEPT !.fds = @ \cup {fd}]
  /\ UNCHANGED <<name, nic>>

\* fstat: a character device has size 0.
Fstat ==
  /\ At("fstat")
  /\ \/ /\ lib' = [lib EXCEPT !.size["regs"] = IF name[lib.k] = "misc" THEN 0 ELSE nic.regs,
                              !.pc = IF name[lib.k] = "misc" THEN "info" ELSE "map_regs"]
        /\ UNCHANGED owns
     \/ CanFail("fstat") /\ Fail("fail_fstat", lib, owns)
  /\ UNCHANGED <<name, nic>>

\* The ioctls: a failure leaves the sizes of the regions asked for so far.
RegionInfo ==
  /\ At("info")
  /\ \E n \in {3} \cup (IF CanFail("ioctl") THEN 0..2 ELSE {}) :
       LET l == [lib EXCEPT !.size = [r \in DOMAIN @ |->
                   IF \E i \in 0..n-1 : region_info(i).type = r
                   THEN region_info(CHOOSE i \in 0..n-1 : region_info(i).type = r).size ELSE @[r]]] IN
       IF n = 3 THEN lib' = [l EXCEPT !.pc = "map_regs"] /\ UNCHANGED owns
       ELSE Fail("fail_ioctl", l, owns)
  /\ UNCHANGED <<name, nic>>

Field(r) == IF r = "app" THEN "app_regs" ELSE r
FdField(r) == IF r = "app" THEN "app_fd" ELSE "ram_fd"
After(r) ==
  IF r = "regs" THEN (IF name[lib.k] = "misc" \/ lib.pci THEN "map_app" ELSE "alive")
  ELSE IF r = "app" THEN "map_ram"
  ELSE IF name[lib.k] = "misc" THEN "alive" ELSE "enable"

\* mmap of the region r into the struct, with l the struct before.
Map(r, l, p) ==
  LET i == CHOOSE j \in 1..3 : Regions[j] = r
      ok == l.size[r] > 0 /\ (name[l.k] = "misc" => mqnic_mmap(region_info(i-1).offset, l.size[r]))
      ptr == <<r, l.k>>
  IN \/ /\ ok
        /\ lib' = [l EXCEPT ![Field(r)] = ptr, !.pc = After(r)]
        /\ owns' = [p EXCEPT !.maps = @ \cup {<<ptr, l.size[r]>>}]
     \/ /\ IF ok THEN CanFail("mmap") ELSE TRUE
        /\ Fail("fail_mmap_regs", [l EXCEPT ![Field(r)] = MAP_FAILED], p)

MapRegs == At("map_regs") /\ Map("regs", lib, owns) /\ UNCHANGED <<name, nic>>

\* The other two regions of the character device, if they have a size.
MapMisc(r) ==
  /\ At("map_" \o r) /\ name[lib.k] = "misc"
  /\ IF lib.size[r] = 0 THEN lib' = [lib EXCEPT !.pc = After(r)] /\ UNCHANGED owns
     ELSE Map(r, lib, owns)
  /\ UNCHANGED <<name, nic>>

\* The other two resources of a PCIe device, each with a file of its own.
MapPcie(r) ==
  LET fd == <<r, lib.k>>  f == FdField(r)
      opened == [lib EXCEPT ![f] = fd]  held == [owns EXCEPT !.fds = @ \cup {fd}] IN
  /\ At("map_" \o r) /\ name[lib.k] = "pcie"
  /\ \/ /\ IF nic[r] = 0 THEN TRUE ELSE CanFail("open")
        /\ lib' = [lib EXCEPT ![f] = NoFd, !.pc = After(r)] /\ UNCHANGED owns
     \/ nic[r] > 0 /\ CanFail("fstat") /\ Fail("fail_fstat", opened, held)
     \/ nic[r] > 0 /\ Map(r, [opened EXCEPT !.size[r] = nic[r]], held)
  /\ UNCHANGED <<name, nic>>

\* A PCIe device that reads as all ones is enabled through sysfs.
Enable ==
  /\ At("enable")
  /\ nic' = IF nic.alive = "disabled" THEN [nic EXCEPT !.alive = "yes"] ELSE nic
  /\ lib' = [lib EXCEPT !.pc = "alive"]
  /\ UNCHANGED <<name, owns>>

Alive ==
  /\ At("alive")
  /\ IF nic.alive = "yes" THEN lib' = [lib EXCEPT !.pc = "enum"] /\ UNCHANGED owns
     ELSE Fail("fail_mmap_regs", lib, owns)
  /\ UNCHANGED <<name, nic>>

Enumerate ==
  LET w == BlockLists[nic.chain, nic.regs]
      ptr == <<"rb_list", lib.k>>
      got == [lib EXCEPT !.rb_list = ptr]
      held == [owns EXCEPT !.mem = @ \cup {ptr}, !.wrong = @ \cup (IF w.over THEN {ptr} ELSE {})]
  IN /\ At("enum")
     /\ \/ /\ IF w.st = "loop" THEN TRUE ELSE CanFail("calloc")
           /\ Fail("fail_enum", [lib EXCEPT !.rb_list = NULL], owns)
        \/ /\ w.st # "loop"
           /\ IF mqnic_find_reg_block(nic.chain, w.list, "fw_id")
              THEN lib' = [got EXCEPT !.pc = "ids"] /\ owns' = held
              ELSE Fail("fail_enum", got, held)
     /\ UNCHANGED <<name, nic>>

\* The label open: identity, application, statistics, clocks, PTP clock; with
\* no interface block there are no interfaces.
ReadIds ==
  /\ At("ids")
  /\ LET w == BlockLists[nic.chain, nic.regs] IN
     lib' = [lib EXCEPT !.pc = IF mqnic_find_reg_block(nic.chain, w.list, "if") THEN "ifs" ELSE "open",
                        !.k = 1]
  /\ UNCHANGED <<name, nic, owns>>

\* Interface k, which is skipped when one of its parts fails.
OpenIf ==
  LET parts == OpenParts[lib.k]
      made(n) == {parts[i] : i \in 1..n} \ {LibCheck}
      has(n) == [owns EXCEPT !.mem = @ \cup made(n)] IN
  /\ At("ifs") /\ lib.k <= NumIfs
  /\ \/ owns' = has(Len(parts)) /\ lib' = [lib EXCEPT !.ifs = @ \cup {lib.k}, !.k = @ + 1]
     \/ /\ CanFail("if")
        /\ \E n \in 0..Len(parts)-1 :
             /\ owns' = FreeIfs(has(n), {lib.k})
             /\ lib' = [lib EXCEPT !.k = @ + 1]
  /\ UNCHANGED <<name, nic>>

Opened ==
  /\ At("ifs") /\ lib.k > NumIfs
  /\ lib' = [lib EXCEPT !.pc = "open"] /\ UNCHANGED <<name, nic, owns>>

\* fail_open: mqnic_open returns NULL.
OpenFailed ==
  /\ At("try") /\ lib.k > 9
  /\ owns' = Free(owns, <<"dev", 0>>) /\ lib' = [lib EXCEPT !.pc = "end"]
  /\ UNCHANGED <<name, nic>>

mqnic_close ==
  /\ At("open")
  /\ LET p1 == FreeIfs(owns, lib.ifs)
         p2 == CloseFds(lib, Unmaps(lib, Free(p1, lib.rb_list)))
     IN owns' = Free(p2, <<"dev", 0>>)
  /\ lib' = [lib EXCEPT !.pc = "end"]
  /\ UNCHANGED <<name, nic>>

LibProcess ==
  \/ TryNext \/ TryOpen \/ Fstat \/ RegionInfo \/ MapRegs
  \/ \E r \in {"app", "ram"} : MapMisc(r) \/ MapPcie(r)
  \/ Enable \/ Alive \/ Enumerate \/ ReadIds \/ OpenIf \/ Opened \/ OpenFailed \/ mqnic_close

LibSpec == LibInit /\ [][LibProcess]_libVars /\ WF_libVars(LibProcess)
---------------------------------------------------------------------------
\* What an open struct points to is there: the registers are mapped in full,
\* each other region is mapped in full or its pointer is NULL, the block list
\* is allocated, and so is all of every interface that was not skipped.
OpenSound ==
  lib.pc = "open" =>
    /\ lib.fd \in owns.fds /\ <<lib.regs, nic.regs>> \in owns.maps /\ lib.rb_list \in owns.mem
    /\ lib.app_regs # NULL => <<lib.app_regs, nic.app>> \in owns.maps
    /\ lib.ram # NULL => <<lib.ram, nic.ram>> \in owns.maps
    /\ \A i \in lib.ifs : \A x \in Range(OpenParts[i]) \ {LibCheck} : x \in owns.mem

\* However many tries failed, and wherever, an opened device is sound; after
\* mqnic_close, and after a mqnic_open that returns NULL, the process holds no
\* descriptor, mapping or memory of it; nothing was released that was not held,
\* no block list was written past its end.
LibraryHoldsWhatItSays ==
  /\ OpenSound
  /\ lib.pc = "end" => owns.fds = {} /\ owns.maps = {} /\ owns.mem = {}
  /\ owns.wrong = {}

\* mqnic_open, and mqnic_close if a device was opened, have returned.
LibraryReturned == lib.pc = "end"
============================================================================
