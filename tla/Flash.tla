------------------------------- MODULE Flash -------------------------------
(***************************************************************************)
(* The firmware tool (mqnic-fw.c) with its flash drivers (flash.c,         *)
(* flash_spi.c, flash_bpi.c): one SPI flash, two of them that each hold    *)
(* half of every byte, or a parallel (BPI) flash of three command sets.    *)
(* The tool erases, writes and verifies, or reads one segment, then resets *)
(* the device or reloads the FPGA from flash.  It is one thread; a chip    *)
(* works on its own, may fail, and the tool may be killed and run again.   *)
(*                                                                         *)
(* Addresses are scaled down: PAGE < SUBSECTOR < SECTOR keep their order.  *)
(* A nibble of flash is the set of what was programmed into it since it    *)
(* was erased: programming can only clear bits, so two values programmed   *)
(* one over the other leave neither.                                       *)
(***************************************************************************)
EXTENDS Integers, Sequences, FiniteSets

CONSTANTS SIZE,                       \* bytes of flash
          PAGE, SUBSECTOR, SECTOR,    \* SPI: 0x100, 0x1000, 0x10000
          STEP,                       \* bytes per progress step: 0x10000
          WBUF,                       \* BPI: write buffer
          REGION0, BLOCK0, BLOCK1,    \* BPI: end of the first erase region, block sizes
          OFFSET,                     \* dual: bytes before the interleaved part, 0x68
          RESYNC,                     \* dual: first byte after the second sync word, 0x74
          Setups,                     \* [kind, ops, config, seg0, dflt] of the builds considered
          Options,                    \* [slot, erase, write, read, boot, reset] of the tool
          Lens, MaxDualLen,           \* lengths of the image; the longest for two chips
          MaxFaults, MaxKills         \* failures of a chip, kills of the tool

ASSUME FlashAssumption ==
  /\ \A n \in {SIZE, PAGE, SUBSECTOR, SECTOR, STEP, WBUF, BLOCK0, BLOCK1, OFFSET} : n \in Nat \ {0}
  /\ SECTOR % SUBSECTOR = 0 /\ SUBSECTOR % PAGE = 0 /\ REGION0 % BLOCK1 = 0 /\ BLOCK1 % BLOCK0 = 0
  /\ RESYNC \in Nat /\ OFFSET < RESYNC /\ REGION0 \in Nat /\ Lens \subseteq Nat
  /\ MaxFaults \in Nat /\ MaxKills \in Nat /\ \A o \in Options : o.slot \in Int
  /\ \A u \in Setups : /\ u.seg0 \in Nat /\ u.dflt \in Nat /\ u.kind \in {"spi", "dual", "bpi"}
                      /\ u.ops \in IF u.kind = "bpi" THEN {"intel", "amd", "micron"} ELSE {"none"}

VARIABLES
  set,      \* the build: its flash and segments
  opt,      \* options of the tool
  file,     \* the image: [type, ok, sync, len]
  t,        \* the tool: where it is
  chip,     \* [mem, mode, locked, busy, err] of each chip
  got,      \* file the tool has read from flash
  host,     \* [dev, fatal, driver, present, fpga]: the PCIe side
  faults, kills

flashVars == <<set, opt, file, t, chip, got, host, faults, kills>>

---------------------------------------------------------------------------
(* Bytes and images.                                                       *)
Erased == <<{}, {}>>
FileByte(k) == <<{2*k + 1}, {2*k + 2}>>
OldByte == <<{0}, {0}>>

reverse_bits_8(b) == <<{-x : x \in b[2]}, {-x : x \in b[1]}>>
\* reverse_bits_16 on the words of a buffer: the bytes of a word change places too.
Reversed(buf) == [k \in DOMAIN buf |-> reverse_bits_8(buf[IF k % 2 = 0 THEN k + 1 ELSE k - 1])]
Bitswap(buf) == IF set.kind = "bpi" THEN Reversed(buf) ELSE buf

\* The image padded to the segment, then the halves two chips hold.
Image(n) == [k \in 0..n-1 |-> IF k < file.len THEN FileByte(k) ELSE Erased]
Interleaved(n) == {k \in OFFSET..n-OFFSET-1 : (k - OFFSET) % 2 = 0}
PriBuf(n) ==
  LET s == Image(n) IN
  [i \in 0..(n \div 2)-1 |->
     IF i < OFFSET THEN s[i]
     ELSE LET k == OFFSET + 2*(i - OFFSET) IN
          IF k \in Interleaved(n) THEN <<s[k][2], s[k+1][2]>> ELSE Erased]
SecBuf(n) ==
  LET s == Image(n) IN
  [i \in 0..(n \div 2)-1 |->
     IF i < OFFSET THEN Erased
     ELSE LET k == OFFSET + 2*(i - OFFSET) IN
          IF k \in Interleaved(n) THEN <<s[k][1], s[k+1][1]>> ELSE Erased]
\* The inverse, on reading.
Merged(n, c1, c2) ==
  [k \in 0..n-1 |->
     IF k < OFFSET THEN c1[k]
     ELSE IF k >= n - OFFSET THEN Erased
     ELSE LET i == OFFSET + (k - OFFSET) \div 2  j == IF (k - OFFSET) % 2 = 0 THEN 1 ELSE 2 IN
          <<c2[i][j], c1[i][j]>>]

---------------------------------------------------------------------------
(* Flash drivers.                                                          *)
Chips == IF set.kind = "dual" THEN 1..2 ELSE 1..1
ChipSize == SIZE \div Cardinality(Chips)
erase_block_size == IF set.kind = "bpi" THEN BLOCK1 ELSE SUBSECTOR
Max2(a, b) == IF a > b THEN a ELSE b
Least(a, b) == IF a < b THEN a ELSE b

\* Mutant: a sector is erased whenever the address is aligned.
spi_block_Aligned(a, n) ==
  IF a % SECTOR = 0 THEN SECTOR ELSE IF a % SUBSECTOR = 0 /\ n >= SUBSECTOR THEN SUBSECTOR ELSE 0

\* Block an erase at this address takes; 0 if there is none.
spi_block(a, n) ==
  IF a % SECTOR = 0 /\ n >= SECTOR THEN SECTOR
  ELSE IF a % SUBSECTOR = 0 /\ n >= SUBSECTOR THEN SUBSECTOR ELSE 0
bpi_block(a, n) ==
  LET b == IF a < REGION0 THEN BLOCK0 ELSE IF a < SIZE THEN BLOCK1 ELSE 0 IN
  IF b = 0 \/ a % b # 0 \/ n < b THEN 0 ELSE b
EraseBlock(a, n) == IF set.kind = "bpi" THEN bpi_block(a, n) ELSE spi_block(a, n)

\* Bytes one program command takes: up to the end of a page or write buffer.
ProgramLen(a, n) ==
  LET p == IF set.kind = "bpi" THEN WBUF ELSE PAGE IN Least(n, p - (a % p))

\* Effect of a command on the cells.  A program that runs past its page wraps.
ErasedAt(ch, a, n) == [ch EXCEPT !.mem = [x \in DOMAIN @ |-> IF x \in a..a+n-1 THEN Erased ELSE @[x]]]
ProgramAt(ch, a, n, buf, base) ==
  LET p == IF set.kind = "bpi" THEN WBUF ELSE PAGE
      at(i) == (a - (a % p)) + ((a + i) % p) IN
  [ch EXCEPT !.mem = [x \in DOMAIN @ |->
     LET w == {i \in 0..n-1 : at(i) = x} IN
     <<@[x][1] \union UNION {buf[a - base + i][1] : i \in w},
       @[x][2] \union UNION {buf[a - base + i][2] : i \in w}>>]]

BlockOf(a) == IF a < REGION0 THEN a - (a % BLOCK0) ELSE a - (a % BLOCK1)
Unlock(ch, a) == [ch EXCEPT !.locked = @ \ {BlockOf(a)}]
Status(ch, ok) == [ch EXCEPT !.err = ~ok]

spi_flash_erase(ch, a, n, ok) == IF ok THEN ErasedAt(ch, a, n) ELSE ch
spi_flash_write(ch, a, n, buf, base, ok) == IF ok THEN ProgramAt(ch, a, n, buf, base) ELSE ch

\* A block is locked after power-up; an erase unlocks it.  The chip stays in
\* status mode until told to read.
bpi_flash_intel_sector_erase(ch, a, n, ok) ==
  [Status(IF ok THEN ErasedAt(Unlock(ch, a), a, n) ELSE Unlock(ch, a), ok) EXCEPT !.mode = "status"]
bpi_flash_intel_buffered_program(ch, a, n, buf, base, ok) ==
  LET can == ok /\ BlockOf(a) \notin ch.locked IN
  [Status(IF can THEN ProgramAt(ch, a, n, buf, base) ELSE ch, can) EXCEPT !.mode = "status"]

\* No locks; after an error the write buffer is reset.
bpi_flash_amd_sector_erase(ch, a, n, ok) == Status(IF ok THEN ErasedAt(ch, a, n) ELSE ch, ok)
bpi_flash_amd_buffered_program(ch, a, n, buf, base, ok) ==
  Status(IF ok THEN ProgramAt(ch, a, n, buf, base) ELSE ch, ok)

\* As Intel's, but back in array mode after each operation.
bpi_flash_micron_sector_erase(ch, a, n, ok) ==
  Status(IF ok THEN ErasedAt(Unlock(ch, a), a, n) ELSE Unlock(ch, a), ok)
bpi_flash_micron_buffered_program(ch, a, n, buf, base, ok) ==
  LET can == ok /\ BlockOf(a) \notin ch.locked IN
  Status(IF can THEN ProgramAt(ch, a, n, buf, base) ELSE ch, can)

SectorErase(ch, a, n, ok) ==
  CASE set.kind # "bpi" -> spi_flash_erase(ch, a, n, ok)
    [] set.ops = "intel" -> bpi_flash_intel_sector_erase(ch, a, n, ok)
    [] set.ops = "amd" -> bpi_flash_amd_sector_erase(ch, a, n, ok)
    [] set.ops = "micron" -> bpi_flash_micron_sector_erase(ch, a, n, ok)
Program(ch, a, n, buf, base, ok) ==
  CASE set.kind # "bpi" -> spi_flash_write(ch, a, n, buf, base, ok)
    [] set.ops = "intel" -> bpi_flash_intel_buffered_program(ch, a, n, buf, base, ok)
    [] set.ops = "amd" -> bpi_flash_amd_buffered_program(ch, a, n, buf, base, ok)
    [] set.ops = "micron" -> bpi_flash_micron_buffered_program(ch, a, n, buf, base, ok)

\* bpi_flash_deselect, at the end of every operation.
Deselect(ch) == [ch EXCEPT !.mode = IF @ = "status" THEN "array" ELSE @]

\* Chips are asked what they are.  An SPI flash is reset first; a parallel flash
\* that does not answer may be in synchronous read or write buffer abort mode
\* and is taken out of either.
spi_flash_init(ch) == [ch EXCEPT !.mode = "array"]
bpi_flash_init(ch) ==
  LET q1 == IF ch.mode = "sync" THEN "array" ELSE ch.mode
      q2 == IF q1 = "abort" THEN "array" ELSE q1 IN Deselect([ch EXCEPT !.mode = q2])

\* flash_open_spi, flash_open_bpi.
FlashOpen(ch) == IF set.kind = "bpi" THEN bpi_flash_init(ch) ELSE spi_flash_init(ch)

\* What a read returns: a busy chip answers with its status, and a parallel
\* flash is told to read its array first.
Noise == <<{-1, 0}, {-1, 0}>>
spi_flash_read(ch, a) == IF ch.busy THEN Noise ELSE ch.mem[a]
bpi_flash_read(ch, a) == IF ch.busy \/ ch.mode \notin {"array", "status"} THEN Noise ELSE ch.mem[a]
FlashRead(ch, a) == IF set.kind = "bpi" THEN bpi_flash_read(ch, a) ELSE spi_flash_read(ch, a)

---------------------------------------------------------------------------
(* The tool.                                                               *)
\* Segments of a flash configuration; none if it is not known.
Even(n) == [k \in 1..n |-> [start |-> (k-1) * (SIZE \div n), len |-> SIZE \div n]]
Segments(u) ==
  CASE u.config \in {0, 1} -> Even(1)
    [] u.config = 2 /\ u.seg0 <= SIZE ->
         LET n == IF u.seg0 = 0 THEN SIZE \div 2 ELSE u.seg0 IN
         <<[start |-> 0, len |-> n], [start |-> n, len |-> SIZE - n]>>
    [] u.config \in {4, 8} -> Even(u.config)
    [] OTHER -> <<>>

NoSeg == [start |-> 0, len |-> 0]
FwStart == [pc |-> "open", then |-> "open", jobs |-> <<>>, sub |-> "issue", tries |-> 0, ret |-> 0,
          seg |-> NoSeg, done |-> FALSE]
FlashInit ==
  /\ set \in Setups /\ opt \in Options
  /\ file \in [type : {"bin", "bit"}, ok : {TRUE}, sync : {TRUE}, len : Lens]
              \union [type : {"bin", "bit", "hex"}, ok : BOOLEAN, sync : {FALSE}, len : {RESYNC}]
  /\ opt.write \/ file.sync
  /\ set.kind = "dual" => file.len <= MaxDualLen
  /\ t = FwStart
  /\ \E mode \in {"array"} \union (CASE set.ops = "intel" -> {"sync"} [] set.ops = "amd" -> {"abort"}
                                    [] OTHER -> {}) :
       chip = [c \in Chips |-> [mem |-> [a \in 0..ChipSize-1 |-> OldByte], mode |-> mode,
                               locked |-> {BlockOf(a) : a \in 0..SIZE-1}, busy |-> FALSE, err |-> FALSE]]
  /\ got = <<>>
  /\ host = [dev |-> "file", fatal |-> "on", driver |-> "bound", present |-> TRUE, fpga |-> "up"]
  /\ faults = 0 /\ kills = 0

Fault(bad) == faults + (IF bad THEN 1 ELSE 0) <= MaxFaults /\ faults' = faults + (IF bad THEN 1 ELSE 0)
Goto(pc) == t' = [t EXCEPT !.pc = pc]
Quit(ret) == t' = [t EXCEPT !.pc = "end", !.ret = ret]

\* Flash found and initialised: a chip left in another mode is brought back
\* (bpi_flash_init), also if the configuration then turns out not to be known.
\* With -e alone the slot is not checked, and a slot that does not exist reads
\* segment bounds nobody set.
Open(found) ==
  LET segs == Segments(set)
      slot == IF opt.slot < 0 THEN set.dflt ELSE opt.slot IN
  /\ t.pc = "open"
  /\ Fault(~found)
  /\ chip' = IF found THEN [c \in Chips |-> FlashOpen(chip[c])] ELSE chip
  /\ IF ~found \/ segs = <<>> THEN t' = [t EXCEPT !.pc = "skip", !.ret = -1]
     ELSE IF slot < Len(segs) THEN t' = [t EXCEPT !.pc = "erase", !.seg = segs[slot + 1]]
     ELSE IF opt.read \/ opt.write THEN Quit(-1)
     ELSE \E a \in 0..(SIZE \div SUBSECTOR)-1 :
            t' = [t EXCEPT !.pc = "erase", !.seg = [start |-> a * SUBSECTOR, len |-> SUBSECTOR]]
  /\ UNCHANGED <<set, opt, file, got, host, kills>>

\* Work for the progress functions.  cur and left run over the step under way.
Job(op, c, a, n) == [op |-> op, c |-> c, base |-> a, addr |-> a, remain |-> n, cur |-> a, left |-> 0]
PerChip(op, a, n) ==
  IF set.kind = "dual" THEN <<Job(op, 1, a, n), Job(op, 2, a, n)>> ELSE <<Job(op, 1, a, n)>>
Half(n) == IF set.kind = "dual" THEN n \div 2 ELSE n

SkipStage ==
  /\ \/ t.pc = "erase" /\ ~opt.erase /\ Goto("write")
     \/ t.pc = "write" /\ ~opt.write /\ Goto("read")
     \/ t.pc = "read" /\ ~opt.read /\ Goto("skip")
  /\ UNCHANGED <<set, opt, file, chip, got, host, faults, kills>>

Erase(yes) ==
  /\ t.pc = "erase" /\ opt.erase
  /\ IF yes THEN t' = [t EXCEPT !.pc = "job", !.then = "write",
                               !.jobs = PerChip("erase", Half(t.seg.start), Half(t.seg.len))]
     ELSE Quit(0)
  /\ UNCHANGED <<set, opt, file, chip, got, host, faults, kills>>

\* The length is rounded up to the end of an erase block.
RoundUp(a, n) ==
  LET over == (a + n) % erase_block_size IN IF over = 0 THEN n ELSE n + erase_block_size - over

\* Bytes of each chip the image takes.
WriteLen ==
  IF set.kind = "dual"
  THEN RoundUp(t.seg.start \div 2, Least((file.len - OFFSET) \div 2 + OFFSET, t.seg.len \div 2))
  ELSE RoundUp(t.seg.start, file.len)

\* file_type_from_ext: hex files are known and not supported.
KnownType == file.type # "hex"
\* bitfile_create_from_file: whether it opens, is read and parsed, is for this part.
Parsed == file.ok

\* A file that can be used is not longer than the segment, and a dual one has
\* its sync words where they must be.
FileUsable ==
  /\ KnownType /\ Parsed
  /\ file.len <= t.seg.len
  /\ file.sync

Write(yes) ==
  /\ t.pc = "write" /\ opt.write
  /\ IF ~FileUsable THEN yes /\ Quit(-1)
     ELSE IF ~yes THEN Quit(0)
     ELSE t' = [t EXCEPT !.pc = "job", !.then = "written",
                         !.jobs = PerChip("erase", Half(t.seg.start), WriteLen)
                                    \o PerChip("write", Half(t.seg.start), WriteLen)]
  /\ UNCHANGED <<set, opt, file, chip, got, host, faults, kills>>

\* "Programming succeeded!"
Written ==
  /\ t.pc = "written"
  /\ t' = [t EXCEPT !.pc = "read", !.done = TRUE]
  /\ UNCHANGED <<set, opt, file, chip, got, host, faults, kills>>

Buffer(c) ==
  IF set.kind = "dual" THEN IF c = 1 THEN PriBuf(t.seg.len) ELSE SecBuf(t.seg.len)
  ELSE Bitswap(Image(t.seg.len))

---------------------------------------------------------------------------
(* flash_erase_progress, flash_write_verify_progress: steps that end on    *)
(* multiples of the step; each is one call of the driver.                  *)
J == t.jobs[1]
WithJob(j) == [t EXCEPT !.jobs = <<j>> \o Tail(@)]
StepSize == Max2(STEP, IF J.op = "erase" THEN erase_block_size ELSE IF set.kind = "bpi" THEN WBUF ELSE PAGE)
SegLen(a, n, step) ==
  IF n > step THEN IF (a + step) % step # 0 THEN step - ((a + step) % step) ELSE step ELSE n
SegOf(j) == (j.cur - j.addr) + j.left

\* The next step of a job or the next job ...
NextSeg ==
  /\ t.pc = "job" /\ t.jobs # <<>> /\ J.left = 0 /\ t.sub = "issue"
  /\ t' = IF J.remain = 0 THEN [t EXCEPT !.jobs = Tail(@)]
          ELSE WithJob([J EXCEPT !.cur = J.addr, !.left = SegLen(J.addr, J.remain, StepSize)])
  /\ UNCHANGED <<set, opt, file, chip, got, host, faults, kills>>
\* ... and, after the last, the next stage.
NextStage ==
  /\ t.pc = "job" /\ t.jobs = <<>>
  /\ Goto(t.then)
  /\ UNCHANGED <<set, opt, file, chip, got, host, faults, kills>>

Command(ch) == chip' = [chip EXCEPT ![J.c] = IF @.busy THEN @ ELSE [ch EXCEPT !.busy = TRUE]]
Issue == t.pc = "job" /\ t.jobs # <<>> /\ J.left > 0 /\ t.sub = "issue"
JobFails == chip' = [chip EXCEPT ![J.c] = Deselect(@)] /\ Quit(-1)

IssueErase(ok) ==
  LET b == EraseBlock(J.cur, J.left) IN
  /\ Issue /\ J.op = "erase"
  /\ Fault(~ok)
  /\ IF b = 0 THEN ok /\ JobFails
     ELSE Command(SectorErase(chip[J.c], J.cur, b, ok)) /\ t' = [t EXCEPT !.sub = "wait"]
  /\ UNCHANGED <<set, opt, file, got, host, kills>>

IssueProgram(ok) ==
  LET n == ProgramLen(J.cur, J.left) IN
  /\ Issue /\ J.op = "write"
  /\ Fault(~ok)
  /\ Command(Program(chip[J.c], J.cur, n, Buffer(J.c), J.base, ok))
  /\ t' = [t EXCEPT !.sub = "wait"]
  /\ UNCHANGED <<set, opt, file, got, host, kills>>

\* SPI: the write enable latch is checked before each command.
NotEnabled ==
  /\ Issue /\ set.kind # "bpi" /\ J.op # "read" /\ Fault(TRUE)
  /\ JobFails
  /\ UNCHANGED <<set, opt, file, got, host, kills>>

\* The chip, on its own.
ChipDone(c) ==
  /\ chip[c].busy
  /\ chip' = [chip EXCEPT ![c].busy = FALSE]
  /\ UNCHANGED <<set, opt, file, t, got, host, faults, kills>>

\* Status polled until the operation is over.
Ready(c) == ~chip[c].busy

\* The operation is over: an error of a parallel flash ends the tool, one of an
\* SPI flash is not seen.
Wait ==
  LET n == IF J.op = "erase" THEN EraseBlock(J.cur, J.left) ELSE ProgramLen(J.cur, J.left)
      j == [J EXCEPT !.cur = @ + n, !.left = @ - n] IN
  /\ t.pc = "job" /\ t.sub = "wait" /\ Ready(J.c)
  /\ IF chip[J.c].err THEN JobFails
     ELSE IF j.left > 0 THEN t' = [WithJob(j) EXCEPT !.sub = "issue"] /\ UNCHANGED chip
     ELSE /\ chip' = [chip EXCEPT ![J.c] = Deselect(@)]
          /\ t' = IF J.op = "erase"
                  THEN [WithJob([j EXCEPT !.addr = j.cur, !.remain = @ - SegOf(J)]) EXCEPT !.sub = "issue"]
                  ELSE [WithJob(j) EXCEPT !.sub = "verify", !.tries = 3]
  /\ UNCHANGED <<set, opt, file, got, host, faults, kills>>

\* Mutant: only the first page is compared.
Matches_First(j) ==
  FlashRead(chip[j.c], j.addr) = Buffer(j.c)[j.addr - j.base]

\* What was written reads back.
Matches(j) ==
  \A a \in j.addr..j.cur-1 : FlashRead(chip[j.c], a) = Buffer(j.c)[a - j.base]

\* Four reads; only the last decides.
Verify(flaky) ==
  /\ t.pc = "job" /\ t.sub = "verify"
  /\ Fault(flaky)
  /\ IF t.tries > 0 THEN t' = [t EXCEPT !.tries = @ - 1] /\ UNCHANGED chip
     ELSE IF flaky \/ ~Matches(J) THEN JobFails
     ELSE /\ t' = [WithJob([J EXCEPT !.addr = J.cur, !.remain = @ - SegOf(J)]) EXCEPT !.sub = "issue"]
          /\ UNCHANGED chip
  /\ UNCHANGED <<set, opt, file, got, host, kills>>

\* flash_read_progress over the segment, merged or swapped back.
Contents(c) == [k \in 0..Half(t.seg.len)-1 |-> FlashRead(chip[c], Half(t.seg.start) + k)]
ReadBack == IF set.kind = "dual" THEN Merged(t.seg.len, Contents(1), Contents(2)) ELSE Bitswap(Contents(1))
ReadSegment ==
  /\ t.pc = "read" /\ opt.read
  /\ got' = <<ReadBack>>
  /\ Goto("skip")
  /\ UNCHANGED <<set, opt, file, chip, host, faults, kills>>

\* skip_flash: a failure matters only if flash was to be read or written.
SkipFlash ==
  /\ t.pc = "skip"
  /\ IF t.ret # 0 /\ (opt.read \/ opt.write) THEN Goto("end")
     ELSE t' = [t EXCEPT !.pc = IF opt.boot \/ opt.reset THEN "reset" ELSE "end", !.ret = 0]
  /\ UNCHANGED <<set, opt, file, chip, got, host, faults, kills>>

---------------------------------------------------------------------------
(* Reset and reload.                                                       *)

\* Mutant: fatal errors of the port stay enabled.
Prepared_Fatal(missed) ==
  [host EXCEPT !.dev = "none", !.driver = IF "driver" \in missed THEN "missed" ELSE "unbound"]

\* Fatal errors of the port off, the device closed, the driver unbound.  Whether
\* the first and the last of these had an effect is not looked at.
Prepared(missed) ==
  [host EXCEPT !.fatal = IF "fatal" \in missed THEN "missed" ELSE "off", !.dev = "none",
               !.driver = IF "driver" \in missed THEN "missed" ELSE "unbound"]

Prepare(yes) ==
  /\ t.pc = "reset"
  /\ IF yes THEN /\ Goto(IF opt.boot THEN "boot" ELSE "remove")
                 /\ \E missed \in SUBSET {"fatal", "driver"} : Fault(missed # {}) /\ host' = Prepared(missed)
     ELSE Goto("end") /\ UNCHANGED <<host, faults>>
  /\ UNCHANGED <<set, opt, file, chip, got, kills>>

\* The device is opened again, directly, ...
Boot(opened) ==
  /\ t.pc = "boot" /\ Fault(~opened)
  /\ IF opened THEN host' = [host EXCEPT !.dev = "direct"] /\ Goto("iprog")
     ELSE Quit(-1) /\ UNCHANGED host
  /\ UNCHANGED <<set, opt, file, chip, got, kills>>

\* ... to trigger the reload with this handle.  The register block of the flash,
\* which is written first, belongs to the list that was freed with the first
\* handle: the tool may crash here, which closes its handle.
Iprog(alive) ==
  /\ t.pc = "iprog" /\ Fault(~alive)
  /\ IF alive THEN host' = [host EXCEPT !.fpga = "loading"] /\ Goto("close")
     ELSE Quit(-1) /\ host' = [host EXCEPT !.dev = "none"]
  /\ UNCHANGED <<set, opt, file, chip, got, kills>>
Disconnect ==
  /\ t.pc = "close"
  /\ host' = [host EXCEPT !.dev = "none"]
  /\ Goto("remove")
  /\ UNCHANGED <<set, opt, file, chip, got, faults, kills>>

\* A file of the PCIe port is written, which may fail.
write_1_to_file(ok) == Fault(~ok)

Remove(ok) ==
  /\ t.pc = "remove" /\ write_1_to_file(ok)
  /\ IF ok THEN host' = [host EXCEPT !.present = FALSE] /\ t' = [t EXCEPT !.pc = "rescan", !.tries = 5]
     ELSE Quit(-1) /\ UNCHANGED host
  /\ UNCHANGED <<set, opt, file, chip, got, kills>>

FpgaUp ==
  /\ host.fpga = "loading"
  /\ host' = [host EXCEPT !.fpga = "up"]
  /\ UNCHANGED <<set, opt, file, t, chip, got, faults, kills>>

\* pcie_hot_reset: a device that is loaded answers on the bus after it.
HotReset == host.fpga = "up"

\* Hot reset and rescan, up to five times.  After the last the loop just ends.
Rescan(ok) ==
  /\ t.pc = "rescan" /\ write_1_to_file(ok)
  /\ IF ~ok THEN Quit(-1) /\ UNCHANGED host
     ELSE IF HotReset THEN host' = [host EXCEPT !.present = TRUE] /\ Goto("end")
     ELSE /\ t' = IF t.tries > 1 THEN [t EXCEPT !.tries = @ - 1] ELSE [t EXCEPT !.pc = "end"]
          /\ UNCHANGED host
  /\ UNCHANGED <<set, opt, file, chip, got, kills>>

\* The tool is killed while it works on flash and run again.  A command under
\* way finishes; an AMD flash is left in the middle of a buffered program.
Kill ==
  /\ t.pc = "job" /\ kills < MaxKills
  /\ kills' = kills + 1
  /\ t' = FwStart
  /\ chip' = [c \in Chips |-> [chip[c] EXCEPT !.busy = FALSE,
                 !.mode = IF set.ops = "amd" /\ t.sub = "wait" THEN "abort" ELSE @]]
  /\ UNCHANGED <<set, opt, file, got, host, faults>>

FwTool ==
  \/ SkipStage \/ Written \/ NextSeg \/ NextStage \/ NotEnabled \/ Wait
  \/ ReadSegment \/ SkipFlash \/ Disconnect
  \/ \E b \in BOOLEAN : \/ Open(b) \/ Erase(b) \/ Write(b) \/ IssueErase(b) \/ IssueProgram(b)
                       \/ Verify(b) \/ Prepare(b) \/ Boot(b) \/ Iprog(b) \/ Remove(b) \/ Rescan(b)
FlashNext == FwTool \/ Kill \/ FpgaUp \/ \E c \in Chips : ChipDone(c)

\* The tool runs and a chip finishes what it was told to do; nothing makes the
\* FPGA load.
FlashSpec == FlashInit /\ [][FlashNext]_flashVars /\ WF_flashVars(FwTool)
             /\ \A c \in 1..2 : WF_flashVars(c \in Chips /\ ChipDone(c))
---------------------------------------------------------------------------
\* When the tool says that programming succeeded, the segment reads back as the
\* image, whatever the flash held before, whichever command of a chip failed
\* silently, and however often an earlier run was killed part way; and so does
\* the file it has read from the segment.
Programmed ==
  t.done => \A k \in 0..file.len-1 :
    ReadBack[k] = FileByte(k) /\ (got # <<>> => got[1][k] = FileByte(k))

\* Nothing outside the segment of the slot that was asked for (if there is such
\* a slot, which -e alone does not check) ever changes, so
\* the other images, the fallback among them, survive failed and killed runs.
OthersIntact ==
  LET slot == IF opt.slot < 0 THEN set.dflt ELSE opt.slot
      segs == Segments(set) IN
  segs = <<>> \/ slot < Len(segs) =>
    \A c \in Chips : \A a \in 0..ChipSize-1 :
      chip[c].mem[a] # OldByte =>
        LET g == segs[slot + 1] IN a \in Half(g.start)..Half(g.start + g.len)-1

\* While the FPGA reloads or is off the bus the tool has tried to turn the fatal
\* errors of the port off and to unbind the driver, its first handle is closed
\* and, off the bus, so is the one that triggered the reload; and no chip is busy
\* or left in status mode, so that the FPGA can load from it.
QuietReset ==
  /\ host.fpga = "loading" \/ ~host.present =>
       /\ host.fatal # "on" /\ host.driver # "bound" /\ host.dev # "file"
       /\ \A c \in Chips : ~chip[c].busy /\ chip[c].mode # "status"
  /\ ~host.present => host.dev = "none"

\* The tool has ended.
FwEnded == t.pc = "end"
============================================================================
