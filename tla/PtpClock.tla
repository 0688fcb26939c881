----------------------------- MODULE PtpClock -----------------------------
(***************************************************************************)
(* The PTP hardware clock as the driver sees it (mqnic_ptp.c over the      *)
(* registers of mqnic_ptp_clock.v), and the timestamps of completion       *)
(* records.  A record carries only the low 16 bits of the seconds; a ring  *)
(* caches the rest and refreshes it when bits 8 to 15 differ.  The clock   *)
(* ticks between any two register accesses.                                *)
(*                                                                         *)
(* Widths are scaled: BYTE stands for 2^8, FIELD for 2^16, WORD for 2^32   *)
(* seconds and TPS for the nanoseconds of a second.                        *)
(***************************************************************************)
EXTENDS Integers, Sequences

CONSTANTS TPS, BYTE, FIELD, WORD,
          OrBytes(_, _),    \* bitwise or of two bytes
          Callers,     \* threads that use the PTP device at the same time
          START,       \* the time the clock is set to when it is registered
          Jumps,       \* times settime is called with
          Deltas,      \* what adjtime is called with
          Periods,     \* periods of a periodic output, as <<sec, nsec>>
          MaxTime,     \* bound: the clock stops here
          MaxCalls,    \* bound on the calls of a behaviour
          MaxCpls      \* bound on the completion records waiting

ASSUME PtpAssumption ==
  /\ {TPS, BYTE, FIELD, WORD, MaxTime, MaxCalls, MaxCpls} \subseteq Nat \ {0}
  /\ FIELD % BYTE = 0 /\ WORD % FIELD = 0
  /\ START \in 0..MaxTime /\ Jumps \subseteq 0..MaxTime /\ Deltas \subseteq Int
  /\ Periods \subseteq Nat \X Nat
  /\ \A b \in 0..(FIELD \div BYTE)-1 : OrBytes(b, b) = b

VARIABLES
  phc,       \* the clock, in ticks
  latch,     \* get_ptp_ts_96_reg
  latcher,   \* history: the caller that latched it, as a set
  set_reg,   \* [ns, sec_l]: the parts of set_ptp_ts_96_reg written so far
  call,      \* per caller: [pc, op, arg, from, ns, sec, ok]
  stamped,      \* timestamps of the records waiting: [at, ok]
  ring_ts,   \* [valid, ts_s] of the ring
  cached,    \* [sec, ok]: when the cache was read, and whether it can be relied on
  reader,    \* [pc, lo]: mqnic_read_cpl_ts under way
  report,    \* whether the last timestamp given out was what it ought to be
  answer,    \* whether the last time gettime returned was true (Truthful)
  perout,    \* [on, period, width]: the periodic output registers
  calls      \* calls so far

ptpVars == <<phc, latch, latcher, set_reg, call, stamped, ring_ts, cached, reader, report, answer,
             perout, calls>>

Sec(t) == t \div TPS
Ns(t) == t % TPS
Block(s) == s \div BYTE

Quiet == [pc |-> "idle", op |-> "none", arg |-> 0, from |-> 0, ns |-> 0, sec |-> 0,
          ok |-> TRUE]

\* mqnic_register_phc has set the clock from the system clock.
PtpInit ==
  /\ phc = START /\ latch = 0 /\ latcher = {}
  /\ set_reg = [ns |-> Ns(START), sec_l |-> Sec(START) % WORD]
  /\ call = [c \in Callers |-> Quiet]
  /\ stamped = <<>>
  /\ ring_ts = [valid |-> FALSE, ts_s |-> 0]
  /\ cached = [sec |-> 0, ok |-> FALSE]
  /\ reader = [pc |-> "idle", lo |-> 0]
  /\ report = TRUE /\ answer = TRUE
  /\ perout = [on |-> FALSE, period |-> <<0, 0>>, width |-> <<0, 0>>]
  /\ calls = 0

Tick ==
  /\ phc < MaxTime
  /\ phc' = phc + 1
  /\ UNCHANGED <<latch, latcher, set_reg, call, stamped, ring_ts, cached, reader, report, answer,
                 perout, calls>>

---------------------------------------------------------------------------
(* Completion timestamps. *)

\* The device stamps a record.
Stamp ==
  /\ Len(stamped) < MaxCpls
  /\ stamped' = Append(stamped, [at |-> phc, ok |-> TRUE])
  /\ UNCHANGED <<phc, latch, latcher, set_reg, call, ring_ts, cached, reader, report, answer,
                 perout, calls>>

CplSec == Sec(Head(stamped).at) % FIELD     \* cpl->ts_s

\* Mutant: the cache is filled once and never compared.
NeedsRefresh_Once == ~ring_ts.valid

\* Nothing is cached, or bits 8 to 15 of the seconds differ.
NeedsRefresh == ~ring_ts.valid \/ Block(ring_ts.ts_s % FIELD) # Block(CplSec)

\* The record's 16 bits are or-ed into the cached seconds without their low byte:
\* the low byte is the record's, the next one the or of both, the rest the cache's.
Widen(ts_s) ==
  LET bytes == FIELD \div BYTE
      mid == OrBytes(Block(ts_s) % bytes, Block(CplSec)) IN
  ((Block(ts_s) \div bytes) * FIELD + mid * BYTE + (CplSec % BYTE)) * TPS + Ns(Head(stamped).at)

\* The record's seconds and the cached ones belong to the same 2^16 seconds: the
\* cache was read within one block and since the last step of the clock, and no
\* further from the record than FIELD - BYTE seconds.
Steady(c, r) == c.ok /\ r.ok /\ Sec(r.at) - c.sec \in BYTE - FIELD .. FIELD - BYTE

\* mqnic_read_cpl_ts.
ReadCplTs ==
  /\ stamped # <<>> /\ reader.pc = "idle"
  /\ IF NeedsRefresh
     THEN reader' = [reader EXCEPT !.pc = "low"] /\ UNCHANGED <<stamped, report>>
     ELSE /\ report' = (Steady(cached, Head(stamped)) => Widen(ring_ts.ts_s) = Head(stamped).at)
          /\ stamped' = Tail(stamped) /\ UNCHANGED reader
  /\ UNCHANGED <<phc, latch, latcher, set_reg, call, ring_ts, cached, answer, perout, calls>>

ReadSecL ==
  /\ reader.pc = "low"
  /\ reader' = [pc |-> "high", lo |-> Sec(phc) % WORD]
  /\ cached' = [sec |-> Sec(phc), ok |-> TRUE]
  /\ UNCHANGED <<phc, latch, latcher, set_reg, call, stamped, ring_ts, report, answer, perout, calls>>

\* The record that caused the refresh may be of an earlier block than the cache.
ReadSecH ==
  LET ts_s == reader.lo + (Sec(phc) \div WORD) * WORD
      c == [cached EXCEPT !.ok = @ /\ Block(cached.sec) = Block(Sec(phc))]
      r == Head(stamped) IN
  /\ reader.pc = "high"
  /\ ring_ts' = [valid |-> TRUE, ts_s |-> ts_s]
  /\ cached' = c
  /\ report' = (Steady(c, r) /\ Block(Sec(r.at)) = Block(c.sec) => Widen(ts_s) = r.at)
  /\ stamped' = Tail(stamped)
  /\ reader' = [pc |-> "idle", lo |-> 0]
  /\ UNCHANGED <<phc, latch, latcher, set_reg, call, answer, perout, calls>>

---------------------------------------------------------------------------
(* Calls of the PTP device. *)
BeginCall(c, pc, op, arg) ==
  /\ call[c].pc = "idle" /\ calls < MaxCalls
  /\ calls' = calls + 1
  /\ call' = [call EXCEPT ![c] = [Quiet EXCEPT !.pc = pc, !.op = op, !.arg = arg,
                                               !.from = IF op = "get" THEN phc ELSE 0]]
  /\ UNCHANGED <<phc, latch, latcher, set_reg, stamped, ring_ts, cached, reader, report, answer, perout>>

mqnic_phc_gettime(c) == BeginCall(c, "get_fns", "get", 0)
mqnic_phc_settime(c, t) == BeginCall(c, "set_ns", "set", t)
\* More than a second: read, add, set; otherwise the offset registers.
mqnic_phc_adjtime(c, d) == BeginCall(c, IF d > TPS \/ d < -TPS THEN "get_fns" ELSE "adj", "adj", d)

\* Reading the fractional ns latches the rest, over what another caller may
\* have latched and not read yet.
GetFns(c) ==
  /\ call[c].pc = "get_fns"
  /\ latch' = phc /\ latcher' = {c}
  /\ call' = [call EXCEPT ![c].pc = "get_ns"]
  /\ UNCHANGED <<phc, set_reg, stamped, ring_ts, cached, reader, report, answer, perout, calls>>

GetNs(c) ==
  /\ call[c].pc = "get_ns"
  /\ call' = [call EXCEPT ![c].pc = "get_sec_l", ![c].ns = Ns(latch)]
  /\ UNCHANGED <<phc, latch, latcher, set_reg, stamped, ring_ts, cached, reader, report, answer, perout, calls>>

GetSecL(c) ==
  /\ call[c].pc = "get_sec_l"
  /\ call' = [call EXCEPT ![c].pc = "get_sec_h", ![c].sec = Sec(latch) % WORD]
  /\ UNCHANGED <<phc, latch, latcher, set_reg, stamped, ring_ts, cached, reader, report, answer, perout, calls>>

\* Whether seconds and nanoseconds are a true answer to c's call.  Unless the clock
\* was stepped they are a time it had during the call, when no other
\* call latched since or the clock stayed within one second.  When another call latched in
\* between and a second began, the seconds at least are of the call, up to the
\* wrap of their lower word.
Truthful(c, sec, ns) ==
  LET t == sec * TPS + ns
      k == call[c] IN
  k.ok => /\ c \in latcher \/ Sec(k.from) = Sec(phc) => k.from <= t /\ t <= phc
          /\ Sec(k.from) \div WORD = Sec(phc) \div WORD => Sec(k.from) <= sec /\ sec <= Sec(phc)

\* The call returns, or goes on to set the sum (within the bound of the clock).
GetSecH(c) ==
  LET sec == call[c].sec + (Sec(latch) \div WORD) * WORD
      t == sec * TPS + call[c].ns
      sum == t + call[c].arg IN
  /\ call[c].pc = "get_sec_h"
  /\ IF call[c].op = "get"
     THEN /\ answer' = Truthful(c, sec, call[c].ns)
          /\ call' = [call EXCEPT ![c] = Quiet]
     ELSE /\ 0 <= sum /\ sum <= MaxTime
          /\ call' = [call EXCEPT ![c].pc = "set_ns", ![c].arg = sum]
          /\ UNCHANGED answer
  /\ UNCHANGED <<phc, latch, latcher, set_reg, stamped, ring_ts, cached, reader, report, perout, calls>>

SetNs(c) ==
  /\ call[c].pc = "set_ns"
  /\ set_reg' = [set_reg EXCEPT !.ns = Ns(call[c].arg)]
  /\ call' = [call EXCEPT ![c].pc = "set_sec_l"]
  /\ UNCHANGED <<phc, latch, latcher, stamped, ring_ts, cached, reader, report, answer, perout, calls>>

SetSecL(c) ==
  /\ call[c].pc = "set_sec_l"
  /\ set_reg' = [set_reg EXCEPT !.sec_l = Sec(call[c].arg) % WORD]
  /\ call' = [call EXCEPT ![c].pc = "set_sec_h"]
  /\ UNCHANGED <<phc, latch, latcher, stamped, ring_ts, cached, reader, report, answer, perout, calls>>

\* The clock steps: what was stamped, cached or being read before is of no use.
Step_(t, c) ==
  /\ phc' = t
  /\ stamped' = [k \in DOMAIN stamped |-> [stamped[k] EXCEPT !.ok = FALSE]]
  /\ cached' = [cached EXCEPT !.ok = FALSE]
  /\ call' = [d \in Callers |-> IF d = c THEN Quiet ELSE [call[d] EXCEPT !.ok = FALSE]]
  /\ UNCHANGED <<latch, latcher, set_reg, ring_ts, reader, report, answer, perout, calls>>

\* Writing the upper seconds loads the clock.
SetSecH(c) ==
  /\ call[c].pc = "set_sec_h"
  /\ Step_((set_reg.sec_l + (Sec(call[c].arg) \div WORD) * WORD) * TPS + set_reg.ns, c)

\* Writing the count applies the offset (within the bound of the clock).
AdjCount(c) ==
  /\ call[c].pc = "adj"
  /\ phc + call[c].arg \in 0..MaxTime
  /\ Step_(phc + call[c].arg, c)

\* mqnic_phc_perout: seconds are carried out of the nanoseconds, and the width
\* is half of the period.
mqnic_phc_perout(p) ==
  LET sec == p[1] + p[2] \div TPS
      nsec == p[2] % TPS IN
  /\ calls < MaxCalls /\ calls' = calls + 1
  /\ perout' = [on |-> TRUE, period |-> <<sec, nsec>>,
                width |-> <<sec \div 2, (nsec + (IF sec % 2 = 1 THEN TPS ELSE 0)) \div 2>>]
  /\ UNCHANGED <<phc, latch, latcher, set_reg, call, stamped, ring_ts, cached, reader, report, answer>>

PeroutOff ==
  /\ calls < MaxCalls /\ calls' = calls + 1
  /\ perout' = [perout EXCEPT !.on = FALSE]
  /\ UNCHANGED <<phc, latch, latcher, set_reg, call, stamped, ring_ts, cached, reader, report, answer>>

\* mqnic_phc_enable: only periodic outputs are supported.
mqnic_phc_enable == PeroutOff \/ \E p \in Periods : mqnic_phc_perout(p)

---------------------------------------------------------------------------
PtpCall(c) ==
  \/ mqnic_phc_gettime(c) \/ GetFns(c) \/ GetNs(c) \/ GetSecL(c) \/ GetSecH(c)
  \/ SetNs(c) \/ SetSecL(c) \/ SetSecH(c) \/ AdjCount(c)
  \/ \E t \in Jumps : mqnic_phc_settime(c, t)
  \/ \E d \in Deltas : mqnic_phc_adjtime(c, d)

PtpNext ==
  \/ Tick \/ Stamp \/ ReadCplTs \/ ReadSecL \/ ReadSecH \/ mqnic_phc_enable
  \/ \E c \in Callers : PtpCall(c)

PtpSpec == PtpInit /\ [][PtpNext]_ptpVars
---------------------------------------------------------------------------
\* A completion's timestamp is widened to the time it was stamped at, unless a
\* 256 second boundary lies between the stamp and the refresh of the cache it
\* caused, the cache is about 2^16 seconds old, or the clock was stepped.
CplTimeTrue == report

\* mqnic_phc_gettime returns a time the clock had during the call, although the
\* clock ticks between the four reads and nothing keeps two callers apart
\* (mqnic_ptp.c:68).  The exception: when another call latches in between and a
\* second ends during the call, the parts may be of two times, and the answer
\* is right to the second only.
GetTimeTrue == answer

\* A periodic output is on for half of its period, whatever mix of seconds and
\* nanoseconds the period was given in.
HalfPeriod ==
  LET ticks(x) == x[1] * TPS + x[2] IN
  perout.on => ticks(perout.width) = ticks(perout.period) \div 2
                 /\ perout.width[2] < TPS /\ perout.period[2] < TPS

\* The times the driver reports and the pulses it asks for are true.
ClockTrue == CplTimeTrue /\ GetTimeTrue /\ HalfPeriod
===========================================================================
