---------------------------- MODULE Transceiver ----------------------------
(***************************************************************************)
(* The transceiver tool (mqnic-xcvr.c) on one quad: it loads presets into  *)
(* the selected channels, then scans their eyes side by side.  Four        *)
(* families of transceivers (xcvr_gthe3.c, xcvr_gthe4.c, xcvr_gtye3.c,     *)
(* xcvr_gtye4.c) share the structure and differ in their presets, in the   *)
(* width of their sample mask and in the code of a horizontal offset.      *)
(*                                                                         *)
(* The tool is one thread; the eye scan logic of each channel runs on its  *)
(* own.  A measurement uses what the channel's registers hold when it is   *)
(* started, so the tool's idea of where it measures and the registers must *)
(* agree, field by field, at every start.  A scan itself is modelled with  *)
(* registers that can be read and written.                                 *)
(***************************************************************************)
EXTENDS Integers, Sequences, FiniteSets

CONSTANTS Families,    \* subset of {"gthe3", "gthe4", "gtye3", "gtye4"}
          CH_COUNT,    \* channels of the quad
          Masks,       \* channel masks a user may give (sets of channels)
          RawWidths, IDW,  \* RX_DATA_WIDTH and RX_INT_DATAWIDTH fields of a channel
          H_STOP, V_STOP, GRID_STEP,   \* the grid goes from -STOP to STOP in STEPs
          SAMPLES,     \* capacity of the sample counter (0xffff)
          TARGET,      \* bits wanted per point
          MaxPrescale, \* largest prescaler tried (31)
          MaxBerTries, \* tries to align a channel
          Losses       \* which writes of one preset and its reset may fail (sets of names)

ASSUME TransceiverAssumption ==
  /\ Families \subseteq {"gthe3", "gthe4", "gtye3", "gtye4"}
  /\ CH_COUNT \in 1..4 /\ \A m \in Masks : m \subseteq 0..CH_COUNT-1
  /\ RawWidths \subseteq 2..9 /\ IDW \in 0..1 /\ GRID_STEP \in Nat \ {0}
  /\ H_STOP \in 0..1023 /\ V_STOP \in 0..127  \* offsets of 11 bits, and of 7 and a sign
  /\ (2*H_STOP) % GRID_STEP = 0 /\ (2*V_STOP) % GRID_STEP = 0
  /\ SAMPLES \in Nat \ {0} /\ MaxBerTries \in Nat \ {0}
  /\ MaxPrescale \in 3..31 /\ TARGET \in 0..SAMPLES*2^MaxPrescale
\* Powers of 2, which the provers do not know.
ASSUME PowersAssumption ==
  2^0 = 1 /\ \A p \in 0..MaxPrescale+1 : 2^p \in Nat \ {0} /\ 2^(p+1) = 2 * 2^p

Channels == 0..CH_COUNT-1
Presets == {"none", "10g_dfe", "10g_lpm", "25g_dfe", "25g_lpm"}
Is10G(p) == p \in {"10g_dfe", "10g_lpm"}
Is25G(p) == p \in {"25g_dfe", "25g_lpm"}
IsLpm(p) == p \in {"10g_lpm", "25g_lpm"}

VARIABLES
  family, q25g,  \* the quad: its family; QPLL0 runs at the full (25G) rate
  xopt,          \* [mask, preset, reset, scan]: options of the tool
  thread,        \* [pc, ch, tries, done]: where the tool is
  pll,           \* [qpll1_pd]: registers shared by the channels
  reg,           \* registers of each channel
  es,            \* eye scan logic of each channel: "idle", "run" or "done"
  meas,          \* where the measurement under way was started
  priv,          \* the tool's state of each channel
  target,        \* params.target_bit_count, shared by the channels
  points           \* points written for each channel

xcvrVars == <<family, q25g, xopt, thread, pll, reg, es, meas, priv, target, points>>

---------------------------------------------------------------------------
(* Presets.  Registers are written while both resets are held.  A table    *)
(* of registers is abstracted to its name: the base table of a rate, then  *)
(* the equaliser table of a rate ("any" where one table serves both).      *)
(* A write to a register of the transceiver may fail, and a table ends at  *)
(* the first write that does; load_preset looks at none of the results.    *)
(* reg[c].lost has the names of the writes that failed.                    *)

\* A register after the write w, and a record of the writes ws if they fail.
AfterWrite(lost, w, old, new) == IF w \in lost THEN old ELSE new
Lost(r, lost, ws) == r.lost \cup (lost \cap ws)

HoldReset(r, lost) ==
  [r EXCEPT !.tx_reset = AfterWrite(lost, "tx_hold", @, 1), !.rx_reset = AfterWrite(lost, "rx_hold", @, 1),
            !.lost = Lost(r, lost, {"tx_hold", "rx_hold"})]
Release(r, lost) ==
  [r EXCEPT !.tx_reset = AfterWrite(lost, "tx_release", @, 0), !.rx_reset = AfterWrite(lost, "rx_release", @, 0),
            !.lost = Lost(r, lost, {"tx_release", "rx_release"})]
PowerUp(r, lost) == [r EXCEPT !.lost = Lost(r, lost, {"qpll1_pd"})]
Select(r, lost, k) ==
  [r EXCEPT !.tx_qpll_sel = AfterWrite(lost, "tx_qpll_sel", @, k), !.rx_qpll_sel = AfterWrite(lost, "rx_qpll_sel", @, k),
            !.lost = Lost(r, lost, {"tx_qpll_sel", "rx_qpll_sel"})]
BaseTable(r, lost, rate) ==
  [r EXCEPT !.base = AfterWrite(lost, "base", "mixed", rate), !.lost = Lost(r, lost, {"base"})]
EqTable(r, lost, rate, p) ==
  [r EXCEPT !.eq = AfterWrite(lost, "eq", <<"mixed", "mixed">>, <<rate, IF IsLpm(p) THEN "lpm" ELSE "dfe">>),
            !.rx_lpm_en = AfterWrite(lost, "rx_lpm_en", @, IsLpm(p)),
            !.lost = Lost(r, lost, {"eq", "rx_lpm_en"})]

\* A GTH has only the 10G rate: its registers start there.
gthe3_ch_load_preset(r, lost, p) ==
  IF Is10G(p) THEN Release(EqTable(HoldReset(r, lost), lost, "10g", p), lost) ELSE r
gthe4_ch_load_preset(r, lost, p) ==
  IF Is10G(p) THEN Release(EqTable(HoldReset(r, lost), lost, "10g", p), lost) ELSE r

\* With QPLL0 at the 25G rate a 10G channel uses QPLL1; without it there is no 25G.
Gty10G(r, lost, eqRate, p) ==
  LET held == IF q25g THEN Select(HoldReset(PowerUp(r, lost), lost), lost, 1) ELSE HoldReset(r, lost)
  IN Release(EqTable(BaseTable(held, lost, "10g"), lost, eqRate, p), lost)
Gty25G(r, lost, eqRate, p) ==
  Release(EqTable(BaseTable(Select(HoldReset(r, lost), lost, 0), lost, "25g"), lost, eqRate, p), lost)

gtye3_ch_load_preset(r, lost, p) ==
  IF Is10G(p) THEN Gty10G(r, lost, "10g", p)
  ELSE IF Is25G(p) /\ q25g THEN Gty25G(r, lost, "25g", p) ELSE r

\* Mutant: a base table that fails ends the preset.
gtye4_ch_load_preset_Early(r, lost, p) ==
  IF Is10G(p) THEN Gty10G(r, lost, "any", p)
  ELSE IF ~(Is25G(p) /\ q25g) THEN r
  ELSE IF "base" \in lost THEN BaseTable(Select(HoldReset(r, lost), lost, 0), lost, "25g")
  ELSE Gty25G(r, lost, "any", p)

gtye4_ch_load_preset(r, lost, p) ==
  IF Is10G(p) THEN Gty10G(r, lost, "any", p)
  ELSE IF Is25G(p) /\ q25g THEN Gty25G(r, lost, "any", p) ELSE r

gt_ch_load_preset(r, lost, p) ==
  CASE family = "gthe3" -> gthe3_ch_load_preset(r, lost, p)
    [] family = "gthe4" -> gthe4_ch_load_preset(r, lost, p)
    [] family = "gtye3" -> gtye3_ch_load_preset(r, lost, p)
    [] family = "gtye4" -> gtye4_ch_load_preset(r, lost, p)

\* A 10G preset of a GTY quad powers QPLL1 up before it switches to it.
PllFor(p, lost) ==
  IF family \in {"gtye3", "gtye4"} /\ Is10G(p) /\ q25g
  THEN [pll EXCEPT !.qpll1_pd = AfterWrite(lost, "qpll1_pd", @, 0)] ELSE pll

\* X_ch_rx_reset, X_ch_tx_reset: set, and if that works clear.
RxReset(r, lost) ==
  [r EXCEPT !.rx_reset = AfterWrite(lost, "rx_set", @, AfterWrite(lost, "rx_clear", 1, 0)),
            !.lost = Lost(r, lost, {"rx_set", "rx_clear"})]
TxReset(r, lost) ==
  [r EXCEPT !.tx_reset = AfterWrite(lost, "tx_set", @, AfterWrite(lost, "tx_clear", 1, 0)),
            !.lost = Lost(r, lost, {"tx_set", "tx_clear"})]

---------------------------------------------------------------------------
(* Eye scan: what the functions of a family do to the registers of a       *)
(* channel.  The families differ in the sample mask and the code of a      *)
(* horizontal offset, which the shared operators take as parameters.       *)

\* Internal width of a channel, from the raw width fields.
int_data_width(r) == (16 * 2^r.idw * (4 + (r.dw % 2))) \div 4

\* The words of the mask register: of each, the low 16 - shift bits.
SdataMask(half, width) ==
  {b \in 0..79 : LET k == b \div 16  shift == width - (half - (k+1)*16) IN
                   shift < 0 \/ (shift <= 16 /\ b % 16 < 16 - shift)}

gthe3_ch_set_es_sdata_mask_width(width) == SdataMask(40, width)
gthe4_ch_set_es_sdata_mask_width(width) == SdataMask(80, width)
gtye3_ch_set_es_sdata_mask_width(width) == SdataMask(80, width)
gtye4_ch_set_es_sdata_mask_width(width) == SdataMask(80, width)

\* Horizontal offset: 11 bits two's complement and a bit that is the sign on a
\* GTH and always set on a GTY.
HorzGth == [h \in -1024..1023 |-> (h % 2048) + (IF h < 0 THEN 2048 ELSE 0)]
HorzGty == [h \in -1024..1023 |-> (h % 2048) + 2048]

\* Where the logic of a channel measures, given its registers.
Place(r) == [h |-> IF r.horz % 2048 >= 1024 THEN (r.horz % 2048) - 2048 ELSE r.horz % 2048,
             v |-> IF r.neg_dir THEN -r.vs_code ELSE r.vs_code, ut |-> r.ut_sign]

\* Mutant: the direction of a vertical offset is written once, at the start.
SetV_CodeOnly(r, v) == [r EXCEPT !.vs_code = IF v < 0 THEN -v ELSE v]

SetV(r, v) == [r EXCEPT !.neg_dir = v < 0, !.vs_code = IF v < 0 THEN -v ELSE v]

\* Bits of a full sample counter.
Bits(width, prescale) == SAMPLES * width * 2^(1+prescale)

\* The smallest prescaler with which a full sample counter means enough bits.
Prescale(width, bits) ==
  LET ok == {p \in 0..MaxPrescale : Bits(width, p) >= bits} IN
  CHOOSE p \in ok : \A x \in ok : p <= x

\* X_ch_rx_pma_reset: set, then clear.
Pulse(r, f) == [[r EXCEPT ![f] = 1] EXCEPT ![f] = 0]

\* Set up for the alignment, at the centre of the eye.
Centre(r, horz, mask) ==
  Pulse([SetV(r, 0) EXCEPT !.horz = horz[0], !.ut_sign = 0, !.prescale = 4,
                           !.mask = mask], "rx_pma_reset")
\* Set up for the measurement, at the first corner of the grid.
Corner(r, horz, mask, bits) ==
  [SetV(Centre(r, horz, mask), -V_STOP)
     EXCEPT !.horz = horz[-H_STOP], !.prescale = Prescale(int_data_width(r), bits)]

gthe3_ch_eyescan_start(r, aligned, bits) ==
  LET mask == gthe3_ch_set_es_sdata_mask_width(int_data_width(r)) IN
  IF aligned THEN Corner(r, HorzGth, mask, bits) ELSE Centre(r, HorzGth, mask)
gthe4_ch_eyescan_start(r, aligned, bits) ==
  LET mask == gthe4_ch_set_es_sdata_mask_width(int_data_width(r)) IN
  IF aligned THEN Corner(r, HorzGth, mask, bits) ELSE Centre(r, HorzGth, mask)
gtye3_ch_eyescan_start(r, aligned, bits) ==
  LET mask == gtye3_ch_set_es_sdata_mask_width(int_data_width(r)) IN
  IF aligned THEN Corner(r, HorzGty, mask, bits) ELSE Centre(r, HorzGty, mask)
gtye4_ch_eyescan_start(r, aligned, bits) ==
  LET mask == gtye4_ch_set_es_sdata_mask_width(int_data_width(r)) IN
  IF aligned THEN Corner(r, HorzGty, mask, bits) ELSE Centre(r, HorzGty, mask)

gt_ch_eyescan_start(r, aligned, bits) ==
  CASE family = "gthe3" -> gthe3_ch_eyescan_start(r, aligned, bits)
    [] family = "gthe4" -> gthe4_ch_eyescan_start(r, aligned, bits)
    [] family = "gtye3" -> gtye3_ch_eyescan_start(r, aligned, bits)
    [] family = "gtye4" -> gtye4_ch_eyescan_start(r, aligned, bits)

\* The other sign of the unrolled tap comes next.
NextUt(p) == p.ut = 0 /\ p.dfe_en

\* After a point the sign, the vertical and the horizontal offset advance,
\* innermost first; a corner that is passed ends the scan.
Advance(p, r, horz) ==
  LET sign == NextUt(p)
      up == ~sign /\ p.v < V_STOP
      right == ~sign /\ ~up /\ p.h < H_STOP
      p2 == [p EXCEPT !.ut = IF sign THEN 1 ELSE 0,
                      !.v = IF sign THEN @ ELSE IF up THEN @ + GRID_STEP ELSE -V_STOP,
                      !.h = IF right THEN @ + GRID_STEP ELSE @,
                      !.running = sign \/ up \/ right]
      r2 == [r EXCEPT !.ut_sign = p2.ut]
      r3 == IF sign THEN r2 ELSE SetV(r2, p2.v)
  IN [priv |-> p2, reg |-> IF right THEN [r3 EXCEPT !.horz = horz[p2.h]] ELSE r3]

gthe3_ch_eyescan_step(p, r) == Advance(p, r, HorzGth)
gthe4_ch_eyescan_step(p, r) == Advance(p, r, HorzGth)
gtye3_ch_eyescan_step(p, r) == Advance(p, r, HorzGty)
gtye4_ch_eyescan_step(p, r) == Advance(p, r, HorzGty)

gt_ch_eyescan_step(p, r) ==
  CASE family = "gthe3" -> gthe3_ch_eyescan_step(p, r) [] family = "gthe4" -> gthe4_ch_eyescan_step(p, r)
    [] family = "gtye3" -> gtye3_ch_eyescan_step(p, r) [] family = "gtye4" -> gtye4_ch_eyescan_step(p, r)

\* set_es_control(1): the logic runs with the registers as they are.
XcvrStart(c, r) == /\ es' = [es EXCEPT ![c] = "run"]
               /\ meas' = [meas EXCEPT ![c] = Place(r)]
               /\ reg' = [reg EXCEPT ![c] = r]

---------------------------------------------------------------------------
\* X_quad_init: what the build configured, known from the rate of QPLL0.
quad_rate == IF q25g /\ family \in {"gtye3", "gtye4"} THEN "25g" ELSE "10g"
NoPriv == [running |-> FALSE, dfe_en |-> FALSE, width |-> 0, prescale |-> 0, h |-> 0, v |-> 0, ut |-> 0]

XcvrInit ==
  /\ family \in Families /\ q25g \in BOOLEAN
  /\ xopt \in [mask : Masks, preset : Presets, reset : BOOLEAN, scan : BOOLEAN]
  /\ thread = [pc |-> "preset", ch |-> 0, tries |-> 0, done |-> TRUE]
  /\ pll = [qpll1_pd |-> 1]
  /\ \E dw \in [Channels -> RawWidths], lpm \in BOOLEAN :
       LET rate == quad_rate IN
       reg = [c \in Channels |->
               [tx_reset |-> 0, rx_reset |-> 0, rx_pma_reset |-> 0, tx_qpll_sel |-> 0, rx_qpll_sel |-> 0,
                base |-> rate, eq |-> <<rate, IF lpm THEN "lpm" ELSE "dfe">>, rx_lpm_en |-> lpm,
                dw |-> dw[c], idw |-> IDW, mask |-> {}, prescale |-> 0,
                horz |-> 0, neg_dir |-> FALSE, vs_code |-> 0, ut_sign |-> 0, lost |-> {}]]
  /\ es = [c \in Channels |-> "idle"]
  /\ meas = [c \in Channels |-> [h |-> 0, v |-> 0, ut |-> 0]]
  /\ priv = [c \in Channels |-> NoPriv]
  /\ target = TARGET
  /\ points = [c \in Channels |-> <<>>]

\* The next channel of the loops over quads and channels, or the next loop.
NextCh(then) ==
  thread' = IF thread.ch + 1 < CH_COUNT THEN [thread EXCEPT !.ch = @ + 1, !.tries = 0]
            ELSE [thread EXCEPT !.pc = then, !.ch = 0, !.tries = 0]

\* After the presets the tool scans if it was given a file, or ends.
AfterPresets == IF xopt.scan THEN "start" ELSE "end"

Skip ==
  /\ thread.pc \in {"preset", "start"} /\ thread.ch \notin xopt.mask
  /\ NextCh(IF thread.pc = "preset" THEN AfterPresets ELSE "scan")
  /\ UNCHANGED <<family, q25g, xopt, pll, reg, es, meas, priv, target, points>>

\* The preset asked for, then (-t) a reset; a family that does not know it
\* changes nothing, and the tool does not look at the result.
LoadPreset ==
  LET c == thread.ch IN
  /\ thread.pc = "preset" /\ c \in xopt.mask
  /\ \E lost \in Losses :
       /\ pll' = PllFor(xopt.preset, lost)
       /\ reg' = [reg EXCEPT ![c] =
                   LET r == gt_ch_load_preset(@, lost, xopt.preset) IN
                   IF xopt.reset THEN TxReset(RxReset(r, lost), lost) ELSE r]
  /\ NextCh(AfterPresets)
  /\ UNCHANGED <<family, q25g, xopt, es, meas, priv, target, points>>

\* eyescan_start, up to the alignment: the centre of the eye is measured.  A
\* channel that stays in reset or whose scan does not finish ends the tool, as
\* does an error rate that is too high on every try; after each such try the
\* eye scan logic is reset, which leaves the horizontal code at 0x800.
Align(outcome) ==
  LET c == thread.ch IN
  /\ thread.pc = "start" /\ c \in xopt.mask
  /\ outcome \in {"stuck", "high"}
  /\ priv' = [priv EXCEPT ![c].running = FALSE]
  /\ target' = Bits(int_data_width(reg[c]), Prescale(int_data_width(reg[c]), target))
  /\ reg' = [reg EXCEPT ![c] =
              LET r == gt_ch_eyescan_start(@, FALSE, target) IN
              IF outcome = "high" THEN [r EXCEPT !.horz = 2048] ELSE r]
  /\ thread' = IF outcome = "high" /\ thread.tries + 1 < MaxBerTries
               THEN [thread EXCEPT !.tries = @ + 1] ELSE [thread EXCEPT !.pc = "failed"]
  /\ UNCHANGED <<family, q25g, xopt, pll, es, meas, points>>

\* ... and the first measurement once it succeeds.
Measure ==
  LET c == thread.ch
      w == int_data_width(reg[c])
      r == gt_ch_eyescan_start(reg[c], TRUE, target) IN
  /\ thread.pc = "start" /\ c \in xopt.mask
  /\ priv' = [priv EXCEPT ![c] = [running |-> TRUE, dfe_en |-> ~reg[c].rx_lpm_en, width |-> w,
                                  prescale |-> r.prescale, h |-> -H_STOP, v |-> -V_STOP, ut |-> 0]]
  /\ target' = Bits(w, r.prescale)
  /\ XcvrStart(c, r)
  /\ NextCh("scan")
  /\ UNCHANGED <<family, q25g, xopt, pll, points>>

---------------------------------------------------------------------------
(* The scan loop: one eyescan_step per selected channel and round, until a *)
(* round in which no channel has anything to report.                       *)

EndStep(ret) ==
  LET done == thread.done /\ ret = 0 IN
  thread' = IF thread.ch + 1 < CH_COUNT THEN [thread EXCEPT !.ch = @ + 1, !.done = done]
            ELSE IF done THEN [thread EXCEPT !.pc = "done", !.ch = 0]
            ELSE [thread EXCEPT !.ch = 0, !.done = TRUE]

\* A channel that is not selected, is finished (0) or still acquiring (2).
StepIdle ==
  LET c == thread.ch IN
  /\ thread.pc = "scan"
  /\ \/ /\ c \notin xopt.mask \/ ~priv[c].running
        /\ EndStep(0)
     \/ /\ c \in xopt.mask /\ priv[c].running /\ es[c] # "done"
        /\ EndStep(2)
  /\ UNCHANGED <<family, q25g, xopt, pll, reg, es, meas, priv, target, points>>

\* A finished measurement: the point is written and the next one started.  The
\* counts written with it are those of the eye scan logic.
StepPoint ==
  LET c == thread.ch
      p == priv[c]
      next == gt_ch_eyescan_step(p, reg[c]) IN
  /\ thread.pc = "scan" /\ c \in xopt.mask /\ p.running /\ es[c] = "done"
  /\ points' = [points EXCEPT ![c] = Append(@, [x |-> p.h, y |-> p.v, ut |-> p.ut, at |-> meas[c]])]
  /\ priv' = [priv EXCEPT ![c] = next.priv]
  /\ IF next.priv.running THEN XcvrStart(c, next.reg)
     ELSE es' = [es EXCEPT ![c] = "idle"] /\ reg' = [reg EXCEPT ![c] = next.reg] /\ UNCHANGED meas
  /\ EndStep(1)
  /\ UNCHANGED <<family, q25g, xopt, pll, target>>

\* The eye scan logic of a channel finishes a measurement.
EyeDone(c) ==
  /\ es[c] = "run"
  /\ es' = [es EXCEPT ![c] = "done"]
  /\ UNCHANGED <<family, q25g, xopt, thread, pll, reg, meas, priv, target, points>>

XcvrTool == Skip \/ LoadPreset \/ (\E o \in {"stuck", "high"} : Align(o)) \/ Measure
        \/ StepIdle \/ StepPoint
XcvrNext == XcvrTool \/ \E c \in Channels : EyeDone(c)

\* The tool runs, and the logic of a channel finishes what was started.
XcvrSpec == XcvrInit /\ [][XcvrNext]_xcvrVars /\ WF_xcvrVars(XcvrTool)
            /\ \A c \in Channels : WF_xcvrVars(EyeDone(c))
---------------------------------------------------------------------------
\* The grid in the order of the scan, for one or two signs.
Grid(signs) ==
  LET nv == (2*V_STOP) \div GRID_STEP + 1  nh == (2*H_STOP) \div GRID_STEP + 1 IN
  [i \in 1..nh*nv*signs |->
     [x |-> -H_STOP + GRID_STEP * ((i-1) \div (nv*signs)),
      y |-> -V_STOP + GRID_STEP * (((i-1) \div signs) % nv),
      ut |-> (i-1) % signs]]

\* When the tool is done every selected channel has been measured at every
\* point of the grid, once and in order, with both signs when the equaliser is
\* in DFE mode, and no other channel has a point: one channel that finishes
\* early does not end the loop of the others (mqnic-xcvr.c:364-402).
GridComplete ==
  thread.pc = "done" =>
    \A c \in Channels :
      [i \in DOMAIN points[c] |-> [x |-> points[c][i].x, y |-> points[c][i].y, ut |-> points[c][i].ut]]
        = IF c \in xopt.mask THEN Grid(IF reg[c].rx_lpm_en THEN 1 ELSE 2) ELSE <<>>

\* A point written to a file was measured where the file says, by registers
\* whose mask leaves, of the lower half, exactly the bits of one word; and the
\* sample counter of a channel that is scanned can count as many bits as were
\* asked for, whatever target the channels before it have left behind.
PointsTrue ==
  \A c \in Channels :
    /\ \A i \in DOMAIN points[c] :
         /\ points[c][i].at = [h |-> points[c][i].x, v |-> points[c][i].y, ut |-> points[c][i].ut]
         /\ LET half == IF family = "gthe3" THEN 40 ELSE 80 IN
            (0..half-1) \ reg[c].mask = (half - priv[c].width)..half-1
    /\ priv[c].running => /\ Bits(priv[c].width, priv[c].prescale) >= TARGET
                          /\ reg[c].prescale = priv[c].prescale

\* The files of a scan are complete and true.
ScanTrue == GridComplete /\ PointsTrue

\* A channel is left in reset, or on a PLL that is powered down, or with its
\* receiver and transmitter on different PLLs, or (on a quad with a 25G PLL) on
\* one that is not for the rate of its base table, or with an equaliser table
\* for another rate or another mode than the equaliser is in, only if the very
\* write that was to set this right has failed: load_preset goes on behind
\* every write that fails (xcvr_gtye4.c:443-468).
PresetsCoherent ==
  \A c \in Channels :
    LET r == reg[c]
        Failed(ws) == r.lost \cap ws # {} IN
    /\ r.tx_reset = 0 \/ Failed({"tx_release", "tx_clear"})
    /\ r.rx_reset = 0 \/ Failed({"rx_release", "rx_clear"})
    /\ r.tx_qpll_sel = r.rx_qpll_sel \/ Failed({"tx_qpll_sel", "rx_qpll_sel"})
    /\ (r.tx_qpll_sel = 1 => pll.qpll1_pd = 0) \/ Failed({"qpll1_pd"})
    /\ \/ family \in {"gtye3", "gtye4"} /\ q25g => (r.tx_qpll_sel = 0) = (r.base = "25g")
       \/ Failed({"tx_qpll_sel", "base"})
    /\ r.eq[1] \in {r.base, "any"} \/ Failed({"base", "eq"})
    /\ r.rx_lpm_en = (r.eq[2] = "lpm") \/ Failed({"eq", "rx_lpm_en"})

\* The tool has ended.
ScanEnded == thread.pc \in {"done", "failed", "end"}
============================================================================
