----------------------------- MODULE ClockUnit -----------------------------
(***************************************************************************)
(* The clock generation unit of clk-ar9311-cgu.c: the CPU clock with its   *)
(* two banks and its mirror register, the table of the leaves and one      *)
(* register shared by two of them, and the feedback word of the pixel PLL. *)
(* The clock framework serialises the changes of rate and parent under its *)
(* prepare lock and the gates under its enable lock; the driver's spinlock *)
(* covers each access.                                                     *)
(***************************************************************************)
EXTENDS Naturals, Integers, Sequences, FiniteSets

CONSTANTS
  ParentRate,  \* 0..5 -> the rate of a parent of the CPU clock; 0 is the
               \* oscillator
  MaxDiv,      \* AR_CPU_MAX_DIV
  Requests,    \* rates asked of the CPU clock
  Offsets,     \* the registers of the leaf bank to look at
  LeafRequests,\* rates asked of a leaf that can change its parent
  PixelRate,   \* the rate of the pixel PLL, for the taps of it
  PllNum,      \* parent_rate * AR_PLL_KNUM
  BootWord,    \* the PLL's feedback word at boot
  Unit, Band,  \* the rate is kept within Band parts in Unit of the boot rate
  Slew,        \* 2 ^ AR_PLL_SLEW_SHIFT
  PixelRates   \* rates asked of the pixel PLL

VARIABLES
  cpu,      \* the CPU clock's [reg, mirror], two registers of [run, bank, banks]
  cpu_op,   \* the change under way: [at, mux, div, from, to, asked]
  crg,      \* [camera, own, want]: whether the board has a camera, and of the
            \* register looked at: "lo", "hi" -> the set of its leaf, and the
            \* rate that leaf was last set to
  leaf,     \* "lo", "hi" -> [sel, div, gate], that register
  asked,    \* what each half of it was last told
  snap,     \* "gate", "mux" -> the register as read by the operation, or NoChange
  cgu_lock, \* who holds the driver's spinlock
  pll,      \* [word, before, goal]: before the last step, and to be reached
  probed

cguVars == <<cpu, cpu_op, crg, leaf, asked, snap, cgu_lock, pll, probed>>

Half == {"lo", "hi"}
Free == "free"
NoChange == [at |-> "none"]

Larger(a, b) == IF a > b THEN a ELSE b
Smaller(a, b) == IF a < b THEN a ELSE b
Apart(a, b) == IF a > b THEN a - b ELSE b - a

(***************************************************************************)
(* The CPU clock.  run is bit 30 (0: the oscillator bypasses the banks),   *)
(* bank is bit 31, and each bank has a mux, a divider and a gate.          *)
(***************************************************************************)

Bank == [mux : 0..7, div : 0..(MaxDiv - 1), on : BOOLEAN]

\* ar9311_cpu_get_parent and ar9311_cpu_recalc_rate
get_parent(reg) == IF reg.run THEN reg.banks[reg.bank].mux ELSE 0

Rate(parent, div) == ParentRate[parent] \div (div + 1)

recalc_rate(reg) ==
  IF reg.run THEN Rate(reg.banks[reg.bank].mux, reg.banks[reg.bank].div)
             ELSE ParentRate[0]

\* The CPU has a clock: the bypass, or a bank that is gated on.
Clocked(reg) == reg.run => reg.banks[reg.bank].on

\* ar9311_cpu_determine_rate: for each parent the dividers that bracket the
\* request, those past MaxDiv left out.
Bracket(parent, req) ==
  LET div == IF req = 0 THEN MaxDiv ELSE ParentRate[parent] \div req IN
  Larger(div, 1)..Smaller(div + 1, MaxDiv)

Candidates(req) ==
  UNION {{<<p, d - 1>> : d \in Bracket(p, req)} : p \in DOMAIN ParentRate}

Error(c, req) == Apart(Rate(c[1], c[2]), req)

\* The first of the closest, and closer than no clock at all.
Earlier(c, e) == c[1] < e[1] \/ (c[1] = e[1] /\ c[2] =< e[2])

determine_rate(req) ==
  LET better == {c \in Candidates(req) : Error(c, req) < req}
      best == {c \in better : \A e \in better : Error(c, req) =< Error(e, req)}
  IN  {c \in best : \A e \in best : Earlier(c, e)}

\* DIV_ROUND_CLOSEST, clamped; what set_rate programs for the rate chosen
Divider(parent, rate) ==
  LET d == (ParentRate[parent] + rate \div 2) \div rate IN
  Smaller(Larger(d, 1), MaxDiv) - 1

\* Mutant: the running bank is programmed.
IdleRunning(reg) == IF ~reg.run THEN 0 ELSE reg.bank

\* The bank ar9311_cpu_program_one writes, and its first and second write.
Idle(reg) == IF ~reg.run THEN 0 ELSE 1 - reg.bank

Prepared(reg, mux, div) ==
  [reg EXCEPT !.bank = IF reg.run THEN @ ELSE 0,
              !.banks[Idle(reg)] = [mux |-> mux, div |-> div, on |-> TRUE]]

Flipped(reg) == [reg EXCEPT !.run = TRUE, !.bank = Idle(reg)]

\* clk_set_rate on the CPU clock, under the spinlock from here on
CpuSetRate(req) ==
  /\ probed /\ cpu_op = NoChange /\ cgu_lock = Free
  /\ \E c \in determine_rate(req) :
       LET rate == Rate(c[1], c[2]) IN
       /\ rate # 0
       /\ cpu_op' = [at |-> "reg", mux |-> c[1], div |-> Divider(c[1], rate),
                     from |-> recalc_rate(cpu.reg), to |-> rate, asked |-> req]
  /\ cgu_lock' = "cpu"
  /\ UNCHANGED <<cpu, crg, leaf, asked, snap, pll, probed>>

CpuPrepare(r, next) ==
  /\ cpu_op.at = r
  /\ cpu' = [cpu EXCEPT ![r] = Prepared(@, cpu_op.mux, cpu_op.div)]
  /\ cpu_op' = [cpu_op EXCEPT !.at = next]
  /\ UNCHANGED <<crg, leaf, asked, snap, cgu_lock, pll, probed>>

CpuFlip ==
  /\ cpu_op.at = "flip"
  /\ cpu' = [cpu EXCEPT !.reg = Flipped(@)]
  /\ cpu_op' = [cpu_op EXCEPT !.at = "mirror"]
  /\ UNCHANGED <<crg, leaf, asked, snap, cgu_lock, pll, probed>>

CpuFlipMirror ==
  /\ cpu_op.at = "flip_mirror"
  /\ cpu' = [cpu EXCEPT !.mirror = Flipped(@)]
  /\ cpu_op' = [cpu_op EXCEPT !.at = "done"]
  /\ cgu_lock' = Free
  /\ UNCHANGED <<crg, leaf, asked, snap, pll, probed>>

CpuReturns ==
  /\ cpu_op.at = "done"
  /\ cpu_op' = NoChange
  /\ UNCHANGED <<cpu, crg, leaf, asked, snap, cgu_lock, pll, probed>>

(***************************************************************************)
(* The sources and the leaves.  A leaf owns the low half of its register   *)
(* (a select, a divider and a gate), the high half, both of them, or one   *)
(* bit; its parents are in the order of the select.                        *)
(***************************************************************************)

SourceRate ==
  [cgu_oscin_clk |-> 24000000,
   fix_pll_clk50 |-> 50000000, fix_pll_clk100 |-> 100000000,
   fix_pll_clk125 |-> 125000000, fix_pll_clk250 |-> 250000000,
   fix_pll_clk333 |-> 333333333, fix_pll_clk400 |-> 400000000,
   fix_pll_clk500 |-> 500000000, fix_pll_clk600 |-> 600000000,
   fix_pll_clk666 |-> 666666666, fix_pll_clk800 |-> 800000000,
   fix_pll_clk1000 |-> 1000000000, fix_pll_clk2000 |-> 2000000000,
   adc_pll_clk20 |-> 20000000, adc_pll_clk25 |-> 25000000,
   adc_pll_clk60 |-> 60000000, adc_pll_clk100 |-> 100000000,
   adc_pll_clk150 |-> 150000000, adc_pll_clk300 |-> 300000000,
   adc_pll_clk400 |-> 400000000, adc_pll_clk600 |-> 600000000,
   sd0_fix_clk |-> 0, sd0_sample_clk |-> 0, sd0_drv_clk |-> 0,
   sd1_fix_clk |-> 0, sd1_sample_clk |-> 0, sd1_drv_clk |-> 0,
   emmc_fix_clk |-> 0, emmc_sample_clk |-> 0, emmc_drv_clk |-> 0,
   clk_audio_dig |-> 0, audio_pll_clk |-> 0, mipi_tx_pll_div2 |-> 445500000,
   pixel_pll_clk |-> PixelRate, pixel_pll_clk1 |-> PixelRate,
   pixel_pll_clk2 |-> PixelRate \div 2, pixel_pll_clk3 |-> PixelRate \div 4,
   pixel_pll_clk4 |-> PixelRate \div 8]

Osc == "cgu_oscin_clk"
Inv == "cgu_invalid"

\* The parents every fast leaf shares, after the first
Common == <<"fix_pll_clk500", "fix_pll_clk400", "fix_pll_clk333",
            "adc_pll_clk600", "adc_pll_clk400", "pixel_pll_clk", "audio_pll_clk">>
GenericOsc == <<Osc>> \o Common
Generic666 == <<"fix_pll_clk666">> \o Common
Pixels == <<"pixel_pll_clk1", "pixel_pll_clk2", "pixel_pll_clk3", "pixel_pll_clk4">>
Sensor == <<Osc>> \o Pixels \o <<"pixel_pll_clk", Inv, Inv>>
Dvp == <<"adc_pll_clk600">> \o Pixels
         \o <<"fix_pll_clk1000", "fix_pll_clk666", "mipi_tx_pll_div2">>
Npu == <<Osc, "fix_pll_clk800", "fix_pll_clk666", "fix_pll_clk500",
         "fix_pll_clk400", "adc_pll_clk600", "adc_pll_clk400", "pixel_pll_clk">>
CpuParents == <<Osc, "fix_pll_clk1000", "fix_pll_clk800", "fix_pll_clk666",
                "adc_pll_clk600", "adc_pll_clk400", "pixel_pll_clk", Inv>>
First(list) == list \o [i \in 1..(8 - Len(list)) |-> Inv]

On(bank, off, half, name, parents, caps) ==
  [bank |-> bank, off |-> off, half |-> half, name |-> name,
   parents |-> parents, caps |-> caps]
ReadOnly(off, half, name, parents) == On(1, off, half, name, parents, {})
Camera(off, half, name, parents, more) ==
  On(1, off, half, name, parents, {"gate"} \cup more)

ar9311_leaves ==
  <<ReadOnly(\h00, "dual", "cgu_axi_clk", GenericOsc),
    ReadOnly(\h04, "dual", "cgu_sys_clk",
             <<Osc, "adc_pll_clk300">> \o Tail(Common)),
    Camera(\h0c, "lo", "cgu_isp_clk", Generic666, {"div"}),
    Camera(\h0c, "hi", "cgu_isp_hdr_clk", Generic666, {"div"}),
    Camera(\h10, "lo", "cgu_vif_axi_clk", Generic666, {"div"}),
    ReadOnly(\h10, "hi", "cgu_dla_clk",
             SubSeq(Npu, 2, 8) \o <<"mipi_tx_pll_div2">>),
    Camera(\h14, "lo", "cgu_rsz_clk", GenericOsc, {}),
    ReadOnly(\h14, "hi", "cgu_de_clk", GenericOsc),
    Camera(\h18, "lo", "cgu_venc_clk", GenericOsc, {"mux", "exact"}),
    ReadOnly(\h18, "hi", "cgu_jpeg_clk", GenericOsc),
    Camera(\h1c, "lo", "cgu_mipi_csi_0_clk", GenericOsc, {"div"}),
    Camera(\h1c, "hi", "cgu_mipi_csi_1_clk", GenericOsc, {}),
    Camera(\h20, "lo", "cgu_mipi_pcs_clk", GenericOsc, {"div"}),
    ReadOnly(\h20, "hi", "cgu_sd0_fix_clk", First(<<"sd0_fix_clk">>)),
    ReadOnly(\h24, "lo", "cgu_sd0_sample_clk", First(<<"sd0_sample_clk">>)),
    ReadOnly(\h24, "hi", "cgu_sd0_drv_clk", First(<<"sd0_drv_clk">>)),
    ReadOnly(\h28, "lo", "cgu_sd1_fix_clk", First(<<"sd1_fix_clk">>)),
    ReadOnly(\h28, "hi", "cgu_sd1_sample_clk", First(<<"sd1_sample_clk">>)),
    ReadOnly(\h2c, "lo", "cgu_sd1_drv_clk", First(<<"sd1_drv_clk">>)),
    ReadOnly(\h2c, "hi", "cgu_emmc_fix_clk", First(<<"emmc_fix_clk">>)),
    ReadOnly(\h30, "lo", "cgu_emmc_sample_clk", First(<<"emmc_sample_clk">>)),
    ReadOnly(\h30, "hi", "cgu_emmc_drv_clk", First(<<"emmc_drv_clk">>)),
    ReadOnly(\h34, "lo", "cgu_qspi_clk", Generic666),
    ReadOnly(\h34, "hi", "cgu_i2s_mclk", First(<<Osc, "audio_pll_clk">>)),
    ReadOnly(\h204, "bit15", "cgu_i2s_mst0_sclk", First(<<"cgu_i2s_mclk">>)),
    ReadOnly(\h204, "bit31", "cgu_i2s_mst1_sclk", First(<<"cgu_i2s_mclk">>)),
    ReadOnly(\h38, "lo", "cgu_usb_phy0_clk", First(<<Osc>>)),
    ReadOnly(\h38, "hi", "cgu_audio_300m", First(<<"clk_audio_dig">>)),
    ReadOnly(\h3c, "lo", "cgu_gmac_core_clk",
             First(<<Osc, "fix_pll_clk500", "fix_pll_clk1000">>)),
    ReadOnly(\h3c, "hi", "cgu_gmac_phy_clk",
             First(<<Osc, "fix_pll_clk500", "fix_pll_clk1000">>)),
    ReadOnly(\h40, "lo", "cgu_hdecomp_clk",
             <<Osc, "fix_pll_clk666", "fix_pll_clk500", "fix_pll_clk400">>
               \o SubSeq(Common, 4, 7)),
    ReadOnly(\h40, "hi", "cgu_efuse_clk",
             First(<<Osc, "fix_pll_clk100", "fix_pll_clk400", "fix_pll_clk333",
                     "fix_pll_clk250">>)),
    Camera(\h44, "lo", "cgu_sensor_mclk0", Sensor, {"mux", "div"}),
    ReadOnly(\h44, "hi", "cgu_sensor_mclk1", Sensor),
    ReadOnly(\h48, "lo", "cgu_sensor_mclk2", Sensor),
    ReadOnly(\h48, "hi", "cgu_dvp_pattern_clk", Dvp),
    ReadOnly(\h4c, "hi", "cgu_nuc_clk",
             <<"adc_pll_clk600">> \o Pixels
               \o <<"fix_pll_clk666", "fix_pll_clk500", "mipi_tx_pll_div2">>),
    ReadOnly(\h50, "lo", "cgu_scgmac_ptp_clk",
             First(<<Osc, "fix_pll_clk1000", "fix_pll_clk500", "fix_pll_clk250">>)),
    ReadOnly(\h50, "hi", "cgu_scgmac_rgmiitx_clk",
             First(<<Osc, "fix_pll_clk1000", "fix_pll_clk500", "fix_pll_clk250",
                     "adc_pll_clk25", "adc_pll_clk20">>)),
    ReadOnly(\h54, "lo", "cgu_scgmac_mdc_clk",
             First(<<Osc, "fix_pll_clk250", "fix_pll_clk125", "fix_pll_clk50",
                     "adc_pll_clk25", "adc_pll_clk20">>)),
    ReadOnly(\h08, "dual", "cgu_npu_clk", Npu),
    ReadOnly(\h58, "lo", "cgu_npu_aclk", Npu),
    ReadOnly(\h58, "hi", "cgu_ifc_clk", GenericOsc),
    ReadOnly(\h5c, "lo", "cgu_eis_clk", GenericOsc),
    ReadOnly(\h5c, "hi", "cgu_scaler_clk", GenericOsc),
    ReadOnly(\h200, "lo", "cgu_gen_clk",
             <<"fix_pll_clk500", "fix_pll_clk100", "sd0_fix_clk", "adc_pll_clk600",
               "adc_pll_clk25", "audio_pll_clk", "pixel_pll_clk", "pixel_pll_clk1">>),
    On(0, \h10, "lo", "cgu_cs_dbg_clk", CpuParents, {})>>

\* The clocks outside of the table that are registered on their own: the pixel
\* leaf and the CPU clock.
pixel_leaf == On(1, \h4c, "lo", "cgu_dvp_sub_1_2x_pix_clk", Dvp, {"gate"})
cpu_leaf == On(0, \h08, "dual", "cgu_cpu_clk", CpuParents, {})

\* What a device tree refers to, by position from 0
ar9311_pinned_leaves ==
  {<<2, "cgu_isp_clk">>, <<3, "cgu_isp_hdr_clk">>, <<4, "cgu_vif_axi_clk">>,
   <<8, "cgu_venc_clk">>, <<10, "cgu_mipi_csi_0_clk">>,
   <<11, "cgu_mipi_csi_1_clk">>, <<12, "cgu_mipi_pcs_clk">>,
   <<32, "cgu_sensor_mclk0">>}

check_provider_indices ==
  \A p \in ar9311_pinned_leaves :
    p[1] < Len(ar9311_leaves) /\ ar9311_leaves[p[1] + 1].name = p[2]

\* The vendor's select and divider of each camera leaf
ar9311_camera_defaults ==
  [cgu_isp_clk |-> <<3, 0>>, cgu_isp_hdr_clk |-> <<3, 0>>,
   cgu_vif_axi_clk |-> <<3, 0>>, cgu_mipi_csi_0_clk |-> <<2, 1>>,
   cgu_mipi_pcs_clk |-> <<1, 3>>, cgu_sensor_mclk0 |-> <<0, 0>>]

\* ar9311_leaf_div_shift and ar9311_leaf_gate_bit: the halves that have them
has_div(half) == half \in {"lo", "hi"}
has_gate(half) == half \in {"lo", "hi", "dual"}

\* The operations the probe gives a leaf: with a divider it has no settable
\* parent, whatever else its capabilities say.
Ops(d) ==
  IF "div" \in d.caps THEN "gate_div"
  ELSE IF "exact" \in d.caps THEN "gate_mux_exact"
  ELSE IF "mux" \in d.caps THEN "gate_mux"
  ELSE IF "gate" \in d.caps THEN "gate" ELSE "none"

(***************************************************************************)
(* The leaves of one register: ar9311_leaf_set_gate under the framework's  *)
(* enable lock, ar9311_leaf_set_parent under its prepare lock.             *)
(***************************************************************************)

\* The leaf of a half of the register at off, if there is one
LeafAt(off, h) ==
  {d \in {ar9311_leaves[i] : i \in DOMAIN ar9311_leaves} :
     d.bank = 1 /\ d.off = off /\ d.half = h}

\* A parent that is not registered has no rate; 0 is a rate not known.
Registered(d, sel) == d.parents[sel + 1] \in DOMAIN SourceRate
RateOf(d, sel) ==
  IF Registered(d, sel) THEN SourceRate[d.parents[sel + 1]] ELSE 0

\* ar9311_leaf_recalc_rate, rounding up; without it the rate of the parent
leaf_recalc_rate(d, field) ==
  IF Ops(d) = "gate_div" /\ has_div(d.half)
  THEN (RateOf(d, field.sel) + field.div) \div (field.div + 1)
  ELSE RateOf(d, field.sel)

\* ar9311_leaf_determine_rate_exact: the first parent of that very rate
ExactParent(d, req) ==
  LET exact == {sel \in 0..7 : Registered(d, sel) /\ RateOf(d, sel) = req}
  IN  {sel \in exact : \A s \in exact : sel =< s}

LeafReads(op, told) ==
  /\ probed /\ cgu_lock = Free
  /\ cgu_lock' = op
  /\ snap' = [snap EXCEPT ![op] = leaf]
  /\ asked' = told

GateReads(h) ==
  /\ \E d \in crg.own[h] : Ops(d) # "none" /\ has_gate(d.half)
  /\ LeafReads("gate", [asked EXCEPT ![h].gate = ~@])
  /\ UNCHANGED <<cpu, cpu_op, crg, leaf, pll, probed>>

\* clk_set_rate: nothing to do at that rate already; a refused one changes
\* nothing.
MuxReads(h, req) ==
  /\ cpu_op = NoChange
  /\ \E d \in crg.own[h] :
       /\ Ops(d) = "gate_mux_exact"
       /\ leaf_recalc_rate(d, leaf[h]) # req
       /\ \E sel \in ExactParent(d, req) :
            LeafReads("mux", [asked EXCEPT ![h].sel = sel])
  /\ crg' = [crg EXCEPT !.want[h] = req]
  /\ UNCHANGED <<cpu, cpu_op, leaf, pll, probed>>

\* Every other field is written back as it was read.
Written(op) ==
  [h \in Half |-> IF op = "gate" THEN [snap[op][h] EXCEPT !.gate = asked[h].gate]
                                 ELSE [snap[op][h] EXCEPT !.sel = asked[h].sel]]

LeafWrites(op) ==
  /\ cgu_lock = op
  /\ leaf' = Written(op)
  /\ cgu_lock' = Free
  /\ snap' = [snap EXCEPT ![op] = NoChange]
  /\ UNCHANGED <<cpu, cpu_op, crg, asked, pll, probed>>

\* ar9311_apply_camera_defaults, on a board that has a camera: parent and
\* divider of the leaves named, the gates and the other halves left as they are
Defaulted(h, field) ==
  LET named == {d \in crg.own[h] : d.name \in DOMAIN ar9311_camera_defaults} IN
  IF ~crg.camera \/ named = {} THEN field
  ELSE LET c == ar9311_camera_defaults[(CHOOSE d \in named : TRUE).name]
       IN  [field EXCEPT !.sel = c[1], !.div = c[2]]

\* ar9311_cgu_probe, before the leaves are registered
Probe ==
  /\ ~probed /\ check_provider_indices
  /\ probed' = TRUE
  /\ leaf' = [h \in Half |-> Defaulted(h, leaf[h])]
  /\ asked' = leaf'
  /\ UNCHANGED <<cpu, cpu_op, crg, snap, cgu_lock, pll>>

(***************************************************************************)
(* The pixel PLL.  A larger word is a slower clock.                        *)
(***************************************************************************)

BootRate == PllNum \div BootWord
Lowest == (BootRate \div Unit) * (Unit - Band)
Highest == (BootRate \div Unit) * (Unit + Band)

\* ar9311_pixel_pll_clamp and the word for a rate
clamped(rate) == Smaller(Larger(rate, Lowest), Highest)
WordFor(rate) == PllNum \div clamped(rate)

PllSetRate(rate) ==
  /\ probed /\ cpu_op = NoChange /\ pll.word = pll.goal
  /\ pll' = [pll EXCEPT !.goal = WordFor(rate)]
  /\ UNCHANGED <<cpu, cpu_op, crg, leaf, asked, snap, cgu_lock, probed>>

\* One step of the ramp, under the spinlock; it sleeps after each.
Ramped(word, goal) ==
  LET step == Larger(word \div Slew, 1) IN
  IF word < goal THEN Smaller(goal, word + step) ELSE Larger(goal, word - step)

PllStep ==
  /\ pll.word # pll.goal /\ cgu_lock = Free
  /\ pll' = [pll EXCEPT !.word = Ramped(@, pll.goal), !.before = pll.word]
  /\ UNCHANGED <<cpu, cpu_op, crg, leaf, asked, snap, cgu_lock, probed>>

CguInit ==
  /\ \E run \in BOOLEAN :
       LET reg == [run |-> run, bank |-> 0,
                   banks |-> [b \in {0, 1} |->
                                [mux |-> 1, div |-> 0, on |-> run]]]
       IN  cpu = [reg |-> reg, mirror |-> reg]
  /\ cpu_op = NoChange
  /\ \E off \in Offsets, camera \in BOOLEAN :
       crg = [camera |-> camera, own |-> [h \in Half |-> LeafAt(off, h)],
              want |-> [h \in Half |-> 0]]
  /\ leaf = [h \in Half |->
              [sel |-> 4, gate |-> h = "lo",
               div |-> IF \E d \in crg.own[h] : "exact" \in d.caps THEN 0 ELSE 1]]
  /\ asked = leaf /\ snap = [op \in {"gate", "mux"} |-> NoChange]
  /\ cgu_lock = Free
  /\ pll = [word |-> BootWord, before |-> BootWord, goal |-> BootWord]
  /\ probed = FALSE

CguNext ==
  \/ \E req \in Requests : CpuSetRate(req)
  \/ CpuPrepare("reg", "flip") \/ CpuFlip
  \/ CpuPrepare("mirror", "flip_mirror") \/ CpuFlipMirror \/ CpuReturns
  \/ \E h \in Half : GateReads(h) \/ \E req \in LeafRequests : MuxReads(h, req)
  \/ LeafWrites("gate") \/ LeafWrites("mux")
  \/ Probe \/ PllStep
  \/ \E rate \in PixelRates : PllSetRate(rate)

CguSpec == CguInit /\ [][CguNext]_cguVars

(***************************************************************************)
(* Properties.                                                             *)
(***************************************************************************)

\* The CPU is clocked at every instant: at the rate before the change until
\* the one write that flips the bank, at the one asked for from then on; and
\* the mirror follows.
CpuSteady ==
  /\ Clocked(cpu.reg)
  /\ cpu_op.at \in {"reg", "flip"} => recalc_rate(cpu.reg) = cpu_op.from
  /\ cpu_op.at \in {"mirror", "flip_mirror", "done"} =>
       recalc_rate(cpu.reg) = cpu_op.to
  /\ cpu_op = NoChange => cpu.mirror = cpu.reg

\* No parent and divider give a rate closer to the one asked for.
CpuClosest ==
  cpu_op.at = "reg" =>
    \A p \in DOMAIN ParentRate, d \in 0..(MaxDiv - 1) :
      Apart(cpu_op.to, cpu_op.asked) =< Apart(Rate(p, d), cpu_op.asked)

\* No operation on a leaf undoes another on the same register.
LeavesKept == cgu_lock \notin {"gate", "mux"} => leaf = asked

\* No two clocks share a field, each capability has its field, and the
\* positions a device tree refers to are those of the clocks meant.
Clocks == {ar9311_leaves[i] : i \in DOMAIN ar9311_leaves} \cup {pixel_leaf, cpu_leaf}
Owns(d) == IF d.half = "dual" THEN {"lo", "hi"} ELSE {d.half}
TableSound == ~probed =>
  /\ Cardinality(Clocks) = Len(ar9311_leaves) + 2
  /\ \A d, e \in Clocks :
       d.bank = e.bank /\ d.off = e.off /\ d # e => Owns(d) \cap Owns(e) = {}
  /\ \A d \in Clocks : /\ Len(d.parents) = 8
                       /\ "gate" \in d.caps => has_gate(d.half)
                       /\ d.caps \cap {"div", "mux"} # {} => has_div(d.half)
                       /\ d.name \in DOMAIN ar9311_camera_defaults =>
                            Ops(d) = "gate_div"
  /\ check_provider_indices

\* With a camera its leaves run at the vendor's rates once the unit is probed,
\* whatever happens to the gates and to the leaf in the other half.
CameraRate == [cgu_isp_clk |-> 333333333, cgu_isp_hdr_clk |-> 333333333,
               cgu_vif_axi_clk |-> 333333333, cgu_mipi_csi_0_clk |-> 200000000,
               cgu_mipi_pcs_clk |-> 125000000, cgu_sensor_mclk0 |-> 24000000]
CameraClocked ==
  probed /\ crg.camera =>
    \A h \in Half : \A d \in crg.own[h] :
      d.name \in DOMAIN CameraRate =>
        leaf_recalc_rate(d, leaf[h]) = CameraRate[d.name]

\* A rate set on a leaf of exact rates is the rate it runs at.
RateExact ==
  cgu_lock # "mux" =>
    \A h \in Half : \A d \in crg.own[h] :
      crg.want[h] # 0 => leaf_recalc_rate(d, leaf[h]) = crg.want[h]

\* The PLL moves in steps the panel does not notice, within its band.
PllSmooth ==
  /\ Apart(pll.word, pll.before) =< Larger(pll.before \div Slew, 1)
  /\ WordFor(Highest) =< pll.word /\ pll.word =< WordFor(Lowest)

ClocksSteady ==
  /\ CpuSteady /\ CpuClosest /\ PllSmooth
  /\ TableSound /\ LeavesKept /\ CameraClocked /\ RateExact
=============================================================================
