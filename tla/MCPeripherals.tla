----------------------------- MODULE MCPeripherals -----------------------------
(***************************************************************************)
(* The smaller parts, for model checking.  As in MCDevices the first state *)
(* picks the part that moves, and the run covers the sum of their state    *)
(* spaces.                                                                 *)
(***************************************************************************)
EXTENDS SdioMailbox, ScalerJob, MmzZones, MppServices, TLC

CONSTANTS
  g1, g2,        \* a thread in MSG_GET or MSG, and another
  gainA, gainB,   \* gains
  dim, bright,   \* selections of a tone page
  k1, k2         \* kernel mappings

VARIABLES
  part,          \* the part that moves
  tuning, own, tables, param, tone, bank, desc, page, last, passes, word,
  loaded, stale, asked, stores,
  derived,       \* what the arithmetic of the ISP is given
  row, blob, gates, boot, live, scan, found, vetoes, feed, pages

stageVars == <<tuning, own, tables, param, tone, bank, desc, page, last, passes,
               word, loaded, stale, asked, stores>>

Stages == INSTANCE IspStages WITH
  Ladders <- <<"rnr", "cnf">>, Gated <- {"rnr"}, InArm <- {"rnr"},
  Gain <- {gainA, gainB}, Off <- "off", Tone <- {"gamma", "drc"},
  Pick <- {dim, bright}, Scalar <- {"night", "day"},
  PickOf <- [gamma |-> [night |-> bright, day |-> dim],
             drc |-> [night |-> bright, day |-> bright]],
  MaxStores <- 2, todo <- passes, part <- word

\* The arithmetic in a format of six bits; edges in eighths.
Format == INSTANCE SoftFloat WITH Mant <- 6, NormBit <- 15, DivBits <- 9, IntMax <- 500

Edges(lo, hi) == [lo |-> Format!ScaleDown(Format!FromInt(lo), 3),
                  hi |-> Format!ScaleDown(Format!FromInt(hi), 3)]

\* Bands apart, touching, and of one point; the gains are in quarters.
BandTables == {
  <<Edges(8, 17), Edges(24, 31), Edges(33, 56), Edges(56, 63)>>,
  <<Edges(8, 16), Edges(40, 41), Edges(41, 41), Edges(41, 60)>>}

\* Three numbers for the soft float: all significands of the first two
Numbers(exps) == [neg : BOOLEAN, sig : 32..63, exp : exps]
Addends == [neg : BOOLEAN, sig : {32, 35, 63}, exp : {-9, -4, -1, 3}]
             \cup {Format!Zero(FALSE)}
FloatInit ==
  derived \in [kind : {"floats"}, a : {n \in Numbers({-5, 1}) : ~n.neg},
               b : Numbers({-3}), c : Addends]

Maths == INSTANCE IspPages WITH
  latch <- derived,
  Mant <- 6, NormBit <- 15, DivBits <- 9, IntMax <- 500,
  Q <- 2, TShift <- 8, ToneBits <- 5, WordBits <- 14,
  Tables <- BandTables, MaxBands <- 4, Counts <- {0, 3, 4, 9},
  Gains <- {0, 4, 8, 9, 10, 11, 12, 15, 16, 17, 20, 25, 28, 31, 40},
  Words <- {-9, 0, 3, 5, 60, 61},
  Widths <- {128, 131, 640, 1280, 1919, 1920, 1936, 2200},
  Strengths <- {0, 1, 49, 50, 51, 99, 100}, ShiftMax <- 20,
  Records <- 2, Span <- 4, SlotBits <- 5, Levels <- {0, 1, 5, 20}, Most <- 15

\* What sched_clock moves by: it may step back.
ClockSteps == {-2, 1, 3}

NoNode == [start |-> 0, size |-> 0]

\* The zones of the shipped command line, one with a size that does not
\* parse, and two that overlap
ZoneParams ==
  {<<>>, <<[name |-> "sram", start |-> 1, size |-> 2]>>,
   <<[name |-> "sram", start |-> 1, size |-> 0],
     [name |-> "anonymous", start |-> 1, size |-> 3]>>,
   <<[name |-> "sram", start |-> 4, size |-> 2],
     [name |-> "", start |-> 1, size |-> 1]>>}
Nodes == {NoNode, [start |-> 5, size |-> 2]}
BakedZone == [start |-> 7, size |-> 2]

\* A buffer at the start of its segment, a small one and one at the top
Segments == {[base |-> 10, size |-> 13], [base |-> 10, size |-> 52], [base |-> 60, size |-> 8]}

\* One side of an operation, with dimensions that its fields do not hold
Sides == [w : {0, 2, 9}, h : {0, 3, 5}, stride : {0, 4, 5, 10}, buf : Segments,
          off : {0, 2, 3}]

Operation(s, crop, d, n) ==
  [srcw |-> s.w, srch |-> s.h, srcstride |-> s.stride, src |-> s.buf, src_off |-> s.off,
   crop_x |-> crop[1], crop_y |-> crop[2], cropw |-> crop[3], croph |-> crop[4],
   dstw |-> d.w, dsth |-> d.h, dststride |-> d.stride, dst |-> d.buf, dst_off |-> d.off,
   channels |-> n]

Plain == [w |-> 2, h |-> 3, stride |-> 4, buf |-> [base |-> 10, size |-> 24], off |-> 2]

Crops == {<<0, 0, 0, 1>>, <<0, 0, 2, 1>>, <<1, 0, 1, 4>>, <<0, 2, 2, 1>>, <<1, 1, 2, 1>>,
          <<8, 0, 1, 3>>, <<0, 0, 9, 5>>, <<0, 3, 2, 2>>}

JobOps == {Operation(s, c, Plain, n) : s \in Sides, c \in Crops, n \in {1, 2, 5}}
            \cup {Operation(Plain, c, d, n) : d \in Sides, c \in {<<0, 0, 2, 3>>, <<1, 1, 1, 1>>},
                                              n \in {0, 1, 2}}

gateVars == <<row, blob, gates, boot, live, scan, found, vetoes>>
feedVars == <<feed, pages>>

\* No tuning file, one that ends before most flags, and a whole one
Gating == INSTANCE IspGates WITH
  Sizes <- {0, 131072, 1048576}, MaxPasses <- 2,
  Feeder <- {g1, g2}, PageSize <- 2, Pieces <- {1, 2, 3}, MaxPages <- 2

vars == <<part, mboxVars, stageVars, derived, umapVars, scVars, tbVars, zoneVars,
          jobVars, gateVars, feedVars>>

Still == [kind |-> "none"]

Init ==
  /\ part \in {"mailbox", "stages", "maths", "umap", "sysctl", "time", "zones",
             "jobs", "gates", "feed"}
  /\ SvcInit
  /\ ZInit /\ (part = "zones" \/ (mmz = <<>> /\ dt = NoNode))
  /\ IF part = "jobs"
       THEN JobInit
       ELSE job = NoJob /\ frequency = 0 /\ divider = 0 /\ rate = 0
  /\ Gating!FeedInit
  /\ IF part = "gates"
       THEN Gating!GateInit
       ELSE /\ row = <<>> /\ blob = [size |-> 0, on |-> {}] /\ gates = FALSE
            /\ boot = {} /\ live = {} /\ scan = 0 /\ found = 0 /\ vetoes = 0
  /\ MboxInit /\ Stages!StInit
  /\ Cardinality(own) # 1 /\ Cardinality(own) # 2
  /\ part = "stages" \/ (own = {} /\ ~tables /\ ~tuning.loaded
                           /\ \A s \in DOMAIN tuning.gate : ~tuning.gate[s])
  /\ IF part = "maths"
       THEN Maths!LadderInit \/ Maths!BankInit \/ Maths!PageInit \/ FloatInit
       ELSE derived = Still

\* No part but p moves.
Only(p) ==
  /\ UNCHANGED part
  /\ IF p = "mailbox" THEN TRUE ELSE UNCHANGED mboxVars
  /\ IF p = "stages" THEN TRUE ELSE UNCHANGED stageVars
  /\ IF p = "maths" THEN TRUE ELSE UNCHANGED derived
  /\ IF p = "umap" THEN TRUE ELSE UNCHANGED umapVars
  /\ IF p = "sysctl" THEN TRUE ELSE UNCHANGED scVars
  /\ IF p = "time" THEN TRUE ELSE UNCHANGED tbVars
  /\ IF p = "zones" THEN TRUE ELSE UNCHANGED zoneVars
  /\ IF p = "jobs" THEN TRUE ELSE UNCHANGED jobVars
  /\ IF p = "gates" THEN TRUE ELSE UNCHANGED gateVars
  /\ IF p = "feed" THEN TRUE ELSE UNCHANGED feedVars

Next ==
  \/ part = "mailbox" /\ MboxNext /\ Only("mailbox")
  \/ part = "stages" /\ Stages!StNext /\ Only("stages")
  \/ part = "maths" /\ Maths!Latch /\ Only("maths")
  \/ part = "umap" /\ UmNext /\ Only("umap")
  \/ part = "sysctl" /\ ScNext /\ Only("sysctl")
  \/ part = "time" /\ TbNext /\ Only("time")
  \/ part = "zones" /\ ZNext /\ Only("zones")
  \/ part = "jobs" /\ JobNext /\ Only("jobs")
  \/ part = "gates" /\ Gating!GateNext /\ Only("gates")
  \/ part = "feed" /\ Gating!FeedNext /\ Only("feed")

Spec == Init /\ [][Next]_vars

\* Each property is stated and explained in the module it is taken from; it
\* is asked of the part that moves.

\* The registers and pages of the gain stages against what was derived, the
\* gates against the tuning file, and the fed pages
TablesHonoured ==
  /\ part = "stages" =>
       /\ Stages!OracleAgrees
       /\ Stages!PagesTold
       /\ Stages!DescriptorsOurs
  /\ part = "gates" => Gating!VetoSettles /\ Gating!VetoCounts /\ Gating!VetoKeeps
  /\ part = "feed" => Gating!PagesWhole

\* The arithmetic: floating point, the walk of a ladder, banks, pages
GainsBlended ==
  part = "maths" =>
    /\ derived.kind = "floats" => Maths!RoundedOnce(derived.a, derived.b, derived.c)
    /\ Maths!Verbatim
    /\ Maths!Between
BanksBuilt ==
  part = "maths" =>
    /\ Maths!FieldsDisjoint
    /\ Maths!FieldsHold
    /\ Maths!CurvesJoined
    /\ Maths!CoefficientsFit
===============================================================================
