------------------------------- MODULE IspGates -------------------------------
(***************************************************************************)
(* The stage gates of the ISP.  vendor-tables/ar-isp-gates.h says which    *)
(* bit of which register runs a stage and which flag of the tuning file    *)
(* asks for it; ar_isp_gates_veto of ar-isp-main.c makes the registers     *)
(* follow the file, or only counts, and ar_isp_gates_show judges them.  A  *)
(* mask is the set of its bits.  Registers do not affect each other, so    *)
(* one of them is looked at, with its gates in the order of the table.     *)
(*                                                                         *)
(* The second part is the page of tone curves that a program feeds through *)
(* ltm_page: written in pieces, published when the file is closed.         *)
(***************************************************************************)
EXTENDS Naturals, Sequences, FiniteSets, SequencesExt

CONSTANTS
  Sizes,       \* sizes of a tuning file; 0: there is none
  MaxPasses,   \* vetoes: each configure of the block makes one
  Feeder,      \* open files of ltm_page
  PageSize,    \* AR_ISP_LTM_PAGE_SIZE, in pieces
  Pieces,      \* sizes of a write
  MaxPages     \* pages published

VARIABLES
  row,     \* the gates of the register, in table order
  blob,    \* [size, on]: the tuning file and the flags in it that are not 0
  gates,   \* the module parameter: vetoes are written
  boot,    \* the register before the first veto
  live,    \* the register
  scan,    \* the gate the veto is at; 0 between vetoes
  found,   \* its deviations so far
  vetoes,  \* vetoes made
  feed,    \* feeder -> [open, pos, filled, have, moved]: the pieces its buffer
           \* holds, and whether it wrote elsewhere than where it was
  pages    \* [have, moved] of each page published, in order

gateVars == <<row, blob, gates, boot, live, scan, found, vetoes>>
feedVars == <<feed, pages>>

(***************************************************************************)
(* The table.                                                              *)
(***************************************************************************)

Gate(reg, kind, set, clear) == [reg |-> reg, kind |-> kind, set |-> set, clear |-> clear]
Enable(reg, bit) == Gate(reg, "enable", {bit}, {bit})
EnableWith(reg, bit, clear) == Gate(reg, "enable", {bit}, clear)
Bypass(reg, bit) == Gate(reg, "bypass", {bit}, {bit})
Word(reg) == Gate(reg, "word", {}, {})
Unknown(reg, bit, clear) == Gate(reg, "unknown", {bit}, clear)

\* A stage with flag 0 reads none.
Stage(name, flag, list) == [name |-> name, flag |-> flag, list |-> list]

\* AR_ISP_STAGE_HW_RB: what these read back is not what was written.
HwReadback == {"dpc"}

\* acm to ir_stats, and the rest of the table
FirstStages ==
  <<Stage("acm", \h0b00b8, <<Bypass(\h7600, 0)>>),
    Stage("af_stats", \h0d5484, <<Enable(\h7400, 0), Word(\h75ac), Word(\h75b0)>>),
    Stage("awbs_stats", \h0bbe98, <<Enable(\h6c00, 0)>>),
    Stage("binning_filter", \h0b6348, <<Enable(\h3c40, 0)>>),
    Stage("birnr", \h0b3550, <<Bypass(\h1800, 0)>>),
    Stage("blc", \h24, <<EnableWith(0, 2, {2, 10})>>),
    Stage("ccm1", \h0253fc, <<EnableWith(0, 21, {21, 23})>>),
    Stage("cfa", 0, <<Unknown(\h0800, 16, {16})>>),
    Stage("cm", \h089cfc, <<Word(\h4838)>>),
    Stage("cm2", \h0a1304, <<Enable(\h4800, 0)>>),
    Stage("cnf", \h08e198, <<Enable(\h3c64, 0)>>),
    Stage("compander", \h006cc4, <<EnableWith(0, 5, {5, 13}), EnableWith(0, 13, {5, 13})>>),
    Stage("de3d", 0, <<Unknown(\h2e00, 0, {0})>>),
    Stage("decompander", \h00906c, <<Enable(0, 17)>>),
    Stage("derolling_stats", \h0b64f8, <<Enable(\h3900, 0), Enable(\h3900, 6)>>),
    Stage("digigain1", \h0b4000, <<Bypass(0, 4)>>),
    Stage("dpc", \h006ce8, <<Enable(\h0c10, 0), Bypass(\h0c10, 1), Bypass(\h0c10, 2)>>),
    Stage("drc", \h017a88, <<EnableWith(0, 19, {19, 20}), Enable(\h18, 16)>>),
    Stage("drc_stats", 0, <<Unknown(\h300c, 18, {18})>>),
    Stage("face_rro_stats", \h0b64f8, <<Word(\h64c8)>>),
    Stage("fpn", 0, <<Unknown(\h4400, 4, {4})>>),
    Stage("gamma", \h026afc, <<EnableWith(0, 29, {29, 30}), Bypass(\h18, 17)>>),
    Stage("gib", \h0243e4, <<Bypass(\h2408, 30)>>),
    Stage("gtm2", \h07abd8, <<Enable(\h2800, 4), Enable(\h2800, 11)>>),
    Stage("hdr_awbs_stats", \h0bbe98, <<Word(\h1e4c)>>),
    Stage("hdr_lsc", \h0a16c0, <<Word(\h1df0), Word(\h1e34)>>),
    Stage("ir_lms_horz", \h0b4ee4, <<Word(\h8604)>>),
    Stage("ir_nbbc", 0, <<Unknown(\h9000, 0, {0})>>),
    Stage("ir_rnr", \h0b2bf4, <<Bypass(\h8400, 0)>>),
    Stage("ir_stats", 0, <<Unknown(\h8a10, 0, {0}), Unknown(\h8a24, 0, {0}),
                           Unknown(\h8a24, 4, {4})>>)>>

LastStages ==
  <<Stage("lee_lnr", \h089e88, <<Enable(\h3cc8, 0)>>),
    Stage("lms", \h0b288c, <<Word(\h7268)>>),
    Stage("lsc", \h009090,
          <<Enable(\h4c00, 0)>> \o [i \in 1..3 |-> EnableWith(\h4c24, <<2, 4, 5>>[i], 0..7)]),
    Stage("ltm", 0, <<Unknown(\h2800, 4, {4}), Unknown(\h2800, 11, {11})>>),
    Stage("lut3d", \h07b634,
          <<EnableWith(\h5800, 0, {0, 1}), Word(\h580c), Word(\h5824), Word(\h583c),
            Word(\h5854), Word(\h5864)>>),
    Stage("nuc_dpc", 0, <<Unknown(\h7238, 7, {7})>>),
    Stage("qgg", 0, <<Unknown(\h7230, 0, 0..3)>>),
    Stage("raw_3dnr", \h0b500c,
          <<Enable(\h4000, 0), Unknown(\h4000, 1, {1, 2}), Unknown(\h4000, 2, {1, 2}),
            Unknown(\h4000, 6, 6..13), Unknown(\h4000, 7, 6..13),
            EnableWith(\h4000, 8, 6..13), EnableWith(\h4000, 9, 6..13)>>),
    Stage("raw_his_stats", \h0b64f8, <<Enable(\h6000, 0)>>),
    Stage("rgb2yuv", 0, <<Unknown(0, 31, {28, 31})>>),
    Stage("rgb_his_stats", \h0b64f8, <<Enable(\h5c00, 0)>>),
    Stage("rgb_max_stats", \h0b64f8, <<Word(\h5400)>>),
    Stage("rnr", \h0079d8, <<Bypass(\h1800, 0)>>),
    Stage("rro_stats", \h0b64f8, <<Enable(\h6400, 0)>>),
    Stage("wb", 0, <<Word(\h5000)>>)>>

ar_isp_stages == FirstStages \o LastStages

\* Every gate of a stage, with the stage's name and flag
Gates(st) ==
  [i \in DOMAIN st.list |->
     [stage |-> st.name, flag |-> st.flag, kind |-> st.list[i].kind,
      reg |-> st.list[i].reg, set |-> st.list[i].set, clear |-> st.list[i].clear]]
AllGates == FlattenSeq([i \in DOMAIN ar_isp_stages |-> Gates(ar_isp_stages[i])])
Registers == {AllGates[i].reg : i \in DOMAIN AllGates}
Row(reg) == SelectSeq(AllGates, LAMBDA g : g.reg = reg)

(***************************************************************************)
(* The veto and the report.                                                *)
(***************************************************************************)

\* The file says something of a stage.
Told(g) == blob.size # 0 /\ g.flag # 0 /\ g.flag + 4 =< blob.size
Skipped(g) == ~Told(g) \/ g.stage \in HwReadback
Want(g) == g.flag \in blob.on

Fixed(g, word) ==
  CASE g.kind = "enable" -> IF Want(g) THEN word \cup g.set ELSE word \ g.clear
    [] g.kind = "bypass" -> IF Want(g) THEN word \ g.clear ELSE word \cup g.set
    [] g.kind = "word" -> IF Want(g) THEN word ELSE {}
    [] OTHER -> word

\* ar_isp_gates_show: whether a gate reads as running, and which are judged
Running(g, word) ==
  CASE g.kind = "enable" -> word \cap g.set # {}
    [] g.kind = "bypass" -> word \cap g.set = {}
    [] OTHER -> word # {}
Judged(g) == ~Skipped(g) /\ g.kind \in {"enable", "bypass"}
Mismatches(word) ==
  {i \in DOMAIN row : Judged(row[i]) /\ Running(row[i], word) # Want(row[i])}

VetoStart ==
  /\ scan = 0 /\ vetoes < MaxPasses
  /\ blob.size # 0
  /\ scan' = 1 /\ found' = 0
  /\ UNCHANGED <<row, blob, gates, boot, live, vetoes>>

VetoGate ==
  /\ scan \in DOMAIN row
  /\ LET fixed == IF Skipped(row[scan]) THEN live ELSE Fixed(row[scan], live) IN
       /\ found' = found + (IF fixed = live THEN 0 ELSE 1)
       /\ live' = IF gates THEN fixed ELSE live
  /\ scan' = scan + 1
  /\ UNCHANGED <<row, blob, gates, boot, vetoes>>

VetoDone ==
  /\ scan = Len(row) + 1
  /\ scan' = 0 /\ vetoes' = vetoes + 1
  /\ UNCHANGED <<row, blob, gates, boot, live, found>>

\* The words a boot may leave: none of the gates' bits, all of them, those
\* that are set, those that are only cleared; and a bit that is nobody's.
Foreign == 27
Words(gs) ==
  LET sets == UNION {gs[i].set : i \in DOMAIN gs}
      clears == UNION {gs[i].clear : i \in DOMAIN gs}
  IN  {{Foreign}, {Foreign} \cup sets \cup clears, sets, clears \ sets}

Flags(gs) == {gs[i].flag : i \in DOMAIN gs} \ {0}

GateInit ==
  /\ \E reg \in Registers : row = Row(reg)
  /\ blob \in [size : Sizes, on : SUBSET Flags(row)]
  /\ gates \in BOOLEAN
  /\ boot \in Words(row) /\ live = boot
  /\ scan = 0 /\ found = 0 /\ vetoes = 0

GateNext == VetoStart \/ VetoGate \/ VetoDone

(***************************************************************************)
(* The fed page.                                                           *)
(***************************************************************************)

Empty == [open |-> FALSE, pos |-> 0, filled |-> 0, have |-> {},
          moved |-> FALSE]

PageOpen(f) ==
  /\ ~feed[f].open
  /\ feed' = [feed EXCEPT ![f] = [Empty EXCEPT !.open = TRUE]]
  /\ UNCHANGED pages

\* simple_write_to_buffer: capped at the end of the page; copied are the first
\* of the pieces asked for, and where user memory ends the rest reads zero.
PageWrite(f, n, copied) ==
  LET at == feed[f].pos
      count == IF n < PageSize - at THEN n ELSE PageSize - at
      upto == at + copied
  IN  /\ feed[f].open /\ at < PageSize /\ copied =< count
      /\ feed' = [feed EXCEPT
           ![f].have = (@ \ (at + 1)..(at + count)) \cup (at + 1)..upto,
           ![f].pos = upto,
           ![f].filled = IF copied > 0 /\ upto > @ THEN upto ELSE @]
      /\ UNCHANGED pages

\* llseek
PageSeek(f, to) ==
  /\ feed[f].open /\ to # feed[f].pos
  /\ feed' = [feed EXCEPT ![f].pos = to, ![f].moved = TRUE]
  /\ UNCHANGED pages

\* A page is published when it was filled to its end, and dropped otherwise.
PageRelease(f) ==
  /\ feed[f].open /\ Len(pages) < MaxPages
  /\ pages' = IF feed[f].filled = PageSize
              THEN Append(pages, [have |-> feed[f].have, moved |-> feed[f].moved])
              ELSE pages
  /\ feed' = [feed EXCEPT ![f] = Empty]

FeedInit == feed = [f \in Feeder |-> Empty] /\ pages = <<>>

FeedNext ==
  \E f \in Feeder :
    \/ PageOpen(f) \/ PageRelease(f)
    \/ \E n \in Pieces : \E copied \in 0..n : PageWrite(f, n, copied)
    \/ \E to \in 0..PageSize : PageSeek(f, to)

(***************************************************************************)
(* Properties.                                                             *)
(***************************************************************************)

\* A gate that another stage's flag drives to the contrary.  In this table
\* there is one such bit: birnr and rnr share the bypass of 0x1800.
Rivals(g) ==
  {i \in DOMAIN row : LET h == row[i] IN
     /\ ~Skipped(h) /\ Want(h) # Want(g)
     /\ (h.set \cup h.clear) \cap g.set # {}}

\* After a veto that writes, every judged gate reads as the file asks, and a
\* second veto finds nothing to do; only rivals keep each other moving.
VetoSettles ==
  /\ scan = 0 /\ vetoes > 0 /\ gates =>
       \A i \in Mismatches(live) : Rivals(row[i]) # {} /\ row[i].reg = \h1800
  /\ scan = 0 /\ vetoes > 1 /\ gates /\ found # 0 =>
       \E i \in DOMAIN row : Rivals(row[i]) # {}

\* One that only counts finds all that the report calls a mismatch.
VetoCounts ==
  scan = 0 /\ vetoes > 0 /\ ~gates =>
    live = boot /\ Cardinality(Mismatches(live)) =< found

\* What no gate of the file owns stays as it was: the bits of the stages that
\* are skipped, of those of unknown polarity, and of nobody.  The tone-mapping
\* stage ltm is the exception the table makes: its bits are also gtm2's.
VetoKeeps ==
  LET acting == {i \in DOMAIN row : ~Skipped(row[i]) /\ row[i].kind # "unknown"}
      owned == UNION {row[i].set \cup row[i].clear : i \in acting}
  IN  /\ (\A i \in acting : row[i].kind # "word") => live \ owned = boot \ owned
      /\ (\E i \in DOMAIN row : row[i].stage \in HwReadback) => live = boot

\* A page published by a feeder that writes on where it was is written from
\* end to end, whatever the sizes of its writes and the faults on the way.  One
\* that seeks can publish a page with a hole: only the highest position counts.
PagesWhole ==
  \A i \in DOMAIN pages : ~pages[i].moved => pages[i].have = 1..PageSize
===============================================================================
