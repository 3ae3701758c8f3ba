------------------------------ MODULE IspStages ------------------------------
(***************************************************************************)
(* What the ISP driver writes into the block, and in which order           *)
(* (ar-isp-main.c, ar-isp-tables.c): recorded tables are replayed first,   *)
(* then the register banks it derives from the tuning file and the pages   *)
(* it owns replace what they left.  A configuration, an output arm, a      *)
(* re-latch of the ladders and one of the tone pages are sequences of      *)
(* passes; the module parameters they read may be stored at any time.      *)
(*                                                                         *)
(* The files take no lock against each other: one of them is written at a  *)
(* time here.                                                              *)
(***************************************************************************)
EXTENDS Naturals, Sequences

CONSTANTS
  Ladders,     \* the stages derived from the gain, in the order applied
  Gated,       \* those whose tuning header has an enable word
  InArm,       \* those whose bank the output-arm table writes too
  Gain, Off,   \* values of their parameters
  Tone,        \* the pages built from a selection
  Pick, Scalar,
  PickOf,      \* the selection of each page at each trigger scalar
  MaxStores    \* bound: stores to parameters

VARIABLES
  tuning,  \* [loaded, gate]: the tuning file, and the enable words in it
  own,     \* the buffers prepare could allocate
  tables,  \* the parameter of that name
  param,   \* the parameter of each stage; "csc" and "ccm" are switches
  tone,    \* [scalar, pinned]: tone_scalar, gamma_curve and drc_profile
  bank,    \* what each part of a stage's bank was last written from
  desc,    \* whose address each descriptor holds
  page,    \* what each tone page was filled from
  last,    \* last_gamma and last_drc
  todo,    \* the passes still to make
  part, loaded, \* inside a stage: the part to write, the parameter read
  stale,   \* stages stored to, or written over, since they were last applied
  asked,   \* the selection the last tone pass found
  stores

stVars == <<tuning, own, tables, param, tone, bank, desc, page, last, todo, part,
            loaded, stale, asked, stores>>
toneVars == <<desc, page, last, asked>>
bankVars == <<bank, part, loaded, stale>>
env == <<tuning, own, tables>>
knobs == <<param, tone, stores>>

None == "none"
Switch == {"csc", "ccm"}
LadderSet == {Ladders[i] : i \in DOMAIN Ladders}
Stage == LadderSet \cup Switch
Buffer == Tone \cup {"lsc", "stats"}

\* The twelve registers of rnr and its tail each look the gain up.
Parts(s) == IF s = "rnr" THEN 1..2 ELSE 1..1

\* The last band: what a parameter that turned -1 after the check selects.
Top == "top"

\* ar_isp_tables_prepare: any buffer, and the file, may be missing.
StInit ==
  /\ tuning \in [loaded : BOOLEAN, gate : [Gated -> BOOLEAN]]
  /\ own \in SUBSET Buffer
  /\ tables \in BOOLEAN
  /\ param = [s \in Stage |-> IF s \in Switch THEN "on" ELSE CHOOSE g \in Gain : TRUE]
  /\ tone = [scalar |-> Off, pinned |-> [p \in Tone |-> CHOOSE k \in Pick : TRUE]]
  /\ bank = [s \in Stage |-> [i \in Parts(s) |-> None]]
  /\ desc = [b \in Buffer |-> None]
  /\ page = [p \in Tone |-> None] /\ last = [p \in Tone |-> None]
  /\ todo = <<>> /\ part = 0 /\ loaded = None
  /\ stale = Stage /\ asked = [p \in Tone |-> None]
  /\ stores = 0

(***************************************************************************)
(* The files.                                                              *)
(***************************************************************************)

\* Mutant: the ladders are derived before the tables are replayed.
ConfigureDerivesFirst == Ladders \o <<"setup", "tables", "csc">>

\* ar_isp_configure and ar_isp_configure_prefix
Configure == <<"setup", "tables", "csc">> \o Ladders

\* Mutant: the output arm does not put the shading page back.
ArmForgetsLsc == <<"arm", "publish", "ccm">> \o Ladders

\* ar_isp_arm_output
Arm == <<"arm", "publish", "ccm">> \o Ladders \o <<"lsc">>

\* A write to configure, configure_upto, arm, ladders or tone, or
\* ar_isp_pipeline_start
Begin ==
  /\ todo = <<>>
  /\ todo' \in {Configure, Arm, Configure \o Arm, Ladders, <<"tone">>, <<"force">>}
  /\ UNCHANGED <<env, knobs, bankVars, toneVars>>

Pass(name) == todo # <<>> /\ Head(todo) = name
Done == todo' = Tail(todo) /\ UNCHANGED <<env, knobs>>

\* The module parameters are plain variables, mode 0644.
StoreParam ==
  /\ stores < MaxStores
  /\ stores' = stores + 1
  /\ \/ \E s \in Stage, v \in Gain \cup {Off, "on"} :
          /\ v = Off \/ (v = "on") = (s \in Switch)
          /\ param' = [param EXCEPT ![s] = v]
          /\ stale' = stale \cup {s}
          /\ UNCHANGED tone
     \/ \E v \in Scalar \cup {Off} :
          tone' = [tone EXCEPT !.scalar = v] /\ UNCHANGED <<param, stale>>
     \/ \E p \in Tone, k \in Pick \cup {Off} :
          tone' = [tone EXCEPT !.pinned[p] = k] /\ UNCHANGED <<param, stale>>
  /\ UNCHANGED <<env, bank, desc, page, last, todo, part, loaded, asked>>

(***************************************************************************)
(* The recorded tables.                                                    *)
(***************************************************************************)

Record(s) == [i \in Parts(s) |-> "recorded"]

\* They carry every bank, and the addresses the vendor's driver had.  What
\* only an output arm applies stays recorded until then.
ReplaySetup ==
  /\ Pass("setup")
  /\ bank' = [s \in Stage |-> Record(s)]
  /\ desc' = [b \in Buffer |-> "vendor"]
  /\ stale' = stale \cup {"ccm"}
  /\ Done /\ UNCHANGED <<part, loaded, page, last, asked>>

ReplayArm ==
  /\ Pass("arm")
  /\ bank' = [s \in Stage |-> IF s \in InArm THEN Record(s) ELSE bank[s]]
  /\ desc' = [desc EXCEPT !["lsc"] = "vendor", !["stats"] = "vendor"]
  /\ Done /\ UNCHANGED <<part, loaded, stale, page, last, asked>>

\* ar_isp_stats_publish and ar_isp_de3d_publish
Ours(b) == IF b \in own THEN "ours" ELSE desc[b]

Publish ==
  /\ Pass("publish") /\ desc' = [desc EXCEPT !["stats"] = Ours("stats")]
  /\ Done /\ UNCHANGED <<bankVars, page, last, asked>>

PublishLsc ==
  /\ Pass("lsc") /\ desc' = [desc EXCEPT !["lsc"] = Ours("lsc")]
  /\ Done /\ UNCHANGED <<bankVars, page, last, asked>>

(***************************************************************************)
(* The stages.                                                             *)
(***************************************************************************)

\* What keeps a stage from being derived: its bank stays as it is.
Left(s) == \/ param[s] = Off
           \/ s \in LadderSet /\ ~tuning.loaded
           \/ s \in Gated /\ ~tuning.gate[s]

StageSkips(s) ==
  /\ Pass(s) /\ part = 0 /\ Left(s)
  /\ stale' = stale \ {s}
  /\ Done /\ UNCHANGED <<bank, part, loaded, toneVars>>

StageChecks(s) ==
  /\ Pass(s) /\ part = 0 /\ ~Left(s)
  /\ part' = 1 /\ loaded' = param[s]
  /\ stale' = stale \ {s}
  /\ UNCHANGED <<env, knobs, todo, bank, toneVars>>

\* The parameter is read anew for each look-up, or was kept from the check;
\* a switch is not read again.
StageWrites(s) ==
  /\ Pass(s) /\ part \in Parts(s)
  /\ \E v \in IF s \in Switch THEN {loaded} ELSE {loaded, param[s]} :
       bank' = [bank EXCEPT ![s][part] = IF v = Off THEN Top ELSE v]
  /\ IF part + 1 \in Parts(s)
       THEN part' = part + 1 /\ UNCHANGED <<todo, loaded, env, knobs>>
       ELSE part' = 0 /\ loaded' = None /\ Done
  /\ UNCHANGED <<stale, toneVars>>

(***************************************************************************)
(* The pages.                                                              *)
(***************************************************************************)

\* ar_isp_tone_gamma_pick and ar_isp_tone_drc_pick
Selection(p) ==
  IF p \notin own THEN None
  ELSE IF tone.scalar # Off THEN PickOf[p][tone.scalar]
  ELSE IF tone.pinned[p] # Off THEN tone.pinned[p] ELSE None

\* The selection recorded for a page a configuration has filled
Refilled(p) == IF Selection(p) # None /\ tuning.loaded THEN Selection(p) ELSE None

Built(p) == IF Selection(p) # None /\ tuning.loaded THEN Selection(p) ELSE "plain"

\* ar_isp_tables_apply: every fill, then every descriptor.
ApplyTables ==
  /\ Pass("tables")
  /\ IF tables
       THEN /\ page' = [p \in Tone |-> IF p \in own THEN Built(p) ELSE page[p]]
            /\ last' = [p \in Tone |-> Refilled(p)]
            /\ asked' = [p \in Tone |-> IF tuning.loaded THEN Selection(p) ELSE None]
            /\ desc' = [b \in Buffer |-> Ours(b)]
       ELSE UNCHANGED toneVars
  /\ Done /\ UNCHANGED bankVars

\* Whether a rebuild would change anything
ToneChanged == \E p \in Tone : last[p] # Selection(p)

\* ar_isp_tone_apply
ApplyTone ==
  /\ Pass("tone") \/ Pass("force")
  /\ IF tables /\ tuning.loaded
       THEN /\ asked' = [p \in Tone |-> Selection(p)]
            /\ IF Head(todo) = "force" \/ ToneChanged
                 THEN /\ page' = [p \in Tone |-> IF Selection(p) # None
                                                   THEN Selection(p) ELSE page[p]]
                      /\ last' = [p \in Tone |-> Selection(p)]
                      /\ desc' = [b \in Buffer |-> IF b \in Tone /\ Selection(b) # None
                                                     THEN "ours" ELSE desc[b]]
                 ELSE UNCHANGED <<desc, page, last>>
       ELSE UNCHANGED toneVars
  /\ Done /\ UNCHANGED bankVars

StNext ==
  \/ Begin \/ StoreParam \/ ReplaySetup \/ ReplayArm \/ Publish \/ PublishLsc
  \/ ApplyTables \/ ApplyTone
  \/ \E s \in Stage : StageSkips(s) \/ StageChecks(s) \/ StageWrites(s)

(***************************************************************************)
(* Properties.                                                             *)
(***************************************************************************)

\* ar_isp_ladders_show: the bank differs from what the parameter asks for now.
Mismatch(s) == ~Left(s) /\ \E i \in Parts(s) : bank[s][i] # param[s]

\* Whenever no file is being written, the parity oracle the driver offers
\* agrees: no derived bank holds a recording, or another gain than its
\* parameter, unless that parameter was stored since.
OracleAgrees == todo = <<>> => \A s \in Stage \ stale : ~Mismatch(s)

\* With the tables on, a configuration or an arm never ends with a descriptor
\* at the vendor's memory for which the driver has a buffer, although both
\* replay the vendor's addresses.
DescriptorsOurs == todo = <<>> /\ tables => \A b \in own : desc[b] # "vendor"

\* A page holds the selection recorded for it, so that a rebuild is skipped
\* only when it would change nothing: after a tone pass the page is the one
\* asked for.
PagesTold ==
  \A p \in Tone : /\ last[p] # None => page[p] = last[p]
                  /\ todo = <<>> /\ asked[p] # None => page[p] = asked[p]
==============================================================================
