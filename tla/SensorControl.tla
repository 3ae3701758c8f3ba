----------------------------- MODULE SensorControl -----------------------------
(***************************************************************************)
(* The NT99235 driver (nt99235.c): exposure and gain, which are set by     *)
(* module parameters and by V4L2 controls and committed to the sensor      *)
(* inside a group hold, one I2C write at a time; its modes and what each   *)
(* allows; runtime power management; probe and remove.                     *)
(*                                                                         *)
(* Three callers are at work: a write to a module parameter, a V4L2        *)
(* control, and the camera chain that starts and stops the stream and sets *)
(* the format.  nt99235_bound_lock guards the first against remove; the    *)
(* group hold is guarded by nothing.                                       *)
(***************************************************************************)
EXTENDS Integers, Sequences, FiniteSets

CONSTANTS
  Modes,       \* the modes, as <<[w, lanes, vts], ...>>; w stands for the size
  WantW,       \* sizes that are asked for
  Lines, Codes, AgainMax,  \* values written; the gains are 0..AgainMax
  LoBase,      \* the low register of the exposure holds 0..LoBase-1
  Boot,        \* [exposure, gain]: the parameters at load
  Boards,      \* [lanes, force, bringup]: the endpoint and the load parameters;
               \* force 0 leaves the choice of a mode to the driver
  Overlapping, \* whether two commits may be under way at a time
  LiveFormat,  \* whether the format may be set while the stream runs
  LateFail,    \* whether a probe may fail after it brought the sensor up
  MaxFaults, MaxCalls, MaxProbes  \* bounds

VARIABLES
  life,      \* "gone", "up" in bring-up, "probed", "bound" to the parameters, "leaving"
  board,     \* the board that was probed
  mode,      \* nt99235->mode
  param,     \* exposure and gain
  ctrl,      \* the controls, with the range of the exposure and link_freq
  ref,       \* the chain's runtime PM reference
  powered, mclk,  \* the state of the device, and the enables of its clock
  chip,      \* the sensor: [programmed, streaming, hold, held, live]
  pc, todo, ok,   \* a caller: where it goes on, the writes it is in, its result
  lock,      \* nt99235_bound_lock
  missed,    \* a parameter was written before the sensor was published
  faults, stuck, calls, probes

cfgVars == <<life, board, mode, probes>>
powerVars == <<ref, powered, mclk>>
callVars == <<pc, todo, ok, lock>>
faultVars == <<faults, stuck>>
snVars == <<cfgVars, param, ctrl, powerVars, chip, callVars, missed, faultVars,
           calls>>

Callers == {"param", "control", "stream"}
Smaller(a, b) == IF a < b THEN a ELSE b
Larger(a, b) == IF a > b THEN a ELSE b
Blank == [hi |-> 0, lo |-> 0, g0 |-> 0, g1 |-> 0]
Reset == [programmed |-> 0, streaming |-> FALSE, hold |-> FALSE, held |-> Blank,
          live |-> Blank]

SnInit ==
  /\ life = "gone" /\ board = [lanes |-> 2, force |-> 0, bringup |-> 0] /\ mode = 1
  /\ probes = 0
  /\ param = Boot
  /\ ctrl = [exposure |-> 1, gain |-> 0, max |-> 1, link |-> 0]
  /\ ref = FALSE /\ powered = FALSE /\ mclk = 0 /\ chip = Reset
  /\ pc = [c \in Callers |-> "idle"] /\ todo = [c \in Callers |-> <<>>]
  /\ ok = [c \in Callers |-> TRUE] /\ lock = FALSE
  /\ missed = FALSE /\ faults = 0 /\ stuck = FALSE /\ calls = 0

(***************************************************************************)
(* Modes.                                                                  *)
(***************************************************************************)
nt99235_has_usable_lanes(n, m) == Modes[m].lanes =< n
Usable(n) == {m \in DOMAIN Modes : nt99235_has_usable_lanes(n, m)}

Distance(m, w) == IF Modes[m].w > w THEN Modes[m].w - w ELSE w - Modes[m].w

\* The first of the usable modes that are closest
nt99235_find_mode(n, w) ==
  CHOOSE m \in Usable(n) :
    \A k \in Usable(n) : \/ Distance(m, w) < Distance(k, w)
                         \/ Distance(m, w) = Distance(k, w) /\ m =< k

LinkIndex(m) == IF Modes[m].lanes > 2 THEN 1 ELSE 0

\* The sizes nt99235_enum_frame_size reports
Offered(n) == {Modes[m].w : m \in Usable(n)}

\* nt99235_set_pad_format for the active format; a try format changes nothing
SetFormat(w) ==
  /\ life \in {"probed", "bound"} /\ calls < MaxCalls /\ pc["stream"] = "idle"
  /\ LiveFormat \/ ~ref
  /\ mode' = nt99235_find_mode(board.lanes, w)
  /\ ctrl' = [ctrl EXCEPT !.link = LinkIndex(mode')]
  /\ calls' = calls + 1
  /\ UNCHANGED <<life, board, probes, param, powerVars, chip, callVars, missed,
                 faultVars>>

\* The receiver gives two lanes or four, and there is a mode for either
\* (nt99235_parse_endpoint); a forced mode is one of the table.
ASSUME SensorAssumption ==
  /\ Modes \in Seq([w : Nat, lanes : Nat, vts : Nat])
  /\ WantW \subseteq Nat /\ Lines \subseteq Int /\ Codes \subseteq Int
  /\ AgainMax \in Nat /\ LoBase \in Nat \ {0}
  /\ Boot \in [exposure : Int, gain : Int]
  /\ Boards \subseteq [lanes : Nat, force : 0..Len(Modes), bringup : 0..3]
  /\ \A b \in Boards : Usable(b.lanes) # {}

(***************************************************************************)
(* A commit: the writes of nt99235_commit_exposure.                        *)
(***************************************************************************)

\* Mutant of the next: the exposure is cut at the range of the control.
FitsControl(lines) == Smaller(lines, ctrl.max)

\* At most vts - 2 lines
FitsFrame(lines) == Smaller(lines, Modes[mode].vts - 2)

Registers(lines, gain) ==
  [hi |-> lines \div LoBase, lo |-> lines % LoBase, g0 |-> gain, g1 |-> gain]

Writes(p) == <<<<"hold", 1>>, <<"hi", p.hi>>, <<"lo", p.lo>>, <<"g0", p.g0>>,
               <<"g1", p.g1>>, <<"hold", 0>>>>

Committing == {c \in Callers : todo[c] # <<>>}

\* pm_runtime_get_if_in_use: a commit keeps the reference it got.
SensorInUse == powered /\ (ref \/ Committing # {})

\* The caller begins a commit, and goes on at next.
BeginCommit(c, next, lines, gain) ==
  /\ Overlapping \/ Committing = {}
  /\ todo' = [todo EXCEPT ![c] = Writes(Registers(FitsFrame(lines), gain))]
  /\ pc' = [pc EXCEPT ![c] = next]
  /\ ok' = [ok EXCEPT ![c] = TRUE]

\* What a write does to the sensor: under the hold it is kept apart, and the
\* release of the hold makes what was kept live at once.
Effect(w) ==
  CASE w = <<"hold", 1>> -> [chip EXCEPT !.hold = TRUE, !.held = chip.live]
    [] w = <<"hold", 0>> -> [chip EXCEPT !.hold = FALSE, !.held = Blank,
                             !.live = IF chip.hold THEN chip.held ELSE chip.live]
    [] w[1] # "hold" /\ chip.hold  -> [chip EXCEPT !.held[w[1]] = w[2]]
    [] OTHER -> [chip EXCEPT !.live[w[1]] = w[2]]

CommitWrite(c) ==
  /\ todo[c] # <<>>
  /\ chip' = Effect(Head(todo[c]))
  /\ todo' = [todo EXCEPT ![c] = Tail(@)]
  /\ stuck' = (stuck /\ Head(todo[c]) # <<"hold", 0>>)
  /\ UNCHANGED <<cfgVars, param, ctrl, powerVars, pc, ok, lock, missed, faults,
                 calls>>

\* What is still written after a write has failed: the release, unless it was
\* the hold that failed, or the release itself.
Rest(c) == IF Len(todo[c]) \in 2..5 THEN <<<<"hold", 0>>>> ELSE <<>>

CommitFails(c) ==
  /\ todo[c] # <<>> /\ faults < MaxFaults
  /\ todo' = [todo EXCEPT ![c] = Rest(c)]
  /\ ok' = [ok EXCEPT ![c] = FALSE]
  /\ faults' = faults + 1 /\ stuck' = (stuck \/ Len(todo[c]) = 1)
  /\ UNCHANGED <<cfgVars, param, ctrl, powerVars, chip, pc, lock, missed,
                 calls>>

\* A caller at this label, with no commit under way
AtLabel(c, label) == pc[c] = label /\ todo[c] = <<>>
Goto(c, label) == pc' = [pc EXCEPT ![c] = label]

(***************************************************************************)
(* A module parameter: nt99235_param_set and nt99235_apply_live.           *)
(***************************************************************************)
ParamSet ==
  /\ AtLabel("param", "idle") /\ calls < MaxCalls
  /\ \/ \E v \in Lines : param' = [param EXCEPT !.exposure = Larger(v, 1)]
     \/ \E v \in Codes : param' = [param EXCEPT !.gain = Smaller(Larger(v, 0), AgainMax)]
  /\ Goto("param", "lock") /\ calls' = calls + 1
  /\ UNCHANGED <<cfgVars, ctrl, powerVars, chip, todo, ok, lock, missed,
                 faultVars>>

ParamLock ==
  /\ AtLabel("param", "lock") /\ ~lock
  /\ lock' = (life = "bound")
  /\ Goto("param", IF life = "bound" THEN "exposure" ELSE "idle")
  /\ missed' = (missed \/ life # "bound")
  /\ UNCHANGED <<cfgVars, param, ctrl, powerVars, chip, todo, ok, faultVars,
                 calls>>

\* __v4l2_ctrl_s_ctrl: a value that is new goes on to nt99235_s_ctrl, which
\* commits both controls when the sensor is in use.
Control(c, next, which, value) ==
  LET now == [ctrl EXCEPT ![which] = value]
  IN /\ ctrl' = now
     /\ IF now # ctrl /\ SensorInUse
          THEN BeginCommit(c, next, now.exposure, now.gain)
          ELSE Goto(c, next) /\ UNCHANGED <<todo, ok>>

ParamExposure ==
  /\ AtLabel("param", "exposure")
  /\ Control("param", "gain", "exposure", Smaller(param.exposure, ctrl.max))
  /\ UNCHANGED <<cfgVars, param, powerVars, chip, lock, missed, faultVars,
                 calls>>

ParamGain ==
  /\ AtLabel("param", "gain")
  /\ Control("param", "hardware", "gain", param.gain)
  /\ UNCHANGED <<cfgVars, param, powerVars, chip, lock, missed, faultVars,
                 calls>>

ParamHardware ==
  /\ AtLabel("param", "hardware")
  /\ IF SensorInUse THEN BeginCommit("param", "unlock", param.exposure, param.gain)
              ELSE Goto("param", "unlock") /\ UNCHANGED <<todo, ok>>
  /\ UNCHANGED <<cfgVars, param, ctrl, powerVars, chip, lock, missed, faultVars,
                 calls>>

ParamUnlock ==
  /\ AtLabel("param", "unlock")
  /\ lock' = FALSE /\ Goto("param", "idle")
  /\ UNCHANGED <<cfgVars, param, ctrl, powerVars, chip, todo, ok, missed,
                 faultVars, calls>>

\* VIDIOC_S_CTRL; the framework keeps the value in its range.
SetControl ==
  /\ life \in {"probed", "bound"} /\ AtLabel("control", "idle") /\ calls < MaxCalls
  /\ \/ \E v \in Lines : Control("control", "idle", "exposure", Smaller(Larger(v, 1), ctrl.max))
     \/ \E v \in Codes : Control("control", "idle", "gain", Smaller(Larger(v, 0), AgainMax))
  /\ calls' = calls + 1
  /\ UNCHANGED <<cfgVars, param, powerVars, chip, lock, missed, faultVars>>

(***************************************************************************)
(* The stream: nt99235_set_stream and nt99235_start_stream.                *)
(***************************************************************************)

\* pm_runtime_resume_and_get: a sensor not yet suspended keeps its registers.
StartStream ==
  /\ life \in {"probed", "bound"} /\ AtLabel("stream", "idle") /\ ~ref /\ calls < MaxCalls
  /\ IF powered THEN UNCHANGED <<powered, mclk, chip>>
                ELSE powered' = TRUE /\ mclk' = mclk + 1 /\ chip' = Reset
  /\ ref' = TRUE /\ Goto("stream", "program") /\ calls' = calls + 1
  /\ UNCHANGED <<cfgVars, param, ctrl, todo, ok, lock, missed, faultVars>>

\* nt99235_power_on fails at the clock.
StartStreamFails ==
  /\ life \in {"probed", "bound"} /\ AtLabel("stream", "idle") /\ ~ref /\ ~powered
  /\ calls < MaxCalls /\ calls' = calls + 1
  /\ UNCHANGED <<cfgVars, param, ctrl, powerVars, chip, callVars, missed,
                 faultVars>>

\* The tables of the mode and the shading; the test pattern cannot fail.
ProgramTables ==
  /\ AtLabel("stream", "program")
  /\ chip' = [chip EXCEPT !.programmed = mode]
  /\ Goto("stream", "commit")
  /\ UNCHANGED <<cfgVars, param, ctrl, powerVars, todo, ok, lock, missed,
                 faultVars, calls>>

StartCommit ==
  /\ AtLabel("stream", "commit")
  /\ BeginCommit("stream", "select", param.exposure, param.gain)
  /\ missed' = FALSE
  /\ UNCHANGED <<cfgVars, param, ctrl, powerVars, chip, lock, faultVars, calls>>

Select ==
  /\ AtLabel("stream", "select") /\ ok["stream"]
  /\ chip' = [chip EXCEPT !.streaming = TRUE]
  /\ Goto("stream", "idle")
  /\ UNCHANGED <<cfgVars, param, ctrl, powerVars, todo, ok, lock, missed,
                 faultVars, calls>>

\* A table, the commit or the last write failed: the reference is put.
Undo ==
  /\ \/ AtLabel("stream", "select") /\ ~ok["stream"] /\ UNCHANGED <<faultVars, chip>>
     \/ /\ AtLabel("stream", "program") \/ (AtLabel("stream", "select") /\ ok["stream"])
        /\ faults < MaxFaults /\ faults' = faults + 1
        /\ UNCHANGED <<stuck, chip>>
  /\ ref' = FALSE /\ Goto("stream", "idle")
  /\ UNCHANGED <<cfgVars, param, ctrl, powered, mclk, todo, ok, lock, missed,
                 calls>>

\* The reference is put whether the write succeeds or not.
Stop ==
  /\ AtLabel("stream", "idle") /\ ref
  /\ \/ chip' = [chip EXCEPT !.streaming = FALSE] /\ UNCHANGED faults
     \/ faults < MaxFaults /\ faults' = faults + 1 /\ UNCHANGED chip
  /\ ref' = FALSE
  /\ UNCHANGED <<cfgVars, param, ctrl, powered, mclk, callVars, missed, stuck,
                 calls>>

\* Runtime PM, some time after the last reference went: nt99235_power_off
PowerOff ==
  /\ life \in {"probed", "bound"} /\ powered /\ ~ref /\ Committing = {}
  /\ powered' = FALSE /\ mclk' = mclk - 1 /\ chip' = Reset
  /\ UNCHANGED <<cfgVars, param, ctrl, ref, callVars, missed, faultVars, calls>>

(***************************************************************************)
(* Probe and remove.                                                       *)
(***************************************************************************)

\* nt99235_parse_endpoint, the choice of a mode, and the first half of
\* nt99235_probe_bringup: the clock runs
ProbeBoard(b) ==
  /\ life = "gone" /\ probes < MaxProbes
  /\ probes' = probes + 1
  /\ board' = b /\ life' = "up"
  /\ mode' = IF b.force # 0 THEN b.force ELSE nt99235_find_mode(b.lanes, Modes[1].w)
  /\ mclk' = IF b.bringup > 0 THEN mclk + 1 ELSE mclk
  /\ UNCHANGED <<param, ctrl, ref, powered, chip, callVars, missed, faultVars,
                 calls>>

\* The second half turns off what it had turned on.
BringupOff == mclk' = IF board.bringup > 0 THEN mclk - 1 ELSE mclk

Register ==
  /\ life = "up" /\ life' = "probed" /\ BringupOff
  /\ ctrl' = [exposure |-> FitsFrame(param.exposure), gain |-> param.gain,
              max |-> Modes[mode].vts - 2, link |-> LinkIndex(mode)]
  /\ UNCHANGED <<board, mode, probes, param, ref, powered, chip, callVars,
                 missed, faultVars, calls>>

\* nt99235_detect finds another chip; or a later step of the probe fails, and
\* error_power_off turns off once more what the bring-up had turned off.
BringupFails ==
  /\ life = "up" /\ life' = "gone"
  /\ \/ board.bringup = 3 /\ mclk' = mclk - 1
     \/ board.bringup = 0 /\ UNCHANGED mclk
     \/ board.bringup > 0 /\ LateFail /\ mclk' = mclk - 2
  /\ UNCHANGED <<board, mode, probes, param, ctrl, ref, powered, chip, callVars,
                 missed, faultVars, calls>>

Publish ==
  /\ life = "probed" /\ ~lock /\ life' = "bound"
  /\ UNCHANGED <<board, mode, probes, param, ctrl, powerVars, chip, callVars,
                 missed, faultVars, calls>>

RemoveSensor ==
  /\ life = "bound" /\ ~lock /\ life' = "leaving"
  /\ UNCHANGED <<board, mode, probes, param, ctrl, powerVars, chip, callVars,
                 missed, faultVars, calls>>

\* The chain and the controls' file are gone with the subdevice; the sensor
\* may not be suspended yet.
Teardown ==
  /\ life = "leaving" /\ ~ref /\ AtLabel("stream", "idle") /\ AtLabel("control", "idle")
  /\ life' = "gone" /\ powered' = FALSE /\ chip' = Reset
  /\ mclk' = IF powered THEN mclk - 1 ELSE mclk
  /\ UNCHANGED <<board, mode, probes, param, ctrl, ref, callVars, missed,
                 faultVars, calls>>

SnNext ==
  \/ ParamSet \/ ParamLock \/ ParamExposure \/ ParamGain \/ ParamHardware \/ ParamUnlock
  \/ SetControl \/ StartStream \/ StartStreamFails \/ ProgramTables \/ StartCommit \/ Select \/ Undo
  \/ Stop \/ PowerOff \/ Register \/ BringupFails \/ Publish \/ RemoveSensor \/ Teardown
  \/ \E w \in WantW : SetFormat(w)
  \/ \E c \in Callers : CommitWrite(c) \/ CommitFails(c)
  \/ \E b \in Boards : ProbeBoard(b)

SnSpec == SnInit /\ [][SnNext]_snVars

(***************************************************************************)
(* Properties.                                                             *)
(***************************************************************************)
AllIdle == \A c \in Callers : AtLabel(c, "idle")
Exposure(p) == p.hi * LoBase + p.lo

\* While no write has failed, what the sensor applies is a pair that was set
\* through one of the two interfaces, never the exposure of one commit with
\* the gain of another, and it fits in the frame of the mode that is
\* programmed; whatever parameter, control, format, start and stop come in
\* whichever order, a stream runs with what the parameters or the controls
\* say - but for a parameter written after the sensor was registered and
\* before nt99235_bound names it.
ExposureSettled ==
  faults = 0 /\ chip.streaming =>
    /\ Exposure(chip.live) =< Modes[chip.programmed].vts - 2
    /\ chip.live.g0 = chip.live.g1
    /\ AllIdle /\ ~missed =>
         \E v \in {param, ctrl} : chip.live = Registers(FitsFrame(v.exposure), v.gain)

\* The sensor stays held only when it was the release that failed
\* (nt99235_commit_exposure).
HoldReleased == Committing = {} /\ chip.hold => stuck

\* A parameter write works on a sensor that is there (nt99235_bound_lock); a
\* register is written only with the sensor powered; its clock is enabled
\* once, by whoever powers it.
SensorAlive ==
  /\ pc["param"] \in {"exposure", "gain", "hardware"} \/ todo["param"] # <<>>
       => life = "bound"
  /\ Committing # {} => powered
  /\ life # "up" => mclk = IF powered THEN 1 ELSE 0

\* Every size that is offered can be set, the mode runs on the wired lanes
\* unless it was forced, and the receiver is told the link rate of that mode.
ModesOffered ==
  /\ \A w \in Offered(board.lanes) : Modes[nt99235_find_mode(board.lanes, w)].w = w
  /\ life \in {"probed", "bound"} =>
       /\ board.force = 0 => mode \in Usable(board.lanes)
       /\ ctrl.link = LinkIndex(mode)

\* What the driver owes the chain and the two interfaces of the exposure: the pair
\* that was set, the sensor powered and held only while it should, and modes that
\* are the wiring's.
SensorTrue == ExposureSettled /\ HoldReleased /\ SensorAlive /\ ModesOffered
================================================================================
