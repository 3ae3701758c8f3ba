---------------------------- MODULE CameraChain ----------------------------
(***************************************************************************)
(* Bringing the camera up from STREAMON: ar_cvisp_chain_start starts the   *)
(* input path (ar-vif.c), which starts the receiver (ar-csi2.c), which     *)
(* starts the sensor (nt99235.c); once frames arrive, the ISP is           *)
(* configured.  A block whose clock is off must not be accessed, so each   *)
(* step that fails undoes the ones before it.                              *)
(***************************************************************************)

CONSTANTS
  Polling,  \* frames are counted by the poll work, not by the interrupt
  Unplug    \* a driver of the chain may be unbound while the input is up

VARIABLES
  vif,      \* [there, source, streaming, clk, armed]
  csi2,     \* [sensor, clk]
  cam,      \* [ref, live, power, streaming]: the runtime references of the
            \* stream and of a parameter write
  irqs,     \* the handler or the poll work: "none" or "read"
  seen,     \* irq_events moved since the input was turned on
  isp_there, chain_up,
  up_at     \* the step of the STREAMON that brings the chain up

chainVars == <<vif, csi2, cam, irqs, seen, isp_there, chain_up, up_at>>

Go(from, to) == up_at = from /\ up_at' = to

(***************************************************************************)
(* ar_cvisp_chain_start, ar_vif_input_start and ar_vif_input_on.           *)
(***************************************************************************)

ChainStart ==
  /\ up_at = "none" /\ ~chain_up
  /\ up_at' = IF vif.there THEN "on" ELSE "none"
  /\ UNCHANGED <<vif, csi2, cam, irqs, seen, isp_there, chain_up>>

\* Input that runs already is left alone: -EBUSY is no error to the chain.
InputBusy ==
  /\ Go("on", "isp")
  /\ vif.source /\ vif.streaming
  /\ UNCHANGED <<vif, csi2, cam, irqs, seen, isp_there, chain_up>>

\* No source, or the clock fails.
InputRefused ==
  /\ Go("on", "none")
  /\ ~(vif.source /\ vif.streaming)
  /\ UNCHANGED <<vif, csi2, cam, irqs, seen, isp_there, chain_up>>

InputClock ==
  /\ Go("on", "init")
  /\ vif.source /\ ~vif.streaming
  /\ vif' = [vif EXCEPT !.clk = TRUE]
  /\ seen' = FALSE
  /\ UNCHANGED <<csi2, cam, irqs, isp_there, chain_up>>

\* ar_vif_global_init and ar_vif_configure write the block's registers ...
InputInit ==
  /\ Go("init", "conf")
  /\ UNCHANGED <<vif, csi2, cam, irqs, seen, isp_there, chain_up>>

InputConfigure ==
  /\ Go("conf", "arm")
  /\ UNCHANGED <<vif, csi2, cam, irqs, seen, isp_there, chain_up>>

\* ... a view is armed, and then streaming set, the interrupt or the poll
\* last.
InputArm ==
  /\ Go("arm", "csi2")
  /\ vif' = [vif EXCEPT !.streaming = TRUE, !.armed = TRUE]
  /\ UNCHANGED <<csi2, cam, irqs, seen, isp_there, chain_up>>

(***************************************************************************)
(* ar_csi2_set_stream and nt99235_set_stream, on.                          *)
(***************************************************************************)

CsiOn ==
  /\ Go("csi2", "link")
  /\ csi2.sensor
  /\ csi2' = [csi2 EXCEPT !.clk = TRUE]
  /\ UNCHANGED <<vif, cam, irqs, seen, isp_there, chain_up>>

\* ar_csi2_configure resets the core and brings its PHYs up in between.
CsiConfigure ==
  /\ Go("link", "phy")
  /\ UNCHANGED <<vif, csi2, cam, irqs, seen, isp_there, chain_up>>

CsiPhyOn ==
  /\ Go("phy", "cam")
  /\ UNCHANGED <<vif, csi2, cam, irqs, seen, isp_there, chain_up>>

\* Mutant: a receiver that does not start leaves the input running.
CsiRefusedBails ==
  Go("csi2", "none") /\ UNCHANGED <<vif, csi2, cam, irqs, seen, isp_there, chain_up>>

\* No sensor, or one of the two clocks fails.
CsiRefused ==
  /\ Go("csi2", "undo_vif")
  /\ UNCHANGED <<vif, csi2, cam, irqs, seen, isp_there, chain_up>>

\* A runtime reference is taken, and the sensor powered on if it was off.
CamPower ==
  /\ Go("cam", "regs")
  /\ cam' = [cam EXCEPT !.ref = TRUE, !.power = TRUE]
  /\ UNCHANGED <<vif, csi2, irqs, seen, isp_there, chain_up>>

CamRefused ==
  /\ Go("cam", "undo_csi2")
  /\ ~cam.power
  /\ UNCHANGED <<vif, csi2, cam, irqs, seen, isp_there, chain_up>>

CamStreams ==
  /\ Go("regs", "wait")
  /\ cam' = [cam EXCEPT !.streaming = TRUE]
  /\ UNCHANGED <<vif, csi2, irqs, seen, isp_there, chain_up>>

\* A write over i2c fails: the runtime reference is put.
CamFails ==
  /\ Go("regs", "undo_csi2")
  /\ cam' = [cam EXCEPT !.ref = FALSE]
  /\ UNCHANGED <<vif, csi2, irqs, seen, isp_there, chain_up>>

(***************************************************************************)
(* The sensor's power follows its runtime references, later.               *)
(***************************************************************************)

\* pm_runtime_put leaves the power-off to a work.
CamSuspends ==
  /\ cam.power /\ ~cam.ref /\ ~cam.live
  /\ cam' = [cam EXCEPT !.power = FALSE]
  /\ UNCHANGED <<vif, csi2, irqs, seen, isp_there, chain_up, up_at>>

\* pm_runtime_get_if_in_use, of the sensor that is bound
InUse == csi2.sensor /\ cam.power /\ (cam.ref \/ cam.live)

\* A write to the exposure or gain parameter: the registers are written, with
\* a reference, under the lock that the sensor's remove takes.
LiveBegins ==
  /\ ~cam.live /\ InUse
  /\ cam' = [cam EXCEPT !.live = TRUE]
  /\ UNCHANGED <<vif, csi2, irqs, seen, isp_there, chain_up, up_at>>

LiveEnds ==
  /\ cam.live
  /\ cam' = [cam EXCEPT !.live = FALSE]
  /\ UNCHANGED <<vif, csi2, irqs, seen, isp_there, chain_up, up_at>>

(***************************************************************************)
(* The way back, of a start that failed or of ar_vif_input_off.            *)
(***************************************************************************)

UndoCsi2 ==
  /\ Go("undo_csi2", "undo_vif")
  /\ csi2' = [csi2 EXCEPT !.clk = FALSE]
  /\ UNCHANGED <<vif, cam, irqs, seen, isp_there, chain_up>>

UndoVif ==
  /\ Go("undo_vif", "disarm")
  /\ vif' = [vif EXCEPT !.streaming = FALSE]
  /\ UNCHANGED <<csi2, cam, irqs, seen, isp_there, chain_up>>

\* Mutant: a handler under way is not waited for.
DisarmEarly ==
  /\ Go("disarm", "stop")
  /\ vif' = [vif EXCEPT !.armed = FALSE]
  /\ UNCHANGED <<csi2, cam, irqs, seen, isp_there, chain_up>>

\* disable_irq and cancel_delayed_work_sync wait for one that runs.
Disarm ==
  /\ Go("disarm", "stop")
  /\ irqs = "none"
  /\ vif' = [vif EXCEPT !.armed = FALSE]
  /\ UNCHANGED <<csi2, cam, irqs, seen, isp_there, chain_up>>

\* ar_vif_stop
StopInput ==
  /\ Go("stop", "clock")
  /\ UNCHANGED <<vif, csi2, cam, irqs, seen, isp_there, chain_up>>

UndoClock ==
  /\ Go("clock", "none")
  /\ vif' = [vif EXCEPT !.clk = FALSE]
  /\ UNCHANGED <<csi2, cam, irqs, seen, isp_there, chain_up>>

\* The sensor and the receiver are stopped first; a receiver that lost its
\* sensor, or an input that lost its source, is passed by.
InputOff ==
  /\ up_at = "off"
  /\ up_at' = IF vif.source /\ csi2.sensor THEN "undo_csi2" ELSE "undo_vif"
  /\ cam' = IF vif.source /\ csi2.sensor
              THEN [cam EXCEPT !.ref = FALSE, !.streaming = FALSE] ELSE cam
  /\ UNCHANGED <<vif, csi2, irqs, seen, isp_there, chain_up>>

(***************************************************************************)
(* The wait for frames, and the ISP.                                       *)
(***************************************************************************)

FramesSeen ==
  /\ Go("wait", "isp")
  /\ seen /\ ~Polling
  /\ UNCHANGED <<vif, csi2, cam, irqs, seen, isp_there, chain_up>>

\* Eight seconds without one; the poll has no counter to gate on.
WaitExpires ==
  /\ Go("wait", IF Polling THEN "isp" ELSE "off")
  /\ Polling \/ ~seen
  /\ UNCHANGED <<vif, csi2, cam, irqs, seen, isp_there, chain_up>>

IspStarts ==
  /\ Go("isp", "none")
  /\ isp_there
  /\ chain_up' = TRUE
  /\ UNCHANGED <<vif, csi2, cam, irqs, seen, isp_there>>

\* ar_isp_pipeline_start finds no ISP: the input stays up.
IspAbsent ==
  /\ Go("isp", "none")
  /\ ~isp_there
  /\ UNCHANGED <<vif, csi2, cam, irqs, seen, isp_there, chain_up>>

(***************************************************************************)
(* ar_vif_irq and ar_vif_poll_work, which look at streaming before they    *)
(* read a register.                                                        *)
(***************************************************************************)

FrameEvent ==
  /\ irqs = "none"
  /\ vif.armed /\ vif.streaming
  /\ Polling \/ cam.streaming
  /\ irqs' = "read"
  /\ UNCHANGED <<vif, csi2, cam, seen, isp_there, chain_up, up_at>>

FrameCounted ==
  /\ irqs = "read"
  /\ irqs' = "none"
  /\ seen' = (seen \/ cam.streaming)
  /\ UNCHANGED <<vif, csi2, cam, isp_there, chain_up, up_at>>

(***************************************************************************)
(* The drivers come and go.                                                *)
(***************************************************************************)

CamOff == [ref |-> FALSE, live |-> FALSE, power |-> FALSE, streaming |-> FALSE]

Down == up_at = "none" /\ ~vif.streaming

BindSource ==
  /\ vif.there /\ ~vif.source
  /\ vif' = [vif EXCEPT !.source = TRUE]
  /\ UNCHANGED <<csi2, cam, irqs, seen, isp_there, chain_up, up_at>>

UnbindSource ==
  /\ vif.source /\ (Down \/ Unplug)
  /\ vif' = [vif EXCEPT !.source = FALSE]
  /\ UNCHANGED <<csi2, cam, irqs, seen, isp_there, chain_up, up_at>>

BindSensor ==
  /\ ~csi2.sensor
  /\ csi2' = [csi2 EXCEPT !.sensor = TRUE]
  /\ UNCHANGED <<vif, cam, irqs, seen, isp_there, chain_up, up_at>>

\* nt99235_remove waits for a parameter write, and powers off a sensor that
\* is not suspended.
UnbindSensor ==
  /\ csi2.sensor /\ (Down \/ Unplug) /\ ~cam.live
  /\ csi2' = [csi2 EXCEPT !.sensor = FALSE]
  /\ cam' = CamOff
  /\ UNCHANGED <<vif, irqs, seen, isp_there, chain_up, up_at>>

ProbeVif ==
  /\ ~vif.there
  /\ vif' = [vif EXCEPT !.there = TRUE]
  /\ UNCHANGED <<csi2, cam, irqs, seen, isp_there, chain_up, up_at>>

\* ar_vif_remove stops counting frames, and nothing else of the block.
RemoveVif ==
  /\ vif.there /\ (Down \/ Unplug)
  /\ irqs = "none"
  /\ vif' = [vif EXCEPT !.there = FALSE, !.source = FALSE,
                        !.streaming = FALSE]
  /\ UNCHANGED <<csi2, cam, irqs, seen, isp_there, chain_up, up_at>>

IspComesAndGoes ==
  /\ up_at # "isp"
  /\ isp_there' = ~isp_there
  /\ UNCHANGED <<vif, csi2, cam, irqs, seen, chain_up, up_at>>

ChainInit ==
  /\ vif = [there |-> FALSE, source |-> FALSE, streaming |-> FALSE,
            clk |-> FALSE, armed |-> FALSE]
  /\ csi2 = [sensor |-> FALSE, clk |-> FALSE]
  /\ cam = CamOff
  /\ irqs = "none" /\ seen = FALSE
  /\ isp_there = FALSE /\ chain_up = FALSE /\ up_at = "none"

ChainNext ==
  \/ ChainStart \/ InputBusy \/ InputRefused \/ InputClock
  \/ InputInit \/ InputConfigure \/ InputArm
  \/ CsiOn \/ CsiConfigure \/ CsiPhyOn \/ CsiRefused
  \/ CamPower \/ CamRefused \/ CamStreams \/ CamFails
  \/ CamSuspends \/ LiveBegins \/ LiveEnds
  \/ UndoCsi2 \/ UndoVif \/ Disarm \/ StopInput \/ UndoClock \/ InputOff
  \/ FramesSeen \/ WaitExpires \/ IspStarts \/ IspAbsent
  \/ FrameEvent \/ FrameCounted
  \/ BindSource \/ UnbindSource \/ BindSensor \/ UnbindSensor
  \/ ProbeVif \/ RemoveVif \/ IspComesAndGoes

ChainSpec == ChainInit /\ [][ChainNext]_chainVars

(***************************************************************************)
(* Properties.                                                             *)
(***************************************************************************)

\* Between two calls the chain is up as a whole or down as a whole, whatever
\* failed on the way: no clock, reference or interrupt is left behind.
ChainBalanced ==
  up_at = "none" =>
    \A on \in {vif.clk, vif.armed, csi2.clk, cam.ref, cam.streaming} :
      on = vif.streaming

\* The steps that access the registers of the input, of the receiver and of
\* the sensor.
VifSteps == {"init", "conf", "arm", "stop"}
CsiSteps == {"link", "phy", "undo_csi2"}

\* No register of a block is accessed with its clock or power off, by the
\* call, by the interrupt or by a parameter write; and none of the ISP before
\* frames are known to flow.
ReadsAlive ==
  /\ irqs = "read" \/ up_at \in VifSteps => vif.clk
  /\ up_at \in CsiSteps => csi2.clk
  /\ up_at = "regs" \/ cam.live \/ cam.streaming => cam.power
  /\ up_at = "isp" => vif.clk /\ cam.streaming /\ (seen \/ Polling)
=============================================================================
