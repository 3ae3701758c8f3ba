---------------------------- MODULE CameraProofs ----------------------------
(***************************************************************************)
(* Proofs about the camera's blocks and the display's.                     *)
(*                                                                         *)
(* CameraChain, for as long as no driver of the chain is unbound while the *)
(* input is up: however a start ends, the chain is up or down as a whole,  *)
(* and no register is accessed with its block off.                         *)
(*                                                                         *)
(* IspFrame, for a block that is configured once, before it runs: the      *)
(* statistics a reader accepts are whole and of one frame, and the         *)
(* tone-mapping page being fetched is never written.                       *)
(*                                                                         *)
(* CaptureNode, for any number of buffers and any depth of the rotation,   *)
(* where a frame tick that overlaps a STREAMOFF ends before the STREAMOFF  *)
(* does: no buffer is lost, had twice or overtaken, and the block never    *)
(* points to one that is not the driver's.                                 *)
(*                                                                         *)
(* VoScanout, for any buffers and formats, where a commit's interrupt is   *)
(* served before the next one and no format changes on a dark pipe: what   *)
(* the controller scans out between commits is what the state asks for.    *)
(*                                                                         *)
(* SensorControl, for any modes, boards, values and number of failures,    *)
(* with one commit at a time, no format set while the stream runs and no   *)
(* probe that fails after its bring-up: a stream runs with a pair that was *)
(* set, the sensor is held and written only while it should be, and its    *)
(* modes are those of the wiring.                                          *)
(***************************************************************************)
EXTENDS CameraChain, IspFrame, CaptureNode, VoScanout, SensorControl, SequenceFacts, TLAPS

-----------------------------------------------------------------------------
(* The chain of the video input.                                           *)

ChainTypes ==
  /\ vif \in [there : BOOLEAN, source : BOOLEAN, streaming : BOOLEAN,
              clk : BOOLEAN, armed : BOOLEAN]
  /\ csi2 \in [sensor : BOOLEAN, clk : BOOLEAN]
  /\ cam \in [ref : BOOLEAN, live : BOOLEAN, power : BOOLEAN,
              streaming : BOOLEAN]
  /\ irqs \in {"none", "read"} /\ seen \in BOOLEAN
  /\ up_at \in {"none", "on", "init", "conf", "arm", "csi2", "link", "phy",
                "cam", "regs", "wait", "isp", "off", "undo_csi2", "undo_vif",
                "disarm", "stop", "clock"}

\* No call, or one that has not touched a block yet.
Resting == up_at \in {"none", "on"}

\* The steps of a call during which a part of the chain is on.
CamOn == {"wait", "isp", "off"}
CamHeld == {"regs"} \cup CamOn
CsiOnAt == {"link", "phy", "cam", "undo_csi2"} \cup CamHeld
VifOnAt == {"csi2", "undo_vif"} \cup CsiOnAt
VifArmedAt == {"disarm"} \cup VifOnAt

\* During a call, what is on is what its step says; between two calls, all of
\* it or nothing.
Staged ==
  /\ ~Resting =>
       /\ vif.clk
       /\ vif.streaming <=> up_at \in VifOnAt
       /\ vif.armed <=> up_at \in VifArmedAt
       /\ csi2.clk <=> up_at \in CsiOnAt
       /\ cam.ref <=> up_at \in CamHeld
       /\ cam.streaming <=> up_at \in CamOn
  /\ Resting =>
       /\ vif.clk <=> vif.streaming
       /\ vif.armed <=> vif.streaming
       /\ csi2.clk <=> vif.streaming
       /\ cam.ref <=> vif.streaming
       /\ cam.streaming <=> vif.streaming

\* What is on is held: its driver cannot go, a handler that reads finds the
\* view armed, the sensor has power, frames were seen.
Held ==
  /\ csi2.clk => vif.source /\ csi2.sensor
  /\ up_at \in {"init", "conf", "arm", "csi2"} => vif.source
  /\ irqs = "read" => vif.armed
  /\ cam.ref \/ cam.live => cam.power
  /\ up_at = "isp" \/ (Resting /\ vif.streaming) => seen \/ Polling

ChainInv == ChainTypes /\ Staged /\ Held

-----------------------------------------------------------------------------

LEMMA ChainTypesHold ==
  ASSUME ~Unplug, ChainInv, [ChainNext]_chainVars
  PROVE  ChainTypes'
<1> USE DEF ChainInv, ChainTypes, Go
<1>1. CASE ChainStart \/ InputBusy \/ InputRefused
  BY <1>1 DEF ChainStart, InputBusy, InputRefused
<1>2. CASE InputClock
  BY <1>2 DEF InputClock
<1>3. CASE InputInit \/ InputConfigure
  BY <1>3 DEF InputInit, InputConfigure
<1>4. CASE InputArm
  BY <1>4 DEF InputArm
<1>5. CASE CsiOn
  BY <1>5, ZenonT(60) DEF CsiOn
<1>6. CASE CsiConfigure \/ CsiPhyOn \/ CsiRefused
  BY <1>6 DEF CsiConfigure, CsiPhyOn, CsiRefused
<1>7. CASE CamPower
  BY <1>7 DEF CamPower
<1>8. CASE CamRefused
  BY <1>8 DEF CamRefused
<1>9. CASE CamStreams
  BY <1>9 DEF CamStreams
<1>10. CASE CamFails
  BY <1>10 DEF CamFails
<1>11. CASE CamSuspends \/ LiveBegins \/ LiveEnds
  BY <1>11 DEF CamSuspends, LiveBegins, LiveEnds, InUse
<1>12. CASE UndoCsi2
  BY <1>12, ZenonT(60) DEF UndoCsi2
<1>13. CASE UndoVif
  BY <1>13 DEF UndoVif
<1>14. CASE Disarm
  BY <1>14 DEF Disarm
<1>15. CASE StopInput
  BY <1>15 DEF StopInput
<1>16. CASE UndoClock
  BY <1>16 DEF UndoClock
<1>17. CASE InputOff
  BY <1>17 DEF InputOff
<1>18. CASE FramesSeen \/ WaitExpires
  BY <1>18 DEF FramesSeen, WaitExpires
<1>19. CASE IspStarts \/ IspAbsent
  BY <1>19 DEF IspStarts, IspAbsent
<1>20. CASE FrameEvent \/ FrameCounted
  BY <1>20 DEF FrameEvent, FrameCounted
<1>21. CASE BindSource \/ UnbindSource
  BY <1>21 DEF BindSource, UnbindSource, Down
<1>22. CASE BindSensor \/ UnbindSensor
  <2>1. CamOff \in [ref : BOOLEAN, live : BOOLEAN, power : BOOLEAN,
                   streaming : BOOLEAN]
    BY DEF CamOff
  <2> QED BY <1>22, <2>1 DEF BindSensor, UnbindSensor
<1>23. CASE ProbeVif \/ RemoveVif
  BY <1>23 DEF ProbeVif, RemoveVif, Down
<1>24. CASE IspComesAndGoes
  BY <1>24 DEF IspComesAndGoes
<1>25. CASE UNCHANGED chainVars
  BY <1>25 DEF chainVars
<1> QED BY <1>1, <1>2, <1>3, <1>4, <1>5, <1>6, <1>7, <1>8, <1>9, <1>10,
           <1>11, <1>12, <1>13, <1>14, <1>15, <1>16, <1>17, <1>18, <1>19,
           <1>20, <1>21, <1>22, <1>23, <1>24, <1>25 DEF ChainNext

LEMMA StagesHold ==
  ASSUME ~Unplug, ChainInv, [ChainNext]_chainVars
  PROVE  Staged'
<1> USE DEF ChainInv, ChainTypes, Staged, Held, Resting, CamOn, CamHeld, CsiOnAt,
            VifOnAt, VifArmedAt, Go
<1>1. CASE ChainStart \/ InputBusy \/ InputRefused
  BY <1>1 DEF ChainStart, InputBusy, InputRefused
<1>2. CASE InputClock
  BY <1>2 DEF InputClock
<1>3. CASE InputInit \/ InputConfigure
  BY <1>3 DEF InputInit, InputConfigure
<1>4. CASE InputArm
  BY <1>4 DEF InputArm
<1>5. CASE CsiOn
  BY <1>5 DEF CsiOn
<1>6. CASE CsiConfigure \/ CsiPhyOn \/ CsiRefused
  BY <1>6 DEF CsiConfigure, CsiPhyOn, CsiRefused
<1>7. CASE CamPower
  BY <1>7 DEF CamPower
<1>8. CASE CamRefused
  BY <1>8 DEF CamRefused
<1>9. CASE CamStreams
  BY <1>9 DEF CamStreams
<1>10. CASE CamFails
  BY <1>10 DEF CamFails
<1>11. CASE CamSuspends \/ LiveBegins \/ LiveEnds
  BY <1>11 DEF CamSuspends, LiveBegins, LiveEnds, InUse
<1>12. CASE UndoCsi2
  BY <1>12 DEF UndoCsi2
<1>13. CASE UndoVif
  BY <1>13 DEF UndoVif
<1>14. CASE Disarm
  BY <1>14 DEF Disarm
<1>15. CASE StopInput
  BY <1>15 DEF StopInput
<1>16. CASE UndoClock
  BY <1>16 DEF UndoClock
<1>17. CASE InputOff
  BY <1>17 DEF InputOff
<1>18. CASE FramesSeen \/ WaitExpires
  BY <1>18 DEF FramesSeen, WaitExpires
<1>19. CASE IspStarts \/ IspAbsent
  BY <1>19 DEF IspStarts, IspAbsent
<1>20. CASE FrameEvent \/ FrameCounted
  BY <1>20 DEF FrameEvent, FrameCounted
<1>21. CASE BindSource \/ UnbindSource
  BY <1>21 DEF BindSource, UnbindSource, Down
<1>22. CASE BindSensor \/ UnbindSensor
  <2>1. CASE BindSensor
    BY <2>1 DEF BindSensor
  <2>2. CASE UnbindSensor
    <3>1. /\ up_at = "none" /\ ~vif.streaming /\ ~csi2.clk
          /\ UNCHANGED <<vif, irqs, seen, up_at>>
      BY <2>2 DEF UnbindSensor, Down
    <3>2. /\ ~cam'.ref /\ ~cam'.live /\ ~cam'.streaming
          /\ csi2' = [csi2 EXCEPT !.sensor = FALSE]
      BY <2>2 DEF UnbindSensor, CamOff
    <3> QED BY <3>1, <3>2
  <2> QED BY <1>22, <2>1, <2>2
<1>23. CASE ProbeVif \/ RemoveVif
  BY <1>23 DEF ProbeVif, RemoveVif, Down
<1>24. CASE IspComesAndGoes
  BY <1>24 DEF IspComesAndGoes
<1>25. CASE UNCHANGED chainVars
  BY <1>25 DEF chainVars
<1> QED BY <1>1, <1>2, <1>3, <1>4, <1>5, <1>6, <1>7, <1>8, <1>9, <1>10,
           <1>11, <1>12, <1>13, <1>14, <1>15, <1>16, <1>17, <1>18, <1>19,
           <1>20, <1>21, <1>22, <1>23, <1>24, <1>25 DEF ChainNext

LEMMA HeldHolds ==
  ASSUME ~Unplug, ChainInv, [ChainNext]_chainVars
  PROVE  Held'
<1> USE DEF ChainInv, ChainTypes, Staged, Held, Resting, CamOn, CamHeld, CsiOnAt,
            VifOnAt, VifArmedAt, Go
<1>1. CASE ChainStart \/ InputBusy \/ InputRefused
  BY <1>1 DEF ChainStart, InputBusy, InputRefused
<1>2. CASE InputClock
  BY <1>2 DEF InputClock
<1>3. CASE InputInit \/ InputConfigure
  BY <1>3 DEF InputInit, InputConfigure
<1>4. CASE InputArm
  BY <1>4 DEF InputArm
<1>5. CASE CsiOn
  BY <1>5 DEF CsiOn
<1>6. CASE CsiConfigure \/ CsiPhyOn \/ CsiRefused
  BY <1>6 DEF CsiConfigure, CsiPhyOn, CsiRefused
<1>7. CASE CamPower
  BY <1>7 DEF CamPower
<1>8. CASE CamRefused
  BY <1>8 DEF CamRefused
<1>9. CASE CamStreams
  BY <1>9 DEF CamStreams
<1>10. CASE CamFails
  BY <1>10 DEF CamFails
<1>11. CASE CamSuspends \/ LiveBegins \/ LiveEnds
  BY <1>11 DEF CamSuspends, LiveBegins, LiveEnds, InUse
<1>12. CASE UndoCsi2
  BY <1>12 DEF UndoCsi2
<1>13. CASE UndoVif
  BY <1>13 DEF UndoVif
<1>14. CASE Disarm
  BY <1>14 DEF Disarm
<1>15. CASE StopInput
  BY <1>15 DEF StopInput
<1>16. CASE UndoClock
  BY <1>16 DEF UndoClock
<1>17. CASE InputOff
  BY <1>17 DEF InputOff
<1>18. CASE FramesSeen \/ WaitExpires
  BY <1>18 DEF FramesSeen, WaitExpires
<1>19. CASE IspStarts \/ IspAbsent
  BY <1>19 DEF IspStarts, IspAbsent
<1>20. CASE FrameEvent \/ FrameCounted
  BY <1>20 DEF FrameEvent, FrameCounted
<1>21. CASE BindSource \/ UnbindSource
  BY <1>21 DEF BindSource, UnbindSource, Down
<1>22. CASE BindSensor \/ UnbindSensor
  <2>1. CASE BindSensor
    BY <2>1 DEF BindSensor
  <2>2. CASE UnbindSensor
    <3>1. /\ up_at = "none" /\ ~vif.streaming /\ ~csi2.clk
          /\ UNCHANGED <<vif, irqs, seen, up_at>>
      BY <2>2 DEF UnbindSensor, Down
    <3>2. /\ ~cam'.ref /\ ~cam'.live /\ ~cam'.streaming
          /\ csi2' = [csi2 EXCEPT !.sensor = FALSE]
      BY <2>2 DEF UnbindSensor, CamOff
    <3> QED BY <3>1, <3>2
  <2> QED BY <1>22, <2>1, <2>2
<1>23. CASE ProbeVif \/ RemoveVif
  BY <1>23 DEF ProbeVif, RemoveVif, Down
<1>24. CASE IspComesAndGoes
  BY <1>24 DEF IspComesAndGoes
<1>25. CASE UNCHANGED chainVars
  BY <1>25 DEF chainVars
<1> QED BY <1>1, <1>2, <1>3, <1>4, <1>5, <1>6, <1>7, <1>8, <1>9, <1>10,
           <1>11, <1>12, <1>13, <1>14, <1>15, <1>16, <1>17, <1>18, <1>19,
           <1>20, <1>21, <1>22, <1>23, <1>24, <1>25 DEF ChainNext

LEMMA ChainInvStarts == ChainInit => ChainInv
<1> SUFFICES ASSUME ChainInit PROVE ChainInv
  OBVIOUS
<1> USE DEF ChainInit, CamOff
<1>1. ChainTypes
  <2>1. /\ vif \in [there : BOOLEAN, source : BOOLEAN, streaming : BOOLEAN,
                   clk : BOOLEAN, armed : BOOLEAN]
        /\ csi2 \in [sensor : BOOLEAN, clk : BOOLEAN]
        /\ cam \in [ref : BOOLEAN, live : BOOLEAN, power : BOOLEAN,
                   streaming : BOOLEAN]
    OBVIOUS
  <2> QED BY <2>1 DEF ChainTypes
<1>2. Staged
  BY DEF Staged, Resting
<1>3. Held
  BY DEF Held, Resting
<1> QED BY <1>1, <1>2, <1>3 DEF ChainInv

LEMMA ChainInvHolds == ASSUME ~Unplug PROVE ChainSpec => []ChainInv
<1>1. ASSUME ChainInv, [ChainNext]_chainVars PROVE ChainInv'
  BY <1>1, ChainTypesHold, StagesHold, HeldHolds DEF ChainInv
<1> QED BY ChainInvStarts, <1>1, PTL DEF ChainSpec

\* However ar_cvisp_chain_start ends, on whichever of its steps it failed,
\* the clocks, the interrupt and the sensor's reference are those of a chain
\* that is up or of one that is down.
THEOREM ChainIsBalanced == ASSUME ~Unplug PROVE ChainSpec => []ChainBalanced
<1>1. ChainInv => ChainBalanced
  BY DEF ChainInv, ChainTypes, Staged, Resting, ChainBalanced
<1> QED BY ChainInvHolds, <1>1, PTL

\* No register of the input, the receiver, the sensor or the ISP is accessed
\* by a call, by ar_vif_irq or by a parameter write while its block is off.
THEOREM ReadsAreAlive == ASSUME ~Unplug PROVE ChainSpec => []ReadsAlive
<1>1. ChainInv => ReadsAlive
  BY DEF ChainInv, ChainTypes, Staged, Held, Resting, ReadsAlive, VifSteps,
    CsiSteps, CamOn, CamHeld, CsiOnAt, VifOnAt, VifArmedAt
<1> QED BY ChainInvHolds, <1>1, PTL

-----------------------------------------------------------------------------
(* The frame interrupts of the ISP.                                        *)

Readers == [at : {"none", "rro", "hist", "copy", "copy2", "seq", "got"},
            seq : Nat, rro : Halves, hist : Halves, torn : BOOLEAN]

IspTypes ==
  /\ stats \in [cur : Halves, done : Halves, valid : BOOLEAN, flips : Nat]
  /\ stats_hw \in Halves /\ partial \subseteq Halves
  /\ irq_at \in {"none", "done", "valid"}
  /\ reader \in Readers
  /\ conf_at \in {"none", "filled", "valid", "arm", "half", "desc", "output"}
  /\ page_half \in Halves /\ page_desc \in Halves \cup {Vendor}
  /\ page_seen \in Halves
  /\ feeding \in [feed : SUBSET Halves, conf : SUBSET Halves]
  /\ live \in BOOLEAN

\* The block is configured before it runs; a page is fed while it does.
Phases ==
  /\ live => conf_at = "none" /\ page_desc = page_half
  /\ ~live => /\ feeding.feed = {} /\ irq_at = "none" /\ ~stats.valid
              /\ stats.cur = 0 /\ stats_hw = 0 /\ reader.at \in {"none", "rro"}
  /\ conf_at = "desc" => page_seen = page_half
  /\ conf_at = "output" => page_desc = page_half
  /\ conf_at # "filled" => feeding.conf = {}
  /\ feeding.feed \in {{}, {Other(page_half)}}

\* What ar_isp_stats_flip keeps: the half named is not the one armed, and
\* holds a whole frame.
Flipping ==
  /\ irq_at = "none" => stats_hw = stats.cur
  /\ irq_at = "none" /\ stats.valid =>
       stats.done = Other(stats.cur) /\ stats.done \notin partial
  /\ irq_at # "none" => stats_hw = Other(stats.cur) /\ stats.cur \notin partial
  /\ irq_at = "valid" => stats.done = stats.cur

\* As long as its sequence word is current, the reader has picked the half
\* named, unless another one was named that is not counted yet.
Reading ==
  /\ reader.at \notin {"none", "got"} => reader.seq <= stats.flips
  /\ reader.at \in {"rro", "hist", "copy"} => ~reader.torn
  /\ reader.seq = stats.flips /\ irq_at # "valid" =>
       /\ reader.at \in {"hist", "copy", "copy2", "seq"} =>
            stats.valid /\ reader.rro = stats.done
       /\ reader.at \in {"copy", "copy2", "seq"} => reader.hist = stats.done
  /\ reader.at \in {"copy2", "seq"} /\ reader.seq = stats.flips =>
       ~reader.torn /\ reader.rro = reader.hist
  /\ reader.at = "got" => ~reader.torn /\ reader.rro = reader.hist

IspInv == IspTypes /\ Phases /\ Flipping /\ Reading

-----------------------------------------------------------------------------

LEMMA IspTypesHold ==
  ASSUME ~Overlap, IspInv, [IspNext]_ispVars
  PROVE  IspTypes'
<1> USE DEF IspInv, IspTypes, Halves, Other, ltmVars
<1>1. CASE HwWrites
  BY <1>1 DEF HwWrites
<1>2. CASE FlipArms
  BY <1>2 DEF FlipArms, StatsLockFree, NextHalf
<1>3. CASE FlipNames
  BY <1>3 DEF FlipNames
<1>4. CASE FlipCounts
  <2>0. /\ Other(stats.cur) \in {0, 1} /\ stats.flips + 1 \in Nat
        /\ stats.done \in {0, 1}
    OBVIOUS
  <2>1. stats' \in [cur : Halves, done : Halves, valid : BOOLEAN, flips : Nat]
    BY <1>4, <2>0 DEF FlipCounts
  <2> QED BY <1>4, <2>1 DEF FlipCounts
<1>5. CASE ReadSeq
  <2>1. reader' \in Readers
    BY <1>5 DEF ReadSeq, NoReader, Readers, Halves
  <2> QED BY <1>5, <2>1 DEF ReadSeq
<1>6. CASE PickRro
  <2>1. reader' \in Readers
    BY <1>6 DEF PickRro, NoReader, Readers, Halves
  <2> QED BY <1>6, <2>1 DEF PickRro
<1>7. CASE PickHist
  <2>1. reader' \in Readers
    BY <1>7 DEF PickHist, NoReader, Readers, Halves
  <2> QED BY <1>7, <2>1 DEF PickHist
<1>8. CASE CopyRro
  <2>1. reader' \in Readers
    BY <1>8 DEF CopyRro, Copy, Readers, Halves
  <2> QED BY <1>8, <2>1 DEF CopyRro, Copy
<1>9. CASE CopyHist
  <2>1. reader' \in Readers
    BY <1>9 DEF CopyHist, Copy, Readers, Halves
  <2> QED BY <1>9, <2>1 DEF CopyHist, Copy
<1>10. CASE ReadSeqAgain
  <2>1. reader' \in Readers
    BY <1>10 DEF ReadSeqAgain, NoReader, Readers, Halves
  <2> QED BY <1>10, <2>1 DEF ReadSeqAgain
<1>11. CASE ReaderUses
  <2>1. reader' \in Readers
    BY <1>11 DEF ReaderUses, NoReader, Readers, Halves
  <2> QED BY <1>11, <2>1 DEF ReaderUses
<1>12. CASE ConfFills
  BY <1>12 DEF ConfFills
<1>13. CASE PublishResets("filled") \/ PublishResets("output")
  BY <1>13 DEF PublishResets, StatsLockFree
<1>14. CASE PublishInvalid
  BY <1>14 DEF PublishInvalid
<1>15. CASE PublishArms
  BY <1>15 DEF PublishArms
<1>16. CASE PublishReads
  BY <1>16 DEF PublishReads
<1>17. CASE PublishDesc
  BY <1>17 DEF PublishDesc
<1>18. CASE OutputArmed
  BY <1>18 DEF OutputArmed
<1>19. CASE FeedFills
  BY <1>19 DEF FeedFills, IdleHalf
<1>20. CASE FeedPublishes
  BY <1>20 DEF FeedPublishes, IdleHalf
<1>21. CASE UNCHANGED ispVars
  BY <1>21 DEF ispVars, ltmVars
<1> QED BY <1>1, <1>2, <1>3, <1>4, <1>5, <1>6, <1>7, <1>8, <1>9, <1>10,
           <1>11, <1>12, <1>13, <1>14, <1>15, <1>16, <1>17, <1>18, <1>19,
           <1>20, <1>21 DEF IspNext

LEMMA PhasesHold ==
  ASSUME ~Overlap, IspInv, [IspNext]_ispVars
  PROVE  Phases'
<1> USE DEF IspInv, IspTypes, Phases, Readers, Halves, Other, Vendor,
            ltmVars
<1>1. CASE HwWrites
  BY <1>1 DEF HwWrites
<1>2. CASE FlipArms
  BY <1>2 DEF FlipArms, StatsLockFree, NextHalf
<1>3. CASE FlipNames
  BY <1>3 DEF FlipNames
<1>4. CASE FlipCounts
  BY <1>4 DEF FlipCounts
<1>5. CASE ReadSeq
  BY <1>5 DEF ReadSeq, NoReader
<1>6. CASE PickRro
  BY <1>6 DEF PickRro, NoReader
<1>7. CASE PickHist
  BY <1>7 DEF PickHist, NoReader
<1>8. CASE CopyRro
  BY <1>8 DEF CopyRro, Copy
<1>9. CASE CopyHist
  BY <1>9 DEF CopyHist, Copy
<1>10. CASE ReadSeqAgain
  BY <1>10 DEF ReadSeqAgain, NoReader
<1>11. CASE ReaderUses
  BY <1>11 DEF ReaderUses, NoReader
<1>12. CASE ConfFills
  BY <1>12 DEF ConfFills
<1>13. CASE PublishResets("filled") \/ PublishResets("output")
  <2>1. ~live /\ feeding'.conf = {} /\ feeding'.feed = {}
    BY <1>13 DEF PublishResets
  <2>2. /\ stats'.cur = 0 /\ ~stats'.valid /\ conf_at' = "valid"
        /\ UNCHANGED <<stats_hw, irq_at, reader, page_half, live>>
    BY <1>13, <2>1 DEF PublishResets
  <2> QED BY <2>1, <2>2
<1>14. CASE PublishInvalid
  BY <1>14 DEF PublishInvalid
<1>15. CASE PublishArms
  BY <1>15 DEF PublishArms
<1>16. CASE PublishReads
  BY <1>16 DEF PublishReads
<1>17. CASE PublishDesc
  BY <1>17 DEF PublishDesc
<1>18. CASE OutputArmed
  BY <1>18 DEF OutputArmed
<1>19. CASE FeedFills
  BY <1>19 DEF FeedFills, IdleHalf
<1>20. CASE FeedPublishes
  BY <1>20 DEF FeedPublishes, IdleHalf
<1>21. CASE UNCHANGED ispVars
  BY <1>21 DEF ispVars, ltmVars
<1> QED BY <1>1, <1>2, <1>3, <1>4, <1>5, <1>6, <1>7, <1>8, <1>9, <1>10,
           <1>11, <1>12, <1>13, <1>14, <1>15, <1>16, <1>17, <1>18, <1>19,
           <1>20, <1>21 DEF IspNext

LEMMA FlippingHolds ==
  ASSUME ~Overlap, IspInv, [IspNext]_ispVars
  PROVE  Flipping'
<1> USE DEF IspInv, IspTypes, Phases, Flipping, Halves, Other, ltmVars
<1>1. CASE HwWrites
  BY <1>1 DEF HwWrites
<1>2. CASE FlipArms
  BY <1>2 DEF FlipArms, StatsLockFree, NextHalf
<1>3. CASE FlipNames
  BY <1>3 DEF FlipNames
<1>4. CASE FlipCounts
  BY <1>4 DEF FlipCounts
<1>5. CASE ReadSeq
  BY <1>5 DEF ReadSeq, NoReader
<1>6. CASE PickRro
  BY <1>6 DEF PickRro, NoReader
<1>7. CASE PickHist
  BY <1>7 DEF PickHist, NoReader
<1>8. CASE CopyRro
  BY <1>8 DEF CopyRro, Copy
<1>9. CASE CopyHist
  BY <1>9 DEF CopyHist, Copy
<1>10. CASE ReadSeqAgain
  BY <1>10 DEF ReadSeqAgain, NoReader
<1>11. CASE ReaderUses
  BY <1>11 DEF ReaderUses, NoReader
<1>12. CASE ConfFills
  BY <1>12 DEF ConfFills
<1>13. CASE PublishResets("filled") \/ PublishResets("output")
  BY <1>13 DEF PublishResets, StatsLockFree
<1>14. CASE PublishInvalid
  BY <1>14 DEF PublishInvalid
<1>15. CASE PublishArms
  BY <1>15 DEF PublishArms
<1>16. CASE PublishReads
  BY <1>16 DEF PublishReads
<1>17. CASE PublishDesc
  BY <1>17 DEF PublishDesc
<1>18. CASE OutputArmed
  BY <1>18 DEF OutputArmed
<1>19. CASE FeedFills
  BY <1>19 DEF FeedFills, IdleHalf
<1>20. CASE FeedPublishes
  BY <1>20 DEF FeedPublishes, IdleHalf
<1>21. CASE UNCHANGED ispVars
  BY <1>21 DEF ispVars, ltmVars
<1> QED BY <1>1, <1>2, <1>3, <1>4, <1>5, <1>6, <1>7, <1>8, <1>9, <1>10,
           <1>11, <1>12, <1>13, <1>14, <1>15, <1>16, <1>17, <1>18, <1>19,
           <1>20, <1>21 DEF IspNext

LEMMA ReadingHolds ==
  ASSUME ~Overlap, IspInv, [IspNext]_ispVars
  PROVE  Reading'
<1> USE DEF IspInv, IspTypes, Phases, Flipping, Reading, Readers, Halves,
            Other, Vendor, ltmVars
<1>1. CASE HwWrites
  BY <1>1 DEF HwWrites
<1>2. CASE FlipArms
  BY <1>2 DEF FlipArms, StatsLockFree, NextHalf
<1>3. CASE FlipNames
  BY <1>3 DEF FlipNames
<1>4. CASE FlipCounts
  BY <1>4 DEF FlipCounts
<1>5. CASE ReadSeq
  BY <1>5 DEF ReadSeq, NoReader
<1>6. CASE PickRro
  BY <1>6 DEF PickRro, NoReader
<1>7. CASE PickHist
  BY <1>7 DEF PickHist, NoReader
<1>8. CASE CopyRro
  BY <1>8 DEF CopyRro, Copy
<1>9. CASE CopyHist
  BY <1>9 DEF CopyHist, Copy
<1>10. CASE ReadSeqAgain
  BY <1>10 DEF ReadSeqAgain, NoReader
<1>11. CASE ReaderUses
  BY <1>11 DEF ReaderUses, NoReader
<1>12. CASE ConfFills
  BY <1>12 DEF ConfFills
<1>13. CASE PublishResets("filled") \/ PublishResets("output")
  BY <1>13 DEF PublishResets, StatsLockFree
<1>14. CASE PublishInvalid
  BY <1>14 DEF PublishInvalid
<1>15. CASE PublishArms
  BY <1>15 DEF PublishArms
<1>16. CASE PublishReads
  BY <1>16 DEF PublishReads
<1>17. CASE PublishDesc
  BY <1>17 DEF PublishDesc
<1>18. CASE OutputArmed
  BY <1>18 DEF OutputArmed
<1>19. CASE FeedFills
  BY <1>19 DEF FeedFills, IdleHalf
<1>20. CASE FeedPublishes
  BY <1>20 DEF FeedPublishes, IdleHalf
<1>21. CASE UNCHANGED ispVars
  BY <1>21 DEF ispVars, ltmVars
<1> QED BY <1>1, <1>2, <1>3, <1>4, <1>5, <1>6, <1>7, <1>8, <1>9, <1>10,
           <1>11, <1>12, <1>13, <1>14, <1>15, <1>16, <1>17, <1>18, <1>19,
           <1>20, <1>21 DEF IspNext

LEMMA IspInvStarts == IspInit => IspInv
<1> SUFFICES ASSUME IspInit PROVE IspInv
  OBVIOUS
<1> USE DEF IspInit, NoReader, Halves
<1>1. /\ stats \in [cur : Halves, done : Halves, valid : BOOLEAN, flips : Nat]
      /\ reader \in Readers
      /\ feeding \in [feed : SUBSET Halves, conf : SUBSET Halves]
  BY DEF Readers
<1>2. IspTypes
  BY <1>1 DEF IspTypes
<1>3. Phases /\ Flipping
  BY DEF Phases, Flipping
<1>4. Reading
  BY DEF Reading
<1> QED BY <1>2, <1>3, <1>4 DEF IspInv

LEMMA IspInvHolds == ASSUME ~Overlap PROVE IspSpec => []IspInv
<1>1. ASSUME IspInv, [IspNext]_ispVars PROVE IspInv'
  BY <1>1, IspTypesHold, PhasesHold, FlippingHolds, ReadingHolds DEF IspInv
<1> QED BY IspInvStarts, <1>1, PTL DEF IspSpec

\* ar_isp_stats_raw_show, which takes no lock, hands out only statistics of
\* which both blocks are whole and of the same frame.
THEOREM StatsAreCoherent == ASSUME ~Overlap PROVE IspSpec => []StatsCoherent
<1>1. IspInv => StatsCoherent
  BY DEF IspInv, Reading, StatsCoherent
<1> QED BY IspInvHolds, <1>1, PTL

\* ar_isp_ltm_page_publish and ar_isp_fill_ltm never write the half that the
\* descriptor names.
THEOREM FetchedHalfIsStable ==
  ASSUME ~Overlap PROVE IspSpec => []FetchedHalfStable
<1>1. IspInv => FetchedHalfStable
  BY DEF IspInv, IspTypes, Phases, FetchedHalfStable, Other, Halves
<1> QED BY IspInvHolds, <1>1, PTL

-----------------------------------------------------------------------------
(* The buffers of the capture node.                                        *)

FrameOrNone == Frame \cup {NoFrame}

Vb == [state : [Frame -> {"user", "queued", "active", "done"}],
       queued : Seq(Frame), done : Seq(Frame),
       on : BOOLEAN, started : BOOLEAN, by : FrameOrNone]

NodeTypes ==
  /\ vb2 \in Vb
  /\ buffer_list \in Seq(Frame)
  /\ held \in [1..Depth -> FrameOrNone]
  /\ giving \in FrameOrNone
  /\ armed \in Frame \cup 0..(RingSlots - 1)
  /\ next \in 0..(RingSlots - 1)
  /\ streaming \in BOOLEAN
  /\ v_at \in {"none", "start", "arm", "stop", "return", "cancel"}

\* The steps of a stop that are past taking the buffers out of the rotation.
Ending == {"return", "cancel"}

\* Where the ioctls are, against what the tick sees of them.
CallPhases ==
  /\ vb2.started => vb2.on
  /\ v_at = "none" => (vb2.started <=> streaming)
  /\ v_at \in {"start", "arm"} => vb2.started /\ ~streaming
  /\ v_at = "stop" => vb2.started /\ streaming
  /\ v_at \in Ending => ~streaming
  /\ ~streaming /\ v_at # "return" => held = NoneHeld
  /\ ~streaming /\ v_at \notin Ending => giving = NoFrame /\ vb2.done = <<>>
  /\ (v_at = "none" /\ ~vb2.started) \/ v_at = "cancel" => buffer_list = <<>>

\* The rotation holds the queued buffers that are not done, each once.
Conserved ==
  v_at \notin Ending =>
    /\ Once(vb2.queued)
    /\ vb2.started => \E k \in 0..Depth :
                        Filled(k) /\ vb2.queued = vb2.done \o Rotation(k)

\* A buffer is queued or with the user; the queued ones are the driver's from
\* the start of the stream until they are done.
Owned ==
  v_at \notin Ending =>
    /\ \A b \in Frame : vb2.state[b] = "user" <=> ~In(b, vb2.queued)
    /\ ~vb2.started => \A b \in Frame : vb2.state[b] \in {"user", "queued"}
    /\ vb2.started => \A i \in DOMAIN vb2.queued :
                        i > Len(vb2.done) => vb2.state[vb2.queued[i]] = "active"

\* The block points to the ring or to the buffer armed last.
Armed == armed \in Frame => streaming /\ armed = held[1]

NodeInv == NodeTypes /\ CallPhases /\ Conserved /\ Owned /\ Armed

-----------------------------------------------------------------------------
(* The order of the buffers that are held.                                 *)

\* k buffers of h, the last one first.
Aged(h, k) == [i \in 1..k |-> h[k + 1 - i]]

FilledIn(h, k) == \A i \in 1..Depth : h[i] # NoFrame <=> i =< k

\* A buffer enters at the front.
Shifted(h, f) == [i \in 1..Depth |-> IF i = 1 THEN f ELSE h[i - 1]]

LEMMA AgedFacts ==
  ASSUME NEW h \in [1..Depth -> FrameOrNone], NEW k \in 0..Depth, FilledIn(h, k)
  PROVE  /\ Aged(h, k) \in Seq(Frame) /\ Len(Aged(h, k)) = k
         /\ \A i \in 1..k : Aged(h, k)[i] = h[k + 1 - i]
<1>1. ASSUME NEW i \in 1..k
      PROVE  h[k + 1 - i] \in Frame
  <2>1. k + 1 - i \in 1..Depth /\ k + 1 - i =< k
    BY RingAndFrames
  <2> QED BY <2>1 DEF FilledIn, FrameOrNone
<1>2. k \in Nat
  BY RingAndFrames
<1>3. Aged(h, k) \in [1..k -> Frame]
  BY <1>1 DEF Aged
<1>4. Aged(h, k) \in Seq(Frame) /\ Len(Aged(h, k)) = k
  BY <1>2, <1>3
<1> QED BY <1>4 DEF Aged

LEMMA ShiftedFacts ==
  ASSUME NEW h \in [1..Depth -> FrameOrNone], NEW f \in Frame
  PROVE  /\ Shifted(h, f) \in [1..Depth -> FrameOrNone]
         /\ Shifted(h, f)[1] = f
         /\ \A i \in 2..Depth : Shifted(h, f)[i] = h[i - 1]
<1>1. 1 \in 1..Depth /\ \A i \in 2..Depth : i \in 1..Depth /\ i # 1 /\ i - 1 \in 1..Depth
  BY RingAndFrames
<1>2. \A i \in 1..Depth : i = 1 \/ i - 1 \in 1..Depth
  BY RingAndFrames
<1> QED BY <1>1, <1>2 DEF Shifted, FrameOrNone

\* Until the rotation is full nothing leaves it.
LEMMA AgedGrows ==
  ASSUME NEW h \in [1..Depth -> FrameOrNone], NEW k \in 0..Depth, FilledIn(h, k),
         NEW f \in Frame, k # Depth
  PROVE  /\ h[Depth] = NoFrame
         /\ k + 1 \in 0..Depth
         /\ FilledIn(Shifted(h, f), k + 1)
         /\ Aged(Shifted(h, f), k + 1) = Aged(h, k) \o <<f>>
<1> DEFINE g == Shifted(h, f)
<1>1. /\ g \in [1..Depth -> FrameOrNone] /\ g[1] = f
      /\ \A i \in 2..Depth : g[i] = h[i - 1]
  BY ShiftedFacts
<1> HIDE DEF g
<1>2. Depth \in Nat \ {0} /\ k \in Nat /\ k < Depth /\ f # NoFrame
  BY RingAndFrames
<1>3. h[Depth] = NoFrame
  BY <1>2 DEF FilledIn
<1>4. FilledIn(g, k + 1)
  <2> SUFFICES ASSUME NEW i \in 1..Depth
               PROVE  g[i] # NoFrame <=> i =< k + 1
    BY DEF FilledIn
  <2>1. CASE i = 1
    BY <1>1, <1>2, <2>1
  <2>2. CASE i # 1
    <3>1. i \in 2..Depth /\ i - 1 \in 1..Depth /\ (i - 1 =< k <=> i =< k + 1)
      BY <1>2, <2>2
    <3> QED BY <1>1, <3>1 DEF FilledIn
  <2> QED BY <2>1, <2>2
<1> DEFINE a == Aged(h, k)
           c == Aged(g, k + 1)
           d == a \o <<f>>
<1>5. /\ a \in Seq(Frame) /\ Len(a) = k
      /\ \A i \in 1..k : a[i] = h[k + 1 - i]
  BY AgedFacts
<1>6. /\ c \in Seq(Frame) /\ Len(c) = k + 1
      /\ \A i \in 1..(k + 1) : c[i] = g[k + 1 + 1 - i]
  <2>1. k + 1 \in 0..Depth
    BY <1>2
  <2> QED BY <1>1, <1>4, <2>1, AgedFacts
<1> HIDE DEF a, c
<1>7. /\ d \in Seq(Frame) /\ Len(d) = k + 1
      /\ \A i \in 1..k : d[i] = a[i]
      /\ d[k + 1] = f
  BY <1>2, <1>5
<1> HIDE DEF d
<1>8. ASSUME NEW i \in 1..(k + 1)
      PROVE  c[i] = d[i]
  <2>1. CASE i = k + 1
    <3>1. c[i] = g[1]
      BY <1>2, <1>6, <2>1
    <3> QED BY <1>1, <1>7, <2>1, <3>1
  <2>2. CASE i # k + 1
    <3>1. i \in 1..k /\ k + 1 + 1 - i \in 2..Depth /\ (k + 1 + 1 - i) - 1 = k + 1 - i
      BY <1>2, <2>2
    <3>2. c[i] = h[k + 1 - i]
      BY <1>1, <1>6, <3>1
    <3> QED BY <1>5, <1>7, <3>1, <3>2
  <2> QED BY <2>1, <2>2
<1>9. c = d
  BY <1>6, <1>7, <1>8, SeqEqual
<1>10. k + 1 \in 0..Depth
  BY <1>2
<1> QED BY <1>3, <1>4, <1>9, <1>10 DEF a, c, d, g

\* When it is full the oldest leaves.
LEMMA AgedTurns ==
  ASSUME NEW h \in [1..Depth -> FrameOrNone], FilledIn(h, Depth), NEW f \in Frame
  PROVE  /\ h[Depth] \in Frame
         /\ FilledIn(Shifted(h, f), Depth)
         /\ <<h[Depth]>> \o Aged(Shifted(h, f), Depth) = Aged(h, Depth) \o <<f>>
<1> DEFINE g == Shifted(h, f)
<1>1. /\ g \in [1..Depth -> FrameOrNone] /\ g[1] = f
      /\ \A i \in 2..Depth : g[i] = h[i - 1]
  BY ShiftedFacts
<1> HIDE DEF g
<1>2. Depth \in Nat \ {0} /\ Depth \in 0..Depth /\ f # NoFrame
  BY RingAndFrames
<1>3. h[Depth] \in Frame
  BY <1>2 DEF FilledIn, FrameOrNone
<1>4. FilledIn(g, Depth)
  <2> SUFFICES ASSUME NEW i \in 1..Depth
               PROVE  g[i] # NoFrame
    BY DEF FilledIn
  <2>1. CASE i = 1
    BY <1>1, <1>2, <2>1
  <2>2. CASE i # 1
    <3>1. i \in 2..Depth /\ i - 1 \in 1..Depth
      BY <1>2, <2>2
    <3> QED BY <1>1, <3>1 DEF FilledIn
  <2> QED BY <2>1, <2>2
<1> DEFINE a == Aged(h, Depth)
           c == Aged(g, Depth)
           l == <<h[Depth]>> \o c
           r == a \o <<f>>
<1>5. /\ a \in Seq(Frame) /\ Len(a) = Depth
      /\ \A i \in 1..Depth : a[i] = h[Depth + 1 - i]
  BY <1>2, AgedFacts
<1>6. /\ c \in Seq(Frame) /\ Len(c) = Depth
      /\ \A i \in 1..Depth : c[i] = g[Depth + 1 - i]
  BY <1>1, <1>2, <1>4, AgedFacts
<1> HIDE DEF a, c
<1>7. /\ r \in Seq(Frame) /\ Len(r) = Depth + 1
      /\ \A i \in 1..Depth : r[i] = a[i]
      /\ r[Depth + 1] = f
  BY <1>2, <1>5
<1>8. /\ l \in Seq(Frame) /\ Len(l) = Depth + 1
      /\ l[1] = h[Depth]
      /\ \A i \in 2..(Depth + 1) : l[i] = c[i - 1]
  BY <1>2, <1>3, <1>6
<1> HIDE DEF l, r
<1>9. ASSUME NEW i \in 1..(Depth + 1)
      PROVE  l[i] = r[i]
  <2>1. CASE i = 1
    <3>1. 1 \in 1..Depth /\ Depth + 1 - 1 = Depth
      BY <1>2
    <3> QED BY <1>5, <1>7, <1>8, <2>1, <3>1
  <2>2. CASE i = Depth + 1
    <3>1. i \in 2..(Depth + 1) /\ i - 1 \in 1..Depth /\ Depth + 1 - (i - 1) = 1
      BY <1>2, <2>2
    <3> QED BY <1>1, <1>6, <1>7, <1>8, <2>2, <3>1
  <2>3. CASE i # 1 /\ i # Depth + 1
    <3>1. /\ i \in 2..(Depth + 1) /\ i - 1 \in 1..Depth /\ i \in 1..Depth
          /\ Depth + 1 - (i - 1) \in 2..Depth
          /\ (Depth + 1 - (i - 1)) - 1 = Depth + 1 - i
      BY <1>2, <2>3
    <3>2. l[i] = h[Depth + 1 - i]
      BY <1>1, <1>6, <1>8, <3>1
    <3> QED BY <1>5, <1>7, <3>1, <3>2
  <2> QED BY <2>1, <2>2, <2>3
<1>10. l = r
  BY <1>7, <1>8, <1>9, SeqEqual
<1> QED BY <1>3, <1>4, <1>10 DEF a, c, l, r, g
-----------------------------------------------------------------------------
(* The rotation as a whole.                                                *)

RotationOf(g, h, k, l) == Present(g) \o Aged(h, k) \o l

LEMMA PresentFacts ==
  /\ \A b \in FrameOrNone : Present(b) \in Seq(Frame)
  /\ Present(NoFrame) = <<>>
  /\ \A b \in Frame : Present(b) = <<b>>
BY RingAndFrames DEF Present, FrameOrNone

\* The first buffer to arm enters the rotation and the oldest leaves it, to
\* be handed back: nothing else moves.
LEMMA TurnKeeps ==
  ASSUME NEW h \in [1..Depth -> FrameOrNone], NEW k \in 0..Depth, FilledIn(h, k),
         NEW l \in Seq(Frame), l # <<>>
  PROVE  \E n \in 0..Depth :
           /\ FilledIn(Shifted(h, Head(l)), n)
           /\ RotationOf(NoFrame, h, k, l)
                = RotationOf(h[Depth], Shifted(h, Head(l)), n, Tail(l))
<1> DEFINE f == Head(l)
           r == Tail(l)
           a == Aged(h, k)
<1>1. f \in Frame /\ r \in Seq(Frame) /\ <<f>> \in Seq(Frame) /\ l = <<f>> \o r
  <2>1. f \in Frame /\ r \in Seq(Frame) /\ <<f>> \in Seq(Frame)
    OBVIOUS
  <2> DEFINE m == <<f>> \o r
  <2>2. m \in Seq(Frame) /\ Len(m) = Len(l)
    BY <2>1
  <2>3. ASSUME NEW i \in 1..Len(l) PROVE l[i] = m[i]
    BY <2>1
  <2>4. l = m
    BY <2>2, <2>3, SeqEqual
  <2> QED BY <2>1, <2>4
<1>2. a \in Seq(Frame)
  BY AgedFacts
<1>3. RotationOf(NoFrame, h, k, l) = (a \o <<f>>) \o r
  <2> HIDE DEF a, f, r
  <2>1. <<>> \o a = a
    BY <1>2, ConcatEmptySeq
  <2>2. a \o (<<f>> \o r) = (a \o <<f>>) \o r
    BY <1>1, <1>2, ConcatAssociative, SMTT(30)
  <2> QED BY <1>1, <2>1, <2>2, PresentFacts DEF RotationOf, a
<1>4. CASE k # Depth
  <2>1. /\ h[Depth] = NoFrame /\ k + 1 \in 0..Depth
        /\ FilledIn(Shifted(h, f), k + 1)
        /\ Aged(Shifted(h, f), k + 1) = a \o <<f>>
    BY <1>1, <1>4, AgedGrows
  <2>2. a \o <<f>> \in Seq(Frame)
    BY <1>1, <1>2
  <2> HIDE DEF a, f, r
  <2>3. RotationOf(h[Depth], Shifted(h, f), k + 1, r) = (a \o <<f>>) \o r
    <3>1. <<>> \o (a \o <<f>>) = a \o <<f>>
      BY <2>2, ConcatEmptySeq
    <3> QED BY <2>1, <3>1, PresentFacts DEF RotationOf
  <2> QED BY <1>3, <2>1, <2>3 DEF f, r
<1>5. CASE k = Depth
  <2>1. /\ h[Depth] \in Frame /\ FilledIn(Shifted(h, f), Depth)
        /\ <<h[Depth]>> \o Aged(Shifted(h, f), Depth) = a \o <<f>>
    BY <1>1, <1>5, AgedTurns
  <2> HIDE DEF a, f, r
  <2>2. RotationOf(h[Depth], Shifted(h, f), Depth, r) = (a \o <<f>>) \o r
    BY <2>1, PresentFacts DEF RotationOf
  <2> QED BY <1>3, <1>5, <2>1, <2>2 DEF f, r
<1> QED BY <1>4, <1>5

\* What is handed back was the first of the rotation.
LEMMA GiveKeeps ==
  ASSUME NEW b \in Frame, NEW h \in [1..Depth -> FrameOrNone], NEW k \in 0..Depth,
         FilledIn(h, k), NEW l \in Seq(Frame), NEW d \in Seq(Frame)
  PROVE  /\ d \o RotationOf(b, h, k, l) = Append(d, b) \o RotationOf(NoFrame, h, k, l)
         /\ RotationOf(b, h, k, l) \in Seq(Frame)
         /\ RotationOf(b, h, k, l) # <<>>
         /\ RotationOf(b, h, k, l)[1] = b
<1> DEFINE a == Aged(h, k)
<1>1. a \in Seq(Frame) /\ <<b>> \in Seq(Frame)
  BY AgedFacts
<1> HIDE DEF a
<1> DEFINE r == a \o l
<1>2. r \in Seq(Frame) /\ <<>> \o a = a /\ (<<b>> \o a) \o l = <<b>> \o r
  BY <1>1, ConcatEmptySeq, ConcatAssociative
<1>3. RotationOf(b, h, k, l) = <<b>> \o r /\ RotationOf(NoFrame, h, k, l) = r
  BY <1>2, PresentFacts DEF RotationOf, a
<1> HIDE DEF r
<1>4. d \o (<<b>> \o r) = (d \o <<b>>) \o r
  <2>1. ASSUME NEW o \in Seq(Frame) PROVE d \o (o \o r) = (d \o o) \o r
    BY <1>2, ConcatAssociative, SMTT(30)
  <2> QED BY <1>1, <2>1
<1>5. Append(d, b) = d \o <<b>>
  OBVIOUS
<1>6. <<b>> \o r \in Seq(Frame) /\ <<b>> \o r # <<>> /\ (<<b>> \o r)[1] = b
  BY <1>1, <1>2
<1> QED BY <1>3, <1>4, <1>5, <1>6

\* A buffer that is queued is the last of the rotation.
JoinsLast(b, d, g, h, k, l) ==
  Append(d \o RotationOf(g, h, k, l), b) = d \o RotationOf(g, h, k, Append(l, b))

LEMMA QueueKeeps ==
  ASSUME NEW b \in Frame, NEW g \in FrameOrNone, NEW h \in [1..Depth -> FrameOrNone],
         NEW k \in 0..Depth, FilledIn(h, k), NEW l \in Seq(Frame), NEW d \in Seq(Frame)
  PROVE  JoinsLast(b, d, g, h, k, l)
<1> DEFINE p == Present(g) \o Aged(h, k)
<1>1. p \in Seq(Frame) /\ <<b>> \in Seq(Frame)
  <2>1. Present(g) \in Seq(Frame) /\ Aged(h, k) \in Seq(Frame)
    BY AgedFacts, PresentFacts
  <2> QED BY <2>1
<1> HIDE DEF p
<1>2. d \o (p \o l) \in Seq(Frame) /\ p \o l \in Seq(Frame)
  BY <1>1
<1>3. Append(d \o (p \o l), b) = (d \o (p \o l)) \o <<b>> /\ Append(l, b) = l \o <<b>>
  <2>1. \A s \in Seq(Frame) : Append(s, b) = s \o <<b>>
    OBVIOUS
  <2> QED BY <1>2, <2>1
<1>4. (d \o (p \o l)) \o <<b>> = d \o ((p \o l) \o <<b>>)
  BY <1>1, <1>2, ConcatAssociative
<1>5. (p \o l) \o <<b>> = p \o (l \o <<b>>)
  BY <1>1, ConcatAssociative
<1> QED BY <1>3, <1>4, <1>5 DEF JoinsLast, RotationOf, p

\* At the start of a stream every queued buffer is to be armed, and then the
\* first one is.
LEMMA StartKeeps ==
  ASSUME NEW l \in Seq(Frame)
  PROVE  /\ FilledIn(NoneHeld, 0)
         /\ <<>> \o RotationOf(NoFrame, NoneHeld, 0, l) = l
         /\ l # <<>> =>
              LET h == [NoneHeld EXCEPT ![1] = Head(l)] IN
              /\ FilledIn(h, 1)
              /\ RotationOf(NoFrame, h, 1, Tail(l)) = RotationOf(NoFrame, NoneHeld, 0, l)
<1>1. /\ NoneHeld \in [1..Depth -> FrameOrNone] /\ FilledIn(NoneHeld, 0)
      /\ 0 \in 0..Depth /\ 1 \in 0..Depth /\ 1 \in 1..Depth
  BY RingAndFrames DEF NoneHeld, FilledIn, FrameOrNone
<1>2. Aged(NoneHeld, 0) = <<>>
  <2>1. Aged(NoneHeld, 0) \in Seq(Frame) /\ Len(Aged(NoneHeld, 0)) = 0
    BY <1>1, AgedFacts
  <2> QED BY <2>1, EmptySeq
<1>3. RotationOf(NoFrame, NoneHeld, 0, l) = l
  <2>1. <<>> \in Seq(Frame) /\ <<>> \o <<>> = <<>> /\ <<>> \o l = l
    BY EmptySeq, ConcatEmptySeq
  <2> QED BY <1>2, <2>1, PresentFacts DEF RotationOf
<1>4. <<>> \o l = l
  BY ConcatEmptySeq
<1>5. ASSUME l # <<>>
      PROVE  LET h == [NoneHeld EXCEPT ![1] = Head(l)] IN
             /\ FilledIn(h, 1)
             /\ RotationOf(NoFrame, h, 1, Tail(l)) = l
  <2> DEFINE f == Head(l)
             h == [NoneHeld EXCEPT ![1] = f]
  <2>1. f \in Frame /\ f # NoFrame
    BY <1>5, RingAndFrames
  <2>2. h \in [1..Depth -> FrameOrNone] /\ h[1] = f /\ FilledIn(h, 1)
    BY <1>1, <2>1, RingAndFrames DEF NoneHeld, FilledIn, FrameOrNone
  <2>3. Aged(h, 1) = <<f>>
    <3> HIDE DEF h
    <3>1. /\ Aged(h, 1) \in Seq(Frame) /\ Len(Aged(h, 1)) = 1
          /\ \A i \in 1..1 : Aged(h, 1)[i] = h[1 + 1 - i]
      BY <1>1, <2>2, AgedFacts
    <3>2. Aged(h, 1)[1] = f
      BY <2>2, <3>1
    <3>3. <<f>> \in Seq(Frame) /\ Len(<<f>>) = 1 /\ <<f>>[1] = f
      BY <2>1
    <3>4. \A i \in 1..Len(<<f>>) : Aged(h, 1)[i] = <<f>>[i]
      BY <3>2, <3>3
    <3> QED BY <3>1, <3>3, <3>4, SeqEqual
  <2>4. <<f>> \o Tail(l) = l
    <3>1. f \in Frame /\ Tail(l) \in Seq(Frame)
      BY <1>5
    <3> DEFINE m == <<f>> \o Tail(l)
    <3>2. m \in Seq(Frame) /\ Len(m) = Len(l)
      BY <1>5, <3>1
    <3>3. ASSUME NEW i \in 1..Len(l) PROVE l[i] = m[i]
      BY <1>5, <3>1
    <3>4. l = m
      BY <3>2, <3>3, SeqEqual
    <3> QED BY <3>4
  <2>5. <<>> \o <<f>> = <<f>>
    <3>1. <<f>> \in Seq(Frame)
      BY <2>1
    <3> QED BY <3>1, ConcatEmptySeq
  <2> HIDE DEF f
  <2>6. RotationOf(NoFrame, h, 1, Tail(l)) = l
    BY <2>3, <2>4, <2>5, PresentFacts DEF RotationOf
  <2> QED BY <2>2, <2>6 DEF f
<1> QED BY <1>1, <1>3, <1>4, <1>5
-----------------------------------------------------------------------------
(* Every step keeps the invariant.                                         *)

LEMMA RotationIs == \A k : /\ Rotation(k) = RotationOf(giving, held, k, buffer_list)
                           /\ Filled(k) <=> FilledIn(held, k)
  BY DEF Rotation, RotationOf, Aged, Filled, FilledIn

LEMMA RotationIsNext ==
  \A k : /\ Rotation(k)' = RotationOf(giving', held', k, buffer_list')
         /\ Filled(k)' <=> FilledIn(held', k)
  BY DEF Rotation, RotationOf, Aged, Filled, FilledIn, Present

\* The queue stays as it is, and so does what the driver has.
LEMMA SameBuffers ==
  ASSUME Conserved, Owned, UNCHANGED <<vb2, buffer_list, held, giving>>,
         v_at' \notin Ending => v_at \notin Ending
  PROVE  Conserved' /\ Owned'
<1>1. Conserved'
  BY DEF Conserved, Filled, Rotation, Present, Once
<1>2. Owned'
  BY DEF Owned, In
<1> QED BY <1>1, <1>2

LEMMA RingTickKeeps == NodeInv /\ RingTick => NodeInv'
<1> SUFFICES ASSUME NodeInv, RingTick PROVE NodeInv'
  OBVIOUS
<1>1. UNCHANGED <<vb2, buffer_list, held, giving, streaming, v_at>> /\ ~streaming
      /\ armed' = next /\ next' = Cycled
  BY DEF RingTick
<1>2. NodeTypes'
  <2>1. Cycled \in 0..(RingSlots - 1)
    BY RingAndFrames DEF Cycled, NodeInv, NodeTypes, Vb
  <2> QED BY <1>1, <2>1 DEF NodeInv, NodeTypes, Vb
<1>3. CallPhases'
  BY <1>1 DEF NodeInv, CallPhases
<1>4. Conserved' /\ Owned'
  BY <1>1, SameBuffers DEF NodeInv
<1>5. Armed'
  BY <1>1, RingAndFrames DEF NodeInv, NodeTypes, Vb, Armed
<1> QED BY <1>2, <1>3, <1>4, <1>5 DEF NodeInv

LEMMA FrameTickKeeps == NodeInv /\ FrameTick => NodeInv'
<1> SUFFICES ASSUME NodeInv, FrameTick PROVE NodeInv'
  OBVIOUS
<1> DEFINE f == Head(buffer_list)
<1>1. /\ giving = NoFrame /\ streaming /\ buffer_list # <<>>
      /\ buffer_list' = Tail(buffer_list) /\ giving' = held[Depth]
      /\ held' = Shifted(held, f) /\ armed' = f /\ next' = Cycled
      /\ UNCHANGED <<vb2, configured, streaming, v_at>>
  BY DEF FrameTick, Shifted, Oldest
<1>2. /\ held \in [1..Depth -> FrameOrNone] /\ buffer_list \in Seq(Frame)
      /\ f \in Frame /\ Tail(buffer_list) \in Seq(Frame) /\ Depth \in 1..Depth
      /\ next \in 0..(RingSlots - 1)
  <2>1. /\ held \in [1..Depth -> FrameOrNone] /\ buffer_list \in Seq(Frame)
        /\ next \in 0..(RingSlots - 1)
    BY DEF NodeInv, NodeTypes, Vb
  <2> QED BY <1>1, <2>1, RingAndFrames
<1>3. held' \in [1..Depth -> FrameOrNone] /\ held'[1] = f
  BY <1>1, <1>2, ShiftedFacts
<1>4. v_at \in {"none", "stop"} /\ vb2.started
  BY <1>1 DEF NodeInv, NodeTypes, Vb, CallPhases, Ending
<1>5. NodeTypes'
  <2>1. Cycled \in 0..(RingSlots - 1)
    BY <1>2, RingAndFrames DEF Cycled
  <2>2. giving' \in FrameOrNone /\ armed' \in Frame /\ buffer_list' \in Seq(Frame)
    BY <1>1, <1>2
  <2> HIDE DEF f
  <2> QED BY <1>1, <1>3, <2>1, <2>2 DEF NodeInv, NodeTypes, Vb
<1>6. CallPhases'
  BY <1>1, <1>4 DEF NodeInv, CallPhases, Ending
<1>7. Conserved'
  <2>1. Once(vb2.queued)
    BY <1>4 DEF NodeInv, Conserved, Ending
  <2>2. PICK k \in 0..Depth : FilledIn(held, k)
                  /\ vb2.queued = vb2.done \o RotationOf(giving, held, k, buffer_list)
    BY <1>4, RotationIs DEF NodeInv, Conserved, Ending
  <2>3. PICK n \in 0..Depth :
          /\ FilledIn(held', n)
          /\ RotationOf(NoFrame, held, k, buffer_list)
               = RotationOf(giving', held', n, buffer_list')
    BY <1>1, <1>2, <2>2, TurnKeeps
  <2>4. vb2'.queued = vb2'.done \o RotationOf(giving', held', n, buffer_list')
    BY <1>1, <2>2, <2>3
  <2>5. Filled(n)' /\ vb2'.queued = vb2'.done \o Rotation(n)'
    BY <2>3, <2>4, RotationIsNext
  <2>6. Once(vb2.queued)'
    BY <1>1, <2>1 DEF Once
  <2> QED BY <2>5, <2>6 DEF Conserved
<1>8. Owned'
  BY <1>1 DEF NodeInv, Owned, In
<1>9. Armed'
  BY <1>1, <1>3 DEF Armed
<1> QED BY <1>5, <1>6, <1>7, <1>8, <1>9 DEF NodeInv

LEMMA TickGivesKeeps == NodeInv /\ TickGives => NodeInv'
<1> SUFFICES ASSUME NodeInv, TickGives PROVE NodeInv'
  OBVIOUS
<1>1. /\ giving \in Frame /\ giving' = NoFrame
      /\ UNCHANGED <<buffer_list, held, armed, next, streaming, v_at>>
      /\ \/ vb2.state[giving] # "active" /\ vb2' = vb2
         \/ vb2' = [vb2 EXCEPT !.state[giving] = "done", !.done = Append(@, giving)]
  BY DEF TickGives, NodeInv, NodeTypes, Vb, FrameOrNone
<1>2. NodeTypes'
  <2>1. CASE vb2' = vb2
    BY <1>1, <2>1 DEF NodeInv, NodeTypes, Vb, FrameOrNone
  <2>2. CASE vb2' = [vb2 EXCEPT !.state[giving] = "done", !.done = Append(@, giving)]
    <3>1. Append(vb2.done, giving) \in Seq(Frame)
      BY <1>1 DEF NodeInv, NodeTypes, Vb
    <3>2. vb2' \in Vb
      BY <1>1, <2>2, <3>1 DEF NodeInv, NodeTypes, Vb
    <3> QED BY <1>1, <3>2 DEF NodeInv, NodeTypes, Vb, FrameOrNone
  <2> QED BY <1>1, <2>1, <2>2
<1>3. vb2'.started = vb2.started /\ vb2'.queued = vb2.queued /\ vb2'.on = vb2.on
  BY <1>1 DEF NodeInv, NodeTypes, Vb
<1>4. streaming \/ v_at \in Ending
  BY <1>1, RingAndFrames DEF NodeInv, CallPhases
<1>5. CallPhases'
  BY <1>1, <1>3, <1>4 DEF NodeInv, CallPhases, Ending
<1>6. Armed'
  BY <1>1 DEF NodeInv, Armed
<1>7. CASE v_at \in Ending
  <2>1. Conserved' /\ Owned'
    BY <1>1, <1>7 DEF Conserved, Owned
  <2> QED BY <1>2, <1>5, <1>6, <2>1 DEF NodeInv
<1>8. CASE v_at \notin Ending
  <2>1. vb2.started
    BY <1>4, <1>8 DEF NodeInv, NodeTypes, Vb, CallPhases, Ending
  <2>2. /\ vb2.done \in Seq(Frame) /\ held \in [1..Depth -> FrameOrNone]
        /\ vb2.queued \in Seq(Frame) /\ buffer_list \in Seq(Frame)
    BY DEF NodeInv, NodeTypes, Vb
  <2>3. PICK k \in 0..Depth : FilledIn(held, k)
                  /\ vb2.queued = vb2.done \o RotationOf(giving, held, k, buffer_list)
    BY <1>8, <2>1, RotationIs DEF NodeInv, Conserved
  <2> DEFINE r == RotationOf(giving, held, k, buffer_list)
             s == RotationOf(NoFrame, held, k, buffer_list)
  <2>4. /\ vb2.done \o r = Append(vb2.done, giving) \o s
        /\ r \in Seq(Frame) /\ r # <<>> /\ r[1] = giving
    <3> HIDE DEF r, s
    <3>1. ASSUME NEW d \in Seq(Frame)
          PROVE  /\ d \o r = Append(d, giving) \o s
                 /\ r \in Seq(Frame) /\ r # <<>> /\ r[1] = giving
      <4>1. /\ giving \in Frame /\ held \in [1..Depth -> FrameOrNone]
            /\ FilledIn(held, k) /\ buffer_list \in Seq(Frame)
        BY <1>1, <2>2, <2>3
      <4>2. /\ d \o RotationOf(giving, held, k, buffer_list)
                 = Append(d, giving) \o RotationOf(NoFrame, held, k, buffer_list)
            /\ RotationOf(giving, held, k, buffer_list) \in Seq(Frame)
            /\ RotationOf(giving, held, k, buffer_list) # <<>>
            /\ RotationOf(giving, held, k, buffer_list)[1] = giving
        BY <4>1, GiveKeeps
      <4> QED BY <4>2 DEF r, s
    <3> HIDE DEF r, s
    <3> QED BY <2>2, <3>1
  <2> HIDE DEF r, s
  <2> DEFINE p == Len(vb2.done) + 1
  <2>5. p \in DOMAIN vb2.queued /\ vb2.queued[p] = giving /\ p > Len(vb2.done)
    <3>1. vb2.queued = vb2.done \o r
      BY <2>3 DEF r
    <3> DEFINE d == vb2.done
    <3>2. d \in Seq(Frame)
      BY <2>2
    <3> HIDE DEF d
    <3>3. Len(d) + 1 \in DOMAIN (d \o r) /\ (d \o r)[Len(d) + 1] = r[1]
          /\ Len(d) + 1 > Len(d)
      BY <2>4, <3>2
    <3> QED BY <2>4, <3>1, <3>3 DEF d
  <2>6. vb2.state[giving] = "active"
    BY <1>8, <2>1, <2>5 DEF NodeInv, Owned
  <2>7. /\ vb2'.done = Append(vb2.done, giving) /\ Len(vb2'.done) = Len(vb2.done) + 1
        /\ vb2'.state = [vb2.state EXCEPT ![giving] = "done"]
    <3>1. vb2' = [vb2 EXCEPT !.state[giving] = "done", !.done = Append(@, giving)]
      BY <1>1, <2>6
    <3>2. /\ vb2'.done = Append(vb2.done, giving)
          /\ vb2'.state = [vb2.state EXCEPT ![giving] = "done"]
      BY <3>1 DEF NodeInv, NodeTypes, Vb
    <3> QED BY <1>1, <2>2, <3>2
  <2>8. Conserved'
    <3>1. Filled(k)' /\ Rotation(k)' = s
      BY <1>1, <2>3, RotationIsNext DEF s
    <3>2. vb2'.queued = vb2'.done \o Rotation(k)'
      BY <1>3, <2>3, <2>4, <2>7, <3>1 DEF r
    <3>3. Once(vb2.queued)'
      BY <1>3, <1>8 DEF NodeInv, Conserved, Once
    <3> QED BY <3>1, <3>2, <3>3 DEF Conserved
  <2>9. Owned'
    <3>1. ASSUME NEW b \in Frame
          PROVE  vb2'.state[b] = "user" <=> ~In(b, vb2.queued)
      <4>1. vb2.state[b] = "user" <=> ~In(b, vb2.queued)
        BY <1>8 DEF NodeInv, Owned
      <4>2. In(giving, vb2.queued)
        BY <2>5 DEF In
      <4>3. vb2.state \in [Frame -> {"user", "queued", "active", "done"}]
        BY DEF NodeInv, NodeTypes, Vb
      <4> QED BY <2>7, <4>1, <4>2, <4>3
    <3>2. ASSUME NEW i \in DOMAIN vb2.queued, i > Len(vb2'.done)
          PROVE  vb2'.state[vb2.queued[i]] = "active"
      <4>1. i > Len(vb2.done) /\ i # p /\ Len(vb2.done) \in Nat
        <5>1. Len(vb2.done) \in Nat /\ i \in Nat
          BY <2>2
        <5> QED BY <2>7, <3>2, <5>1
      <4>2. vb2.state[vb2.queued[i]] = "active" /\ vb2.queued[i] # giving
        BY <1>8, <2>1, <2>5, <4>1 DEF NodeInv, Owned, Conserved, Once
      <4>3. vb2.queued[i] \in Frame
        BY <2>2
      <4>4. vb2.state \in [Frame -> {"user", "queued", "active", "done"}]
        BY DEF NodeInv, NodeTypes, Vb
      <4> QED BY <2>7, <4>2, <4>3, <4>4
    <3>3. (\A b \in Frame : vb2.state[b] = "user" <=> ~In(b, vb2.queued))'
      BY <1>3, <3>1 DEF In
    <3>4. vb2'.started
      BY <1>3, <2>1
    <3> QED BY <1>3, <3>2, <3>3, <3>4 DEF Owned
  <2> QED BY <1>2, <1>5, <1>6, <2>8, <2>9 DEF NodeInv
<1> QED BY <1>7, <1>8
\* vb2_start_streaming, from a queue that has all of its buffers.
LEMMA StartingKeeps ==
  ASSUME NodeInv, v_at = "none", ~vb2.started,
         NEW vb \in Vb, NEW by \in FrameOrNone, Starting(vb, by), vb.on,
         UNCHANGED <<held, giving, armed, next, streaming>>,
         Once(vb.queued), vb.done = <<>>,
         \A b \in Frame : vb.state[b] \in {"user", "queued"}
                            /\ (vb.state[b] = "user" <=> ~In(b, vb.queued))
  PROVE  NodeInv'
<1>1. /\ ~streaming /\ held = NoneHeld /\ giving = NoFrame /\ v_at' = "start"
      /\ buffer_list' = vb.queued
  BY DEF NodeInv, CallPhases, Starting, Ending
<1>2. /\ vb2' \in Vb /\ vb2'.started /\ vb2'.on
      /\ vb2'.queued = vb.queued /\ vb2'.done = <<>>
      /\ \A b \in Frame : vb2'.state[b] = IF vb.state[b] = "queued" THEN "active"
                                                                ELSE vb.state[b]
  <2>1. vb2' = [vb EXCEPT !.started = TRUE, !.by = by,
                  !.state = [b \in Frame |-> IF vb.state[b] = "queued" THEN "active"
                                                                  ELSE vb.state[b]]]
    BY DEF Starting
  <2> DEFINE st == [b \in Frame |-> IF vb.state[b] = "queued" THEN "active"
                                                                  ELSE vb.state[b]]
  <2>2. st \in [Frame -> {"user", "queued", "active", "done"}]
    BY DEF Vb
  <2>3. /\ vb2'.state = st /\ vb2'.started /\ vb2'.queued = vb.queued /\ vb2'.on
        /\ vb2'.done = vb.done
    BY <2>1 DEF Vb
  <2>4. vb2' \in Vb
    <3> HIDE DEF st
    <3> QED BY <2>1, <2>2 DEF Vb, st
  <2> QED BY <2>3, <2>4
<1>3. NodeTypes'
  <2>1. vb.queued \in Seq(Frame)
    BY DEF Vb
  <2> QED BY <1>1, <1>2, <2>1 DEF NodeInv, NodeTypes
<1>4. CallPhases'
  BY <1>1, <1>2 DEF CallPhases, Ending
<1>5. Conserved'
  <2>1. vb.queued \in Seq(Frame)
    BY DEF Vb
  <2>2. /\ FilledIn(NoneHeld, 0) /\ 0 \in 0..Depth
        /\ <<>> \o RotationOf(NoFrame, NoneHeld, 0, vb.queued) = vb.queued
    <3>1. \A l \in Seq(Frame) : /\ FilledIn(NoneHeld, 0)
                               /\ <<>> \o RotationOf(NoFrame, NoneHeld, 0, l) = l
      BY StartKeeps
    <3>2. 0 \in 0..Depth
      BY RingAndFrames
    <3> QED BY <2>1, <3>1, <3>2
  <2>3. Filled(0)' /\ vb2'.queued = vb2'.done \o Rotation(0)'
    BY <1>1, <1>2, <2>2, RotationIsNext
  <2>4. Once(vb2.queued)'
    BY <1>2 DEF Once
  <2> QED BY <2>2, <2>3, <2>4 DEF Conserved
<1>6. Owned'
  <2>1. \A b \in Frame : vb2'.state[b] = "user" <=> ~In(b, vb.queued)
    BY <1>2
  <2>2. ASSUME NEW i \in DOMAIN vb.queued
        PROVE  vb2'.state[vb.queued[i]] = "active"
    <3>1. vb.queued[i] \in Frame
      BY DEF Vb
    <3>2. In(vb.queued[i], vb.queued)
      BY DEF In
    <3> QED BY <1>2, <3>1, <3>2
  <2>3. (\A b \in Frame : vb2.state[b] = "user" <=> ~In(b, vb2.queued))'
    BY <1>2, <2>1 DEF In
  <2> QED BY <1>2, <2>2, <2>3 DEF Owned
<1>7. Armed'
  BY <1>1 DEF NodeInv, Armed
<1> QED BY <1>3, <1>4, <1>5, <1>6, <1>7 DEF NodeInv

\* A buffer joins a queue it is not in.
LEMMA AppendOnce ==
  ASSUME NEW s \in Seq(Frame), NEW b \in Frame, Once(s), ~In(b, s)
  PROVE  /\ Append(s, b) \in Seq(Frame) /\ Once(Append(s, b))
         /\ \A f : In(f, Append(s, b)) <=> In(f, s) \/ f = b
         /\ Len(Append(s, b)) = Len(s) + 1
         /\ Append(s, b)[Len(s) + 1] = b
         /\ \A i \in 1..Len(s) : Append(s, b)[i] = s[i]
<1> DEFINE t == Append(s, b)
           n == Len(s)
<1>1. /\ t \in Seq(Frame) /\ n \in Nat /\ Len(t) = n + 1 /\ DOMAIN t = 1..(n + 1)
      /\ DOMAIN s = 1..n /\ t[n + 1] = b /\ \A i \in 1..n : t[i] = s[i]
  BY AppendProperties
<1> HIDE DEF t, n
<1>2. \A i \in 1..(n + 1) : i \in 1..n \/ i = n + 1
  BY <1>1
<1>3. n + 1 \in 1..(n + 1) /\ \A i \in 1..n : i \in 1..(n + 1)
  BY <1>1
<1>4. Once(t)
  BY <1>1, <1>2 DEF Once, In
<1>5. \A f : In(f, t) <=> In(f, s) \/ f = b
  BY <1>1, <1>2, <1>3 DEF In
<1> QED BY <1>1, <1>4, <1>5 DEF t, n

LEMMA QbufKeeps == ASSUME NodeInv, NEW b \in Frame, Qbuf(b) PROVE NodeInv'
<1> DEFINE vb == [vb2 EXCEPT !.state[b] = "queued", !.queued = Append(@, b)]
           s == vb2.queued
<1>1. /\ v_at = "none" /\ vb2.state[b] = "user"
      /\ UNCHANGED <<held, giving, armed, next, streaming>>
  BY DEF Qbuf, Ioctl
<1>2. /\ vb2 \in Vb /\ s \in Seq(Frame) /\ buffer_list \in Seq(Frame)
      /\ vb2.done \in Seq(Frame) /\ giving \in FrameOrNone
      /\ held \in [1..Depth -> FrameOrNone]
  BY DEF NodeInv, NodeTypes, Vb
<1>3. Once(s) /\ ~In(b, s)
  BY <1>1 DEF NodeInv, Conserved, Owned, Ending
<1>4. /\ Append(s, b) \in Seq(Frame) /\ Once(Append(s, b))
      /\ \A f : In(f, Append(s, b)) <=> In(f, s) \/ f = b
      /\ Len(Append(s, b)) = Len(s) + 1
      /\ Append(s, b)[Len(s) + 1] = b
      /\ \A i \in 1..Len(s) : Append(s, b)[i] = s[i]
  BY <1>2, <1>3, AppendOnce
<1>5. CASE vb2.started /\ vb2' = [vb EXCEPT !.state[b] = "active"]
           /\ buffer_list' = Append(buffer_list, b) /\ UNCHANGED v_at
  <2>1. vb2' = [vb2 EXCEPT !.state = [@ EXCEPT ![b] = "active"], !.queued = Append(@, b)]
    BY <1>2, <1>5 DEF Vb
  <2>2. /\ vb2' \in Vb /\ vb2'.started /\ vb2'.queued = Append(s, b)
        /\ vb2'.done = vb2.done /\ vb2'.on = vb2.on
        /\ vb2'.state = [vb2.state EXCEPT ![b] = "active"]
    BY <1>2, <1>4, <1>5, <2>1 DEF Vb
  <2>3. NodeTypes'
    BY <1>1, <1>2, <1>5, <2>2 DEF NodeInv, NodeTypes
  <2>4. CallPhases'
    BY <1>1, <1>5, <2>2 DEF NodeInv, CallPhases, Ending
  <2>5. Conserved'
    <3>1. PICK k \in 0..Depth : FilledIn(held, k)
                    /\ s = vb2.done \o RotationOf(giving, held, k, buffer_list)
      BY <1>1, <1>5, RotationIs DEF NodeInv, Conserved, Ending
    <3>2. FilledIn(held, k)
      BY <3>1
    <3>3. Append(vb2.done \o RotationOf(giving, held, k, buffer_list), b)
            = vb2.done \o RotationOf(giving, held, k, Append(buffer_list, b))
      <4>1. JoinsLast(b, vb2.done, giving, held, k, buffer_list)
        BY <1>2, <3>2, QueueKeeps
      <4> QED BY <4>1 DEF JoinsLast
    <3>4. Append(s, b) = vb2.done \o RotationOf(giving, held, k, Append(buffer_list, b))
      BY <3>1, <3>3
    <3>5. Rotation(k)' = RotationOf(giving, held, k, Append(buffer_list, b)) /\ Filled(k)'
      BY <1>1, <1>5, <3>2, RotationIsNext
    <3>6. Filled(k)' /\ vb2'.queued = vb2'.done \o Rotation(k)'
      BY <2>2, <3>4, <3>5
    <3>7. Once(vb2.queued)'
      BY <1>4, <2>2 DEF Once
    <3> QED BY <3>6, <3>7 DEF Conserved
  <2>6. Owned'
    <3>1. ASSUME NEW f \in Frame
          PROVE  vb2'.state[f] = "user" <=> ~In(f, Append(s, b))
      <4>1. vb2.state[f] = "user" <=> ~In(f, s)
        BY <1>1 DEF NodeInv, Owned, Ending
      <4>2. vb2'.state[f] = IF f = b THEN "active" ELSE vb2.state[f]
        BY <1>2, <2>2 DEF Vb
      <4> QED BY <1>4, <4>1, <4>2
    <3>2. ASSUME NEW i \in 1..(Len(s) + 1), i > Len(vb2.done)
          PROVE  vb2'.state[Append(s, b)[i]] = "active"
      <4>1. CASE i = Len(s) + 1
        BY <1>2, <1>4, <2>2, <4>1 DEF Vb
      <4>2. CASE i # Len(s) + 1
        <5>1. i \in 1..Len(s) /\ i \in DOMAIN s
          BY <1>2, <4>2
        <5>2. vb2.state[s[i]] = "active" /\ s[i] \in Frame
          BY <1>1, <1>2, <1>5, <3>2, <5>1 DEF NodeInv, Owned, Ending
        <5> QED BY <1>2, <1>4, <2>2, <5>1, <5>2 DEF Vb
      <4> QED BY <4>1, <4>2
    <3>3. (\A f \in Frame : vb2.state[f] = "user" <=> ~In(f, vb2.queued))'
      BY <2>2, <3>1 DEF In
    <3>4. DOMAIN vb2'.queued = 1..(Len(s) + 1)
      BY <1>4, <2>2
    <3> QED BY <2>2, <3>2, <3>3, <3>4 DEF Owned
  <2>7. Armed'
    BY <1>1 DEF NodeInv, Armed
  <2> QED BY <2>3, <2>4, <2>5, <2>6, <2>7 DEF NodeInv
<1>6. ASSUME ~vb2.started
      PROVE  /\ vb \in Vb /\ vb.queued = Append(s, b) /\ vb.done = <<>>
             /\ ~vb.started /\ vb.on = vb2.on
             /\ \A f \in Frame : vb.state[f] \in {"user", "queued"}
                                   /\ (vb.state[f] = "user" <=> ~In(f, vb.queued))
  <2>1. /\ vb \in Vb /\ vb.queued = Append(s, b) /\ vb.done = vb2.done
        /\ vb.started = vb2.started /\ vb.on = vb2.on
        /\ vb.state = [vb2.state EXCEPT ![b] = "queued"]
    BY <1>2, <1>4 DEF Vb
  <2>2. vb2.done = <<>>
    BY <1>1, <1>6 DEF NodeInv, CallPhases, Ending
  <2> HIDE DEF vb
  <2>3. ASSUME NEW f \in Frame
        PROVE  vb.state[f] \in {"user", "queued"}
                 /\ (vb.state[f] = "user" <=> ~In(f, vb.queued))
    <3>1. vb2.state[f] \in {"user", "queued"} /\ (vb2.state[f] = "user" <=> ~In(f, s))
      BY <1>1, <1>6 DEF NodeInv, Owned, Ending
    <3>2. vb.state[f] = IF f = b THEN "queued" ELSE vb2.state[f]
      BY <1>2, <2>1 DEF Vb
    <3> QED BY <1>4, <2>1, <3>1, <3>2
  <2> QED BY <1>6, <2>1, <2>2, <2>3
<1>7. CASE ~vb2.started /\ vb2.on /\ Starting(vb, b)
  <2> HIDE DEF vb
  <2>1. Once(vb.queued) /\ b \in FrameOrNone
    BY <1>4, <1>6, <1>7 DEF FrameOrNone
  <2> QED BY <1>1, <1>6, <1>7, <2>1, StartingKeeps
<1>8. CASE ~vb2.started /\ vb2' = vb /\ UNCHANGED <<buffer_list, v_at>>
  <2> HIDE DEF vb
  <2>1. NodeTypes'
    BY <1>1, <1>6, <1>8 DEF NodeInv, NodeTypes
  <2>2. CallPhases'
    BY <1>1, <1>6, <1>8 DEF NodeInv, CallPhases, Ending
  <2>3. Once(vb.queued)
    BY <1>4, <1>6, <1>8
  <2>4. Conserved'
    BY <1>6, <1>8, <2>3 DEF Conserved, Once
  <2>5. Owned'
    BY <1>6, <1>8 DEF Owned, In
  <2>6. Armed'
    BY <1>1 DEF NodeInv, Armed
  <2> QED BY <2>1, <2>2, <2>4, <2>5, <2>6 DEF NodeInv
<1> QED BY <1>5, <1>7, <1>8 DEF Qbuf
LEMMA DqbufKeeps == NodeInv /\ Dqbuf => NodeInv'
<1> SUFFICES ASSUME NodeInv, Dqbuf PROVE NodeInv'
  OBVIOUS
<1> DEFINE s == vb2.queued
           d == vb2.done
           b == Head(d)
           t == RemoveFirst(s, b)
<1>1. /\ v_at = "none" /\ d # <<>>
      /\ vb2' = [vb2 EXCEPT !.done = Tail(d), !.queued = t, !.state[b] = "user"]
      /\ UNCHANGED <<buffer_list, held, giving, armed, next, streaming, v_at>>
  BY DEF Dqbuf, Ioctl
<1>2. /\ vb2 \in Vb /\ s \in Seq(Frame) /\ buffer_list \in Seq(Frame)
      /\ d \in Seq(Frame) /\ giving \in FrameOrNone
      /\ held \in [1..Depth -> FrameOrNone]
      /\ vb2.state \in [Frame -> {"user", "queued", "active", "done"}]
  BY DEF NodeInv, NodeTypes, Vb
<1>3. b \in Frame /\ Tail(d) \in Seq(Frame) /\ Len(d) \in Nat \ {0}
      /\ Len(Tail(d)) = Len(d) - 1 /\ d[1] = b /\ DOMAIN d = 1..Len(d)
  <2>1. b \in Frame /\ Tail(d) \in Seq(Frame) /\ d[1] = b /\ DOMAIN d = 1..Len(d)
    BY <1>1, <1>2
  <2> QED BY <1>1, <1>2, <2>1, TailFacts
<1>4. vb2.started /\ streaming
  BY <1>1 DEF NodeInv, NodeTypes, CallPhases, Ending
<1>5. PICK k \in 0..Depth : FilledIn(held, k)
                /\ s = d \o RotationOf(giving, held, k, buffer_list)
  BY <1>1, <1>4, RotationIs DEF NodeInv, Conserved, Ending
<1> DEFINE r == RotationOf(giving, held, k, buffer_list)
<1>6. r \in Seq(Frame)
  <2>1. Present(giving) \in Seq(Frame) /\ Aged(held, k) \in Seq(Frame)
    BY <1>2, <1>5, AgedFacts, PresentFacts
  <2> QED BY <1>2, <2>1 DEF RotationOf
<1>7. Once(s)
  BY <1>1 DEF NodeInv, Conserved, Ending
<1> HIDE DEF r
<1>8. s # <<>> /\ s[1] = b /\ Tail(s) = Tail(d) \o r
  <2>1. s = d \o r
    BY <1>5 DEF r
  <2> HIDE DEF d, s, b
  <2>2. (d \o r) # <<>> /\ (d \o r)[1] = d[1]
    BY <1>2, <1>3, <1>6
  <2>3. Tail(d \o r) = Tail(d) \o r
    <3> DEFINE m == d \o r
               n == Tail(d) \o r
    <3>1. /\ m \in Seq(Frame) /\ Len(m) = Len(d) + Len(r) /\ Len(r) \in Nat
          /\ \A i \in 1..(Len(d) + Len(r)) :
               m[i] = IF i =< Len(d) THEN d[i] ELSE r[i - Len(d)]
      BY <1>2, <1>6, ConcatProperties
    <3>2. /\ n \in Seq(Frame) /\ Len(n) = Len(d) - 1 + Len(r)
          /\ \A i \in 1..(Len(d) - 1 + Len(r)) :
               n[i] = IF i =< Len(d) - 1 THEN Tail(d)[i] ELSE r[i - (Len(d) - 1)]
      BY <1>3, <1>6, ConcatProperties
    <3>3. \A i \in 1..(Len(d) - 1) : Tail(d)[i] = d[i + 1]
      BY <1>1, <1>2, <1>3, HeadTailProperties
    <3> HIDE DEF m, n
    <3>4. Tail(m) \in Seq(Frame) /\ Len(Tail(m)) = Len(m) - 1
          /\ \A i \in 1..(Len(m) - 1) : Tail(m)[i] = m[i + 1]
      <4>1. m # <<>>
        BY <2>2 DEF m
      <4> QED BY <3>1, <4>1, HeadTailProperties
    <3>5. ASSUME NEW i \in 1..Len(n)
          PROVE  Tail(m)[i] = n[i]
      <4>1. i + 1 \in 1..(Len(d) + Len(r)) /\ i \in 1..(Len(m) - 1)
            /\ (i + 1 =< Len(d) <=> i =< Len(d) - 1)
            /\ (i + 1) - Len(d) = i - (Len(d) - 1)
        BY <1>3, <3>1, <3>2
      <4>2. Tail(m)[i] = IF i + 1 =< Len(d) THEN d[i + 1] ELSE r[(i + 1) - Len(d)]
        BY <3>1, <3>4, <4>1
      <4>3. n[i] = IF i =< Len(d) - 1 THEN Tail(d)[i] ELSE r[i - (Len(d) - 1)]
        BY <3>2
      <4>4. i =< Len(d) - 1 => i \in 1..(Len(d) - 1)
        BY <1>3, <3>2
      <4> QED BY <3>3, <4>1, <4>2, <4>3, <4>4
    <3>6. Len(Tail(m)) = Len(n)
      BY <1>3, <3>1, <3>2, <3>4
    <3> QED BY <3>2, <3>4, <3>5, <3>6, SeqEqual DEF m, n
  <2> QED BY <1>3, <2>1, <2>2, <2>3
<1>9. /\ t \in Seq(Frame) /\ Once(t) /\ t = Tail(s)
      /\ \A f : In(f, t) <=> In(f, s) /\ f # b
  <2>1. s \in Seq(Frame) /\ s # <<>> /\ b = s[1]
    BY <1>2, <1>8
  <2> HIDE DEF s, b, d
  <2>2. ASSUME NEW q \in Seq(Frame), Once(q), q # <<>>, NEW c, c = q[1]
        PROVE  /\ RemoveFirst(q, c) \in Seq(Frame) /\ Once(RemoveFirst(q, c))
               /\ RemoveFirst(q, c) = Tail(q)
               /\ \A f : In(f, RemoveFirst(q, c)) <=> In(f, q) /\ f # c
    BY <2>2, RemoveFirstFacts
  <2> QED BY <1>7, <2>1, <2>2
<1> HIDE DEF t
<1>10. /\ vb2' \in Vb /\ vb2'.queued = t /\ vb2'.done = Tail(d)
       /\ vb2'.started /\ vb2'.on = vb2.on
       /\ vb2'.state = [vb2.state EXCEPT ![b] = "user"]
  <2>1. Tail(d) \in Seq(Frame) /\ b \in Frame
    BY <1>3
  <2> HIDE DEF b
  <2> QED BY <1>1, <1>2, <1>4, <1>9, <2>1 DEF Vb
<1>11. NodeTypes'
  BY <1>1, <1>10 DEF NodeInv, NodeTypes
<1>12. CallPhases'
  BY <1>1, <1>4, <1>10 DEF NodeInv, CallPhases, Ending
<1>13. Conserved'
  <2>1. Filled(k)' /\ Rotation(k)' = r
    BY <1>1, <1>5, RotationIsNext DEF r
  <2>2. vb2'.queued = vb2'.done \o Rotation(k)'
    BY <1>8, <1>9, <1>10, <2>1
  <2>3. Once(vb2.queued)'
    BY <1>9, <1>10 DEF Once
  <2> QED BY <2>1, <2>2, <2>3 DEF Conserved
<1>14. Owned'
  <2>1. ASSUME NEW f \in Frame
        PROVE  vb2'.state[f] = "user" <=> ~In(f, t)
    <3>1. vb2.state[f] = "user" <=> ~In(f, s)
      BY <1>1 DEF NodeInv, Owned, Ending
    <3>2. vb2'.state[f] = IF f = b THEN "user" ELSE vb2.state[f]
      BY <1>2, <1>10
    <3> QED BY <1>9, <3>1, <3>2
  <2>2. ASSUME NEW i \in DOMAIN t, i > Len(Tail(d))
        PROVE  vb2'.state[t[i]] = "active"
    <3>1. /\ Len(t) = Len(s) - 1 /\ Len(s) \in Nat /\ i \in 1..(Len(s) - 1)
          /\ t[i] = s[i + 1] /\ DOMAIN s = 1..Len(s)
      <4>1. /\ Len(Tail(s)) = Len(s) - 1 /\ Len(s) \in Nat
            /\ \A j \in 1..(Len(s) - 1) : Tail(s)[j] = s[j + 1]
        BY <1>2, <1>8, HeadTailProperties
      <4>2. DOMAIN t = 1..Len(t) /\ DOMAIN s = 1..Len(s)
        BY <1>2, <1>9
      <4> QED BY <1>9, <4>1, <4>2
    <3>2. i + 1 \in DOMAIN s /\ i + 1 > Len(d) /\ 1 \in DOMAIN s /\ i + 1 # 1
      BY <1>3, <2>2, <3>1
    <3>3. vb2.state[s[i + 1]] = "active" /\ s[i + 1] # b /\ s[i + 1] \in Frame
      <4>1. vb2.state[s[i + 1]] = "active"
        BY <1>1, <1>4, <3>2 DEF NodeInv, Owned, Ending
      <4>2. s[i + 1] # s[1]
        BY <1>7, <3>2 DEF Once
      <4> QED BY <1>2, <1>8, <3>2, <4>1, <4>2
    <3> QED BY <1>2, <1>10, <3>1, <3>3
  <2>3. (\A f \in Frame : vb2.state[f] = "user" <=> ~In(f, vb2.queued))'
    BY <1>10, <2>1 DEF In
  <2> QED BY <1>10, <2>2, <2>3 DEF Owned
<1>15. Armed'
  BY <1>1 DEF NodeInv, Armed
<1> QED BY <1>11, <1>12, <1>13, <1>14, <1>15 DEF NodeInv

LEMMA StreamOnKeeps == NodeInv /\ StreamOn => NodeInv'
<1> SUFFICES ASSUME NodeInv, StreamOn PROVE NodeInv'
  OBVIOUS
<1>1. v_at = "none" /\ UNCHANGED <<held, giving, armed, next, streaming>>
  BY DEF StreamOn, Ioctl
<1>2. vb2 \in Vb
  BY DEF NodeInv, NodeTypes
<1> DEFINE vb == [vb2 EXCEPT !.on = TRUE]
<1>3. /\ vb \in Vb /\ vb.queued = vb2.queued /\ vb.done = vb2.done
      /\ vb.state = vb2.state /\ vb.started = vb2.started /\ vb.on
  BY <1>2 DEF Vb
<1> HIDE DEF vb
<1>4. CASE Starting(vb, NoFrame)
  <2>1. ~vb2.started /\ ~streaming /\ vb2.done = <<>>
    BY <1>1 DEF NodeInv, NodeTypes, CallPhases, Ending, StreamOn
  <2>2. /\ Once(vb2.queued)
        /\ \A b \in Frame : vb2.state[b] \in {"user", "queued"}
                              /\ (vb2.state[b] = "user" <=> ~In(b, vb2.queued))
    BY <1>1, <2>1 DEF NodeInv, Conserved, Owned, Ending
  <2>3. /\ Once(vb.queued) /\ vb.done = <<>> /\ NoFrame \in FrameOrNone
        /\ \A b \in Frame : vb.state[b] \in {"user", "queued"}
                              /\ (vb.state[b] = "user" <=> ~In(b, vb.queued))
    BY <1>3, <2>1, <2>2 DEF FrameOrNone
  <2> QED BY <1>1, <1>3, <1>4, <2>1, <2>3, StartingKeeps
<1>5. CASE vb2' = vb /\ UNCHANGED <<buffer_list, v_at>>
  <2>1. NodeTypes' /\ CallPhases' /\ Armed'
    BY <1>1, <1>3, <1>5 DEF NodeInv, NodeTypes, CallPhases, Armed
  <2>2. Conserved'
    <3>1. Once(vb2.queued)'
      BY <1>1, <1>3, <1>5 DEF NodeInv, Conserved, Ending, Once
    <3>2. ASSUME vb2'.started
          PROVE  \E k \in 0..Depth : Filled(k)' /\ vb2'.queued = vb2'.done \o Rotation(k)'
      <4>1. PICK k \in 0..Depth : Filled(k) /\ vb2.queued = vb2.done \o Rotation(k)
        BY <1>1, <1>3, <1>5, <3>2 DEF NodeInv, Conserved, Ending
      <4>2. Rotation(k)' = Rotation(k) /\ (Filled(k)' <=> Filled(k))
        BY <1>1, <1>5, RotationIs, RotationIsNext
      <4>3. vb2'.queued = vb2.queued /\ vb2'.done = vb2.done
        BY <1>3, <1>5
      <4> QED BY <4>1, <4>2, <4>3
    <3> QED BY <3>1, <3>2 DEF Conserved
  <2>3. Owned'
    BY <1>1, <1>3, <1>5 DEF NodeInv, Owned, In
  <2> QED BY <2>1, <2>2, <2>3 DEF NodeInv
<1> QED BY <1>4, <1>5 DEF StreamOn, vb
LEMMA StartConfiguresKeeps == NodeInv /\ StartConfigures => NodeInv'
<1> SUFFICES ASSUME NodeInv, StartConfigures PROVE NodeInv'
  OBVIOUS
<1>1. /\ v_at = "start" /\ v_at' = "arm"
      /\ UNCHANGED <<vb2, buffer_list, held, giving, streaming>>
      /\ UNCHANGED <<armed, next>> \/ (armed' = 0 /\ next' = 1 % RingSlots)
  BY DEF StartConfigures, Configure, BackToRing
<1>2. 0 \in 0..(RingSlots - 1) /\ 1 % RingSlots \in 0..(RingSlots - 1) /\ 0 \notin Frame
  BY RingAndFrames
<1>3. NodeTypes' /\ CallPhases' /\ Armed'
  BY <1>1, <1>2 DEF NodeInv, NodeTypes, CallPhases, Armed, Ending
<1>4. Conserved' /\ Owned'
  BY <1>1, SameBuffers DEF NodeInv, Ending
<1> QED BY <1>3, <1>4 DEF NodeInv

LEMMA StartArmsKeeps == NodeInv /\ StartArms => NodeInv'
<1> SUFFICES ASSUME NodeInv, StartArms PROVE NodeInv'
  OBVIOUS
<1> DEFINE l == buffer_list
<1>1. /\ v_at = "arm" /\ l # <<>> /\ buffer_list' = Tail(l) /\ v_at' = "none"
      /\ held' = [NoneHeld EXCEPT ![1] = Head(l)] /\ armed' = Head(l)
      /\ streaming' = TRUE /\ vb2' = [vb2 EXCEPT !.by = NoFrame]
      /\ UNCHANGED <<giving, next>>
  BY DEF StartArms
<1>2. vb2 \in Vb /\ l \in Seq(Frame) /\ Head(l) \in Frame /\ Tail(l) \in Seq(Frame)
      /\ giving = NoFrame /\ held = NoneHeld /\ vb2.started /\ vb2.done = <<>>
  <2>1. vb2 \in Vb /\ l \in Seq(Frame) /\ giving = NoFrame /\ held = NoneHeld
        /\ vb2.started /\ vb2.done = <<>>
    BY <1>1 DEF NodeInv, NodeTypes, CallPhases, Ending
  <2> QED BY <1>1, <2>1
<1>3. /\ vb2' \in Vb /\ vb2'.queued = vb2.queued /\ vb2'.done = vb2.done
      /\ vb2'.state = vb2.state /\ vb2'.started /\ vb2'.on = vb2.on
  BY <1>1, <1>2 DEF Vb, FrameOrNone
<1> HIDE DEF l
<1>4. held' \in [1..Depth -> FrameOrNone] /\ held'[1] = Head(l)
  BY <1>1, <1>2, RingAndFrames DEF NoneHeld, FrameOrNone
<1>5. NodeTypes'
  BY <1>1, <1>2, <1>3, <1>4 DEF NodeInv, NodeTypes
<1>6. CallPhases'
  BY <1>1, <1>2, <1>3 DEF NodeInv, CallPhases, Ending
<1>7. Conserved'
  <2>1. PICK k \in 0..Depth : FilledIn(held, k)
                  /\ vb2.queued = <<>> \o RotationOf(NoFrame, NoneHeld, k, l)
    BY <1>1, <1>2, RotationIs DEF NodeInv, Conserved, Ending, l
  <2>2. k = 0
    <3>1. 1 \in 1..Depth /\ k \in Nat /\ held[1] = NoFrame
      BY <1>2, RingAndFrames DEF NoneHeld
    <3> QED BY <2>1, <3>1 DEF FilledIn
  <2>3. /\ FilledIn(held', 1)
        /\ RotationOf(NoFrame, held', 1, Tail(l)) = RotationOf(NoFrame, NoneHeld, 0, l)
    BY <1>1, <1>2, StartKeeps DEF l
  <2>4. vb2'.queued = vb2'.done \o RotationOf(giving', held', 1, buffer_list')
    <3>1. giving' = NoFrame /\ buffer_list' = Tail(l)
      BY <1>1, <1>2 DEF l
    <3>2. vb2'.queued = vb2.queued /\ vb2'.done = <<>>
      BY <1>2, <1>3
    <3>3. vb2.queued = <<>> \o RotationOf(NoFrame, NoneHeld, 0, l)
      BY <2>1, <2>2
    <3> QED BY <2>3, <3>1, <3>2, <3>3
  <2>5. \E n \in 0..Depth : Filled(n)' /\ vb2'.queued = vb2'.done \o Rotation(n)'
    <3>1. PICK n : n = 1
      OBVIOUS
    <3>2. n \in 0..Depth
      BY <3>1, RingAndFrames
    <3>3. Filled(n)' /\ Rotation(n)' = RotationOf(giving', held', n, buffer_list')
      BY <2>3, <3>1, RotationIsNext
    <3> QED BY <2>4, <3>1, <3>2, <3>3
  <2>6. Once(vb2.queued)'
    BY <1>1, <1>3 DEF NodeInv, Conserved, Ending, Once
  <2> QED BY <2>5, <2>6 DEF Conserved
<1>8. Owned'
  BY <1>1, <1>2, <1>3 DEF NodeInv, Owned, Ending, In
<1>9. Armed'
  BY <1>1, <1>4 DEF Armed
<1> QED BY <1>5, <1>6, <1>7, <1>8, <1>9 DEF NodeInv

LEMMA StartFailsKeeps == NodeInv /\ StartFails => NodeInv'
<1> SUFFICES ASSUME NodeInv, StartFails PROVE NodeInv'
  OBVIOUS
<1> DEFINE s == vb2.queued
           by == vb2.by
           t == RemoveFirst(s, by)
           st == [b \in Frame |->
                    CASE b = by -> "user"
                      [] b # by /\ vb2.state[b] = "active" -> "queued"
                      [] OTHER -> vb2.state[b]]
<1>1. /\ v_at = "start" /\ v_at' = "none" /\ buffer_list' = <<>> /\ held' = NoneHeld
      /\ vb2' = [vb2 EXCEPT !.state = st, !.queued = t, !.started = FALSE,
                   !.on = (by # NoFrame), !.by = NoFrame]
      /\ UNCHANGED <<giving, armed, next, streaming>>
  BY DEF StartFails
<1>2. /\ vb2 \in Vb /\ s \in Seq(Frame) /\ Once(s) /\ vb2.done = <<>>
      /\ vb2.started /\ giving = NoFrame /\ ~streaming
      /\ vb2.state \in [Frame -> {"user", "queued", "active", "done"}]
  BY <1>1 DEF NodeInv, NodeTypes, Vb, CallPhases, Conserved, Ending
<1>3. /\ t \in Seq(Frame) /\ Once(t)
      /\ \A f : In(f, t) <=> In(f, s) /\ f # by
  <2> HIDE DEF s, by
  <2> QED BY <1>2, RemoveFirstFacts
<1>4. \A b \in Frame : st[b] = IF b = by THEN "user"
                               ELSE IF vb2.state[b] = "active" THEN "queued"
                               ELSE vb2.state[b]
  OBVIOUS
<1>5. st \in [Frame -> {"user", "queued", "active", "done"}]
  <2>1. \A b \in Frame : st[b] \in {"user", "queued", "active", "done"}
    BY <1>2, <1>4
  <2> QED BY <2>1
<1> HIDE DEF st, t
<1>6. /\ vb2' \in Vb /\ vb2'.state = st /\ vb2'.queued = t /\ vb2'.done = <<>>
      /\ ~vb2'.started
  BY <1>1, <1>2, <1>3, <1>5 DEF Vb, FrameOrNone
<1>7. ASSUME NEW f \in Frame
      PROVE  st[f] \in {"user", "queued"} /\ (st[f] = "user" <=> ~In(f, t))
  <2>1. vb2.state[f] = "user" <=> ~In(f, s)
    BY <1>1 DEF NodeInv, Owned, Ending
  <2>2. In(f, s) => vb2.state[f] = "active"
    <3>1. ASSUME NEW i \in DOMAIN s, s[i] = f PROVE vb2.state[f] = "active"
      <4>1. Len(vb2.done) = 0 /\ i > 0
        BY <1>2
      <4>2. i > Len(vb2.done)
        BY <4>1
      <4> QED BY <1>1, <1>2, <3>1, <4>2 DEF NodeInv, Owned, Ending
    <3> QED BY <3>1 DEF In
  <2> QED BY <1>2, <1>3, <1>4, <2>1, <2>2
<1>8. NodeTypes'
  <2>1. NoneHeld \in [1..Depth -> FrameOrNone] /\ <<>> \in Seq(Frame)
    BY RingAndFrames DEF NoneHeld, FrameOrNone
  <2> QED BY <1>1, <1>6, <2>1 DEF NodeInv, NodeTypes
<1>9. CallPhases'
  BY <1>1, <1>2, <1>6 DEF NodeInv, CallPhases, Ending
<1>10. Conserved'
  BY <1>3, <1>6 DEF Conserved, Once
<1>11. Owned'
  BY <1>6, <1>7 DEF Owned, In
<1>12. Armed'
  BY <1>1, <1>2 DEF NodeInv, Armed
<1> QED BY <1>8, <1>9, <1>10, <1>11, <1>12 DEF NodeInv

\* The steps of STREAMOFF and of its kin: the buffers stay until the ring is
\* under the block again, and then all go.
LEMMA StoppingKeeps ==
  NodeInv /\ (StreamOff \/ RemoveUnregisters \/ StopRings \/ StopReturns) => NodeInv'
<1> SUFFICES ASSUME NodeInv, StreamOff \/ RemoveUnregisters \/ StopRings \/ StopReturns
             PROVE  NodeInv'
  OBVIOUS
<1>1. 0 \in 0..(RingSlots - 1) /\ 1 % RingSlots \in 0..(RingSlots - 1) /\ 0 \notin Frame
      /\ NoneHeld \in [1..Depth -> FrameOrNone] /\ <<>> \in Seq(Frame)
  BY RingAndFrames DEF NoneHeld, FrameOrNone
<1>2. CASE StreamOff \/ RemoveUnregisters
  <2>1. /\ v_at = "none" /\ v_at' = IF vb2.started THEN "stop" ELSE "cancel"
        /\ UNCHANGED <<vb2, buffer_list, held, giving, armed, next, streaming>>
    BY <1>2 DEF StreamOff, RemoveUnregisters, Ioctl
  <2>2. NodeTypes' /\ CallPhases' /\ Armed'
    BY <2>1 DEF NodeInv, NodeTypes, CallPhases, Armed, Ending
  <2>3. Conserved' /\ Owned'
    BY <2>1, SameBuffers DEF NodeInv, Ending
  <2> QED BY <2>2, <2>3 DEF NodeInv
<1>3. CASE StopRings
  <2>1. NodeTypes' /\ CallPhases' /\ Armed'
    BY <1>1, <1>3 DEF StopRings, BackToRing, NodeInv, NodeTypes, CallPhases, Armed, Ending
  <2>2. Conserved' /\ Owned'
    BY <1>3 DEF StopRings, Conserved, Owned, Ending
  <2> QED BY <2>1, <2>2 DEF NodeInv
<1>4. CASE StopReturns
  <2>1. NodeTypes' /\ CallPhases' /\ Armed'
    BY <1>1, <1>4 DEF StopReturns, NodeInv, NodeTypes, CallPhases, Armed, Ending
  <2>2. Conserved' /\ Owned'
    BY <1>4 DEF StopReturns, Conserved, Owned, Ending
  <2> QED BY <2>1, <2>2 DEF NodeInv
<1> QED BY <1>2, <1>3, <1>4

LEMMA CancelKeeps == ASSUME PromptTick, NodeInv, Cancel PROVE NodeInv'
<1>1. /\ v_at = "cancel" /\ giving = NoFrame /\ vb2' = VbIdle /\ v_at' = "none"
      /\ UNCHANGED <<buffer_list, held, giving, armed, next, streaming>>
  BY PromptTick DEF Cancel
<1>2. ~streaming /\ held = NoneHeld /\ buffer_list = <<>>
  BY <1>1 DEF NodeInv, CallPhases, Ending
<1>3. /\ VbIdle \in Vb /\ VbIdle.queued = <<>> /\ VbIdle.done = <<>>
      /\ ~VbIdle.started /\ ~VbIdle.on /\ \A b \in Frame : VbIdle.state[b] = "user"
  BY DEF VbIdle, Vb, FrameOrNone
<1>4. NodeTypes'
  BY <1>1, <1>3 DEF NodeInv, NodeTypes
<1>5. CallPhases'
  BY <1>1, <1>2, <1>3 DEF NodeInv, CallPhases, Ending
<1>6. Conserved' /\ Owned'
  BY <1>1, <1>3 DEF Conserved, Owned, Once, In
<1>7. Armed'
  BY <1>1 DEF NodeInv, Armed
<1> QED BY <1>4, <1>5, <1>6, <1>7 DEF NodeInv

\* Probe, the hooks and debugfs move no buffer.
LEMMA SetUpKeeps ==
  NodeInv /\ (DebugConfigure \/ Probe \/ ProbeHooks \/ RemoveUnhooks) => NodeInv'
<1> SUFFICES ASSUME NodeInv, DebugConfigure \/ Probe \/ ProbeHooks \/ RemoveUnhooks
             PROVE  NodeInv'
  OBVIOUS
<1>1. 0 \in 0..(RingSlots - 1) /\ 1 % RingSlots \in 0..(RingSlots - 1) /\ 0 \notin Frame
  BY RingAndFrames
<1>2. /\ UNCHANGED <<vb2, buffer_list, held, giving, streaming, v_at>>
      /\ armed' \in {armed, 0} /\ next' \in {next, 0, 1 % RingSlots}
  BY DEF DebugConfigure, Probe, ProbeHooks, RemoveUnhooks, Configure, BackToRing
<1>3. NodeTypes' /\ CallPhases' /\ Armed'
  BY <1>1, <1>2 DEF NodeInv, NodeTypes, CallPhases, Armed
<1>4. Conserved' /\ Owned'
  BY <1>2, SameBuffers DEF NodeInv
<1> QED BY <1>3, <1>4 DEF NodeInv

LEMMA NodeInvStarts == NodeInit => NodeInv
<1> SUFFICES ASSUME NodeInit PROVE NodeInv
  OBVIOUS
<1>1. /\ vb2 = VbIdle /\ buffer_list = <<>> /\ held = NoneHeld /\ giving = NoFrame
      /\ armed = 0 /\ next = 0 /\ streaming = FALSE /\ v_at = "none"
  BY DEF NodeInit
<1>2. /\ VbIdle \in Vb /\ VbIdle.queued = <<>> /\ VbIdle.done = <<>>
      /\ ~VbIdle.started /\ ~VbIdle.on /\ \A b \in Frame : VbIdle.state[b] = "user"
  BY DEF VbIdle, Vb, FrameOrNone
<1>3. 0 \in 0..(RingSlots - 1) /\ 0 \notin Frame
      /\ NoneHeld \in [1..Depth -> FrameOrNone] /\ <<>> \in Seq(Frame)
  BY RingAndFrames DEF NoneHeld, FrameOrNone
<1>4. NodeTypes
  BY <1>1, <1>2, <1>3 DEF NodeTypes, FrameOrNone
<1>5. CallPhases /\ Armed
  BY <1>1, <1>2, <1>3 DEF CallPhases, Armed, Ending
<1>6. Conserved /\ Owned
  BY <1>1, <1>2 DEF Conserved, Owned, Once, In
<1> QED BY <1>4, <1>5, <1>6 DEF NodeInv

LEMMA NodeInvSteps == ASSUME PromptTick PROVE NodeInv /\ [NodeNext]_nodeVars => NodeInv'
<1> SUFFICES ASSUME NodeInv, [NodeNext]_nodeVars PROVE NodeInv'
  OBVIOUS
<1>1. CASE UNCHANGED nodeVars
  <2>1. UNCHANGED <<vb2, buffer_list, held, giving, armed, next, streaming, v_at>>
    BY <1>1 DEF nodeVars
  <2>2. NodeTypes' /\ CallPhases' /\ Armed'
    BY <2>1 DEF NodeInv, NodeTypes, CallPhases, Armed
  <2>3. Conserved' /\ Owned'
    BY <2>1, SameBuffers DEF NodeInv
  <2> QED BY <2>2, <2>3 DEF NodeInv
<1> QED
  BY <1>1, PromptTick, RingTickKeeps, FrameTickKeeps, TickGivesKeeps, QbufKeeps,
     DqbufKeeps, StreamOnKeeps, StartConfiguresKeeps, StartArmsKeeps, StartFailsKeeps,
     StoppingKeeps, CancelKeeps, SetUpKeeps DEF NodeNext

\* Under a tick that ends before a STREAMOFF it overlaps, the block never
\* writes a buffer that is with the user or was handed back, and no buffer is
\* lost, had twice or overtaken (ar_cvisp_frame_tick against the vb2 calls).
THEOREM BuffersAreKept == ASSUME PromptTick PROVE NodeSpec => []BuffersKept
<1>1. NodeInv => ArmedByDriver
  <2> SUFFICES ASSUME NodeInv, armed \in Frame PROVE vb2.state[armed] = "active"
    BY DEF ArmedByDriver
  <2>1. streaming /\ armed = held[1] /\ v_at \in {"none", "stop"} /\ vb2.started
        /\ vb2.done \in Seq(Frame) /\ buffer_list \in Seq(Frame)
        /\ giving \in FrameOrNone /\ held \in [1..Depth -> FrameOrNone]
        /\ vb2.queued \in Seq(Frame)
    BY DEF NodeInv, NodeTypes, Vb, CallPhases, Armed, Ending
  <2>2. PICK k \in 0..Depth : FilledIn(held, k)
                  /\ vb2.queued = vb2.done \o RotationOf(giving, held, k, buffer_list)
    BY <2>1, RotationIs DEF NodeInv, Conserved, Ending
  <2>3. k \in Nat /\ k # 0
    <3>1. 1 \in 1..Depth /\ held[1] # NoFrame /\ k \in Nat
      BY <2>1, RingAndFrames
    <3> QED BY <2>2, <3>1 DEF FilledIn
  <2> DEFINE p == Present(giving)
             a == Aged(held, k)
             d == vb2.done
             l == buffer_list
             q == vb2.queued
  <2>4. /\ p \in Seq(Frame) /\ a \in Seq(Frame) /\ Len(a) = k /\ a[k] = held[1]
        /\ d \in Seq(Frame) /\ l \in Seq(Frame) /\ q = d \o ((p \o a) \o l)
    <3>1. /\ a \in Seq(Frame) /\ Len(a) = k /\ \A i \in 1..k : a[i] = held[k + 1 - i]
      BY <2>1, <2>2, AgedFacts
    <3>2. k \in 1..k /\ k + 1 - k = 1
      BY <2>3
    <3> QED BY <2>1, <2>2, <3>1, <3>2, PresentFacts DEF RotationOf
  <2> HIDE DEF p, a, d, l, q
  <2> DEFINE m == Len(p) + k
  <2>5. m \in 1..Len(p \o a) /\ (p \o a)[m] = held[1] /\ p \o a \in Seq(Frame)
    BY <2>3, <2>4
  <2>6. /\ (p \o a) \o l \in Seq(Frame) /\ m \in 1..Len((p \o a) \o l)
        /\ ((p \o a) \o l)[m] = held[1]
    <3> DEFINE c == p \o a
    <3>1. c \in Seq(Frame) /\ m \in 1..Len(c) /\ c[m] = held[1]
      BY <2>5
    <3> HIDE DEF c, m
    <3>2. c \o l \in Seq(Frame) /\ m \in 1..Len(c \o l) /\ (c \o l)[m] = held[1]
      BY <2>4, <3>1
    <3> QED BY <3>2 DEF c
  <2> HIDE DEF m
  <2>7. Len(d) + m \in DOMAIN q /\ q[Len(d) + m] = held[1] /\ Len(d) + m > Len(d)
    <3> DEFINE c == (p \o a) \o l
    <3>1. c \in Seq(Frame) /\ m \in 1..Len(c) /\ c[m] = held[1] /\ q = d \o c
      BY <2>4, <2>6
    <3> HIDE DEF c
    <3>2. Len(d) + m \in DOMAIN (d \o c) /\ (d \o c)[Len(d) + m] = c[m]
          /\ Len(d) + m > Len(d)
      BY <2>4, <3>1
    <3> QED BY <3>1, <3>2
  <2>8. vb2.state[q[Len(d) + m]] = "active"
    BY <2>1, <2>7 DEF NodeInv, Owned, Ending, q, d
  <2> QED BY <2>1, <2>7, <2>8
<1>2. NodeInv => BuffersConserved
  <2> SUFFICES ASSUME NodeInv, v_at = "none"
               PROVE  \E k \in 0..Depth :
                        /\ Filled(k)
                        /\ IF vb2.started THEN vb2.queued = vb2.done \o Rotation(k)
                                          ELSE Rotation(k) = <<>>
    BY DEF BuffersConserved
  <2>1. CASE vb2.started
    BY <2>1 DEF NodeInv, Conserved, Ending
  <2>2. CASE ~vb2.started
    <3>1. giving = NoFrame /\ held = NoneHeld /\ buffer_list = <<>>
      BY <2>2 DEF NodeInv, NodeTypes, CallPhases, Ending
    <3>2. ASSUME NEW l \in Seq(Frame)
          PROVE  FilledIn(NoneHeld, 0) /\ <<>> \o RotationOf(NoFrame, NoneHeld, 0, l) = l
      BY StartKeeps
    <3>3. <<>> \in Seq(Frame) /\ 0 \in 0..Depth
      BY RingAndFrames
    <3>4. <<>> \o RotationOf(NoFrame, NoneHeld, 0, <<>>) = <<>>
      BY <3>2, <3>3
    <3>5. RotationOf(NoFrame, NoneHeld, 0, <<>>) = <<>>
      <4>1. /\ Present(NoFrame) \in Seq(Frame) /\ Aged(NoneHeld, 0) \in Seq(Frame)
        <5>1. NoneHeld \in [1..Depth -> FrameOrNone] /\ NoFrame \in FrameOrNone
          BY DEF NoneHeld, FrameOrNone
        <5>2. FilledIn(NoneHeld, 0)
          BY <3>2, <3>3
        <5> QED BY <3>3, <5>1, <5>2, AgedFacts, PresentFacts
      <4>2. RotationOf(NoFrame, NoneHeld, 0, <<>>) \in Seq(Frame)
        BY <3>3, <4>1 DEF RotationOf
      <4> QED BY <3>3, <3>4, <4>2, ConcatEqualIffEmpty
    <3>6. Filled(0) /\ Rotation(0) = <<>>
      BY <3>1, <3>2, <3>3, <3>5, RotationIs
    <3> QED BY <2>2, <3>3, <3>6
  <2> QED BY <2>1, <2>2
<1>3. NodeInv => BuffersKept
  BY <1>1, <1>2 DEF BuffersKept
<1> QED BY <1>3, NodeInvStarts, NodeInvSteps, PTL DEF NodeSpec

-----------------------------------------------------------------------------
(* The display.  A commit makes its calls in order, so the invariant says  *)
(* at each of them what the earlier ones have written.                     *)

VoTypes ==
  /\ kms \in [active : BOOLEAN, fb : Fb, fmt : Format, on : SUBSET Overlay,
              off : SUBSET Overlay]
  /\ commit_at \in {"idle", "disable", "layer", "unlock", "start", "event", "enable"} \cup Overlay
  /\ pipe_on \in BOOLEAN
  /\ main \in [start : BOOLEAN, lock : BOOLEAN]
  /\ cur \in [start : BOOLEAN, fmt : Format \cup {NoFormat}]
  /\ emit \in [Banks -> BOOLEAN] /\ fresh \subseteq Overlay
  /\ vblank \in BOOLEAN /\ vsync \in BOOLEAN

\* The control word, and the START that the next bracket will write back: a
\* bracket writes START while the pipe is off only if the pipe is enabled next.
Words ==
  /\ StartFollowsPipe
  /\ commit_at = "disable" => ~kms.active /\ kms.fmt = cur.fmt
  /\ commit_at = "layer" =>
       cur.start = pipe_on /\ (kms.active \/ (~pipe_on /\ kms.fmt = cur.fmt))
  /\ commit_at = "unlock" => cur.start = pipe_on /\ (kms.active \/ ~pipe_on)
  /\ commit_at = "start" => kms.active
  /\ commit_at \in {"event"} \cup Overlay =>
       /\ main.start = cur.start /\ ~main.lock
       /\ IF kms.active THEN pipe_on => cur.start ELSE ~pipe_on /\ ~cur.start
  /\ commit_at = "enable" => kms.active /\ ~main.lock

\* The planes the commit has still to update or disable
Pending ==
  CASE commit_at \in {"idle", "enable"} -> {}
    [] commit_at = "video1" -> {"video1"}
    [] commit_at = "video0" -> {"video0", "video1"}
    [] OTHER -> Overlay

\* A bank emits for a plane that is on, or that the commit is about to turn
\* off; the plane turned off last never shares its bank with the one updated
\* first.
Emitting ==
  /\ kms.on \cap kms.off = {}
  /\ ~("hud" \in kms.on /\ "video1" \in kms.off)
  /\ \A b \in Banks : emit[b] =>
       \E p \in kms.on \cup (kms.off \cap Pending) : bank(p) = b
  /\ kms.active => \A p \in (kms.on \cap fresh) \ Pending : emit[bank(p)]

\* From the update of the primary on its registers hold the new buffer, and
\* a frame that starts once the event is armed loads it.
Latching ==
  /\ FlipOnLatch
  /\ commit_at \notin {"disable", "layer"} => shadow = kms.fb
  /\ flip = "armed" => commit_at \in {"idle", "enable"} \cup Overlay
  /\ flip = "armed" /\ vsync => scanned = kms.fb

VoInv == VoTypes /\ Words /\ Emitting /\ Latching

LEMMA VoStart == VoInit => VoInv
<1> SUFFICES ASSUME VoInit PROVE VoInv
  OBVIOUS
<1>1. PICK fb \in Fb, fmt \in Format :
        /\ kms = [active |-> FALSE, fb |-> fb, fmt |-> fmt, on |-> {}, off |-> {}]
        /\ shadow = fb /\ scanned = fb
  BY DEF VoInit
<1>2. /\ commit_at = "idle" /\ pipe_on = FALSE
      /\ main = [start |-> FALSE, lock |-> FALSE]
      /\ cur = [start |-> FALSE, fmt |-> NoFormat]
      /\ emit = [b \in Banks |-> FALSE] /\ fresh = {}
      /\ vblank = FALSE /\ vsync = FALSE /\ flip = "none"
  BY DEF VoInit
<1>3. VoTypes
  BY <1>1, <1>2 DEF VoTypes
<1>4. Words
  BY <1>1, <1>2 DEF Words, StartFollowsPipe, Overlay
<1>5. Emitting
  BY <1>1, <1>2 DEF Emitting, Pending
<1>6. Latching
  BY <1>1, <1>2 DEF Latching, FlipOnLatch
<1> QED BY <1>3, <1>4, <1>5, <1>6 DEF VoInv

LEMMA VoTypesStep ==
  ASSUME VoInv, VoNext
  PROVE  VoTypes'
<1>1. VoTypes
  BY DEF VoInv
<1> USE DEF Call
<1>2. CASE Commit
  <2>1. kms' \in [active : BOOLEAN, fb : Fb, fmt : Format, on : SUBSET Overlay,
                  off : SUBSET Overlay]
    BY <1>1, <1>2 DEF Commit, VoTypes
  <2> QED BY <1>1, <1>2, <2>1 DEF Commit, VoTypes
<1>3. CASE PipeDisable
  BY <1>1, <1>3 DEF PipeDisable, Stopped, VoTypes
<1>4. CASE PipeUpdate
  BY <1>1, <1>4 DEF PipeUpdate, Addressed, Programmed, VoTypes
<1>5. ASSUME NEW from \in {"unlock", "start"}, Unlock(from) PROVE VoTypes'
  BY <1>1, <1>5 DEF Unlock, VoTypes
<1>6. CASE ArmEvent
  BY <1>1, <1>6 DEF ArmEvent, VoTypes, Overlay
<1>7. ASSUME NEW p \in Overlay, OverlayUpdate(p) \/ OverlayDisable(p) PROVE VoTypes'
  <2>1. After(p) \in {"idle", "enable"} \cup Overlay
    BY DEF After, Overlay
  <2>2. bank(p) \in Banks
    BY DEF bank, Banks
  <2>3. UNCHANGED <<kms, pipe_on, cur, vblank, vsync>> /\ commit_at' = After(p)
    BY <1>7 DEF OverlayUpdate, OverlayDisable
  <2>4. main' \in [start : BOOLEAN, lock : BOOLEAN]
    <3>1. cur.start \in BOOLEAN /\ main \in [start : BOOLEAN, lock : BOOLEAN]
      BY <1>1 DEF VoTypes
    <3>2. main' = main \/ main' = [start |-> cur.start, lock |-> FALSE]
      BY <1>7 DEF OverlayUpdate, OverlayDisable
    <3>3. \A w \in BOOLEAN : [start |-> w, lock |-> FALSE] \in [start : BOOLEAN, lock : BOOLEAN]
      OBVIOUS
    <3> QED BY <3>1, <3>2, <3>3, Zenon
  <2>5. emit' \in [Banks -> BOOLEAN] /\ fresh' \subseteq Overlay
    BY <1>1, <1>7 DEF OverlayUpdate, OverlayDisable, VoTypes
  <2> QED BY <1>1, <2>1, <2>3, <2>4, <2>5 DEF VoTypes
<1>8. CASE PipeEnable
  BY <1>1, <1>8 DEF PipeEnable, VoTypes
<1>9. CASE FrameStart \/ VsyncIrq
  BY <1>1, <1>9 DEF FrameStart, VsyncIrq, VoTypes
<1> QED BY <1>2, <1>3, <1>4, <1>5, <1>6, <1>7, <1>8, <1>9 DEF VoNext

LEMMA WordsStep ==
  ASSUME VoInv, VoNext, ~BlankFlips
  PROVE  Words'
<1>1. VoTypes /\ Words
  BY DEF VoInv
<1> USE DEF Call, Overlay
<1>2. CASE Commit
  BY <1>1, <1>2 DEF Commit, Words, StartFollowsPipe, VoTypes
<1>3. CASE PipeDisable
  BY <1>1, <1>3 DEF PipeDisable, Stopped, Words, StartFollowsPipe, VoTypes
<1>4. CASE PipeUpdate
  BY <1>1, <1>4 DEF PipeUpdate, Addressed, Programmed, Words, StartFollowsPipe, VoTypes
<1>5. ASSUME NEW from \in {"unlock", "start"}, Unlock(from) PROVE Words'
  BY <1>1, <1>5 DEF Unlock, Words, StartFollowsPipe, VoTypes
<1>6. CASE ArmEvent
  BY <1>1, <1>6 DEF ArmEvent, Words, StartFollowsPipe, VoTypes
<1>7. ASSUME NEW p \in Overlay, OverlayUpdate(p) \/ OverlayDisable(p) PROVE Words'
  BY <1>1, <1>7 DEF OverlayUpdate, OverlayDisable, After, Words, StartFollowsPipe, VoTypes
<1>8. CASE PipeEnable
  BY <1>1, <1>8 DEF PipeEnable, Words, StartFollowsPipe, VoTypes
<1>9. CASE FrameStart \/ VsyncIrq
  BY <1>1, <1>9 DEF FrameStart, VsyncIrq, Words, StartFollowsPipe, VoTypes
<1> QED BY <1>2, <1>3, <1>4, <1>5, <1>6, <1>7, <1>8, <1>9 DEF VoNext

LEMMA EmittingStep ==
  ASSUME VoInv, VoNext, ~BankSwaps
  PROVE  Emitting'
<1>1. VoTypes /\ Words /\ Emitting
  BY DEF VoInv
<1> USE DEF Call
<1>2. CASE Commit
  BY <1>1, <1>2 DEF Commit, Emitting, Pending, VoTypes, Overlay
<1>3. CASE PipeDisable \/ PipeUpdate \/ Unlock("unlock") \/ Unlock("start") \/ ArmEvent
  <2>1. UNCHANGED <<kms, emit, fresh>> /\ Pending' = Pending
    BY <1>3 DEF PipeDisable, PipeUpdate, Unlock, ArmEvent, Pending, Overlay
  <2> QED BY <1>1, <2>1 DEF Emitting
<1>4. ASSUME NEW p \in Overlay, OverlayUpdate(p) PROVE Emitting'
  <2>1. Pending' = Pending \ {p}
    BY <1>4 DEF OverlayUpdate, After, Pending, Overlay
  <2> QED BY <1>1, <1>4, <2>1 DEF OverlayUpdate, Emitting, VoTypes, bank, Banks, Overlay
<1>5. ASSUME NEW p \in Overlay, OverlayDisable(p) PROVE Emitting'
  <2>1. Pending' = Pending \ {p}
    BY <1>5 DEF OverlayDisable, After, Pending, Overlay
  <2>2. /\ p \in Pending /\ p \notin kms.on /\ UNCHANGED kms /\ fresh' = fresh \ {p}
        /\ emit' = IF p \in kms.off THEN [emit EXCEPT ![bank(p)] = FALSE] ELSE emit
    BY <1>5 DEF OverlayDisable, Pending, Overlay
  <2>3. emit \in [Banks -> BOOLEAN] /\ fresh \subseteq Overlay
    BY <1>1 DEF VoTypes
  <2>4. ASSUME NEW b \in Banks, emit'[b]
        PROVE  \E q \in kms.on \cup (kms.off \cap Pending') : bank(q) = b
    <3>1. emit[b] /\ ~(p \in kms.off /\ bank(p) = b)
      BY <2>2, <2>3, <2>4
    <3>2. PICK q \in kms.on \cup (kms.off \cap Pending) : bank(q) = b
      BY <1>1, <3>1 DEF Emitting
    <3>3. q \in kms.on \/ (q \in kms.off /\ q # p)
      BY <3>1, <3>2
    <3> QED BY <2>1, <3>2, <3>3
  <2>5. ASSUME kms.active, NEW q \in (kms.on \cap fresh') \ Pending' PROVE emit'[bank(q)]
    <3>1. q \in kms.on /\ q \in fresh /\ q # p /\ q \notin Pending /\ q \in Overlay
      BY <2>1, <2>2, <2>3, <2>5
    <3>2. emit[bank(q)]
      BY <1>1, <2>5, <3>1 DEF Emitting
    <3>3. CASE p \notin kms.off
      BY <2>2, <3>2, <3>3
    <3>4. CASE p \in kms.off
      <4>1. bank(q) # bank(p)
        <5>1. CASE p = "hud"
          <6>1. "video1" \in Pending
            BY <1>5, <5>1 DEF OverlayDisable, Pending, Overlay
          <6> QED BY <3>1, <5>1, <6>1 DEF bank, Overlay
        <5>2. CASE p = "video1"
          BY <1>1, <3>1, <3>4, <5>2 DEF Emitting, bank, Overlay
        <5>3. CASE p = "video0"
          BY <3>1, <5>3 DEF bank, Overlay
        <5> QED BY <5>1, <5>2, <5>3 DEF Overlay
      <4>2. emit'[bank(q)] = emit[bank(q)]
        BY <2>2, <2>3, <3>4, <4>1
      <4> QED BY <3>2, <4>2
    <3> QED BY <3>3, <3>4
  <2> QED BY <1>1, <2>2, <2>4, <2>5 DEF Emitting
<1>6. CASE PipeEnable
  BY <1>1, <1>6 DEF PipeEnable, Emitting, Pending, VoTypes
<1>7. CASE FrameStart \/ VsyncIrq
  BY <1>1, <1>7 DEF FrameStart, VsyncIrq, Emitting, Pending
<1> QED BY <1>2, <1>3, <1>4, <1>5, <1>6, <1>7 DEF VoNext

LEMMA LatchingStep ==
  ASSUME VoInv, VoNext, PromptIrq
  PROVE  Latching'
<1>1. VoTypes /\ Words /\ Latching
  BY DEF VoInv
<1> USE DEF Call
<1>2. CASE Commit
  BY <1>1, <1>2 DEF Commit, Latching, FlipOnLatch
<1>3. CASE PipeDisable \/ PipeUpdate
  BY <1>1, <1>3 DEF PipeDisable, PipeUpdate, Addressed, Latching, FlipOnLatch, Overlay
<1>4. CASE Unlock("unlock") \/ Unlock("start")
  BY <1>1, <1>4 DEF Unlock, Latching, FlipOnLatch, Overlay
<1>5. CASE ArmEvent
  BY <1>1, <1>5 DEF ArmEvent, Latching, FlipOnLatch, Overlay
<1>6. ASSUME NEW p \in Overlay, OverlayUpdate(p) \/ OverlayDisable(p) PROVE Latching'
  BY <1>1, <1>6 DEF OverlayUpdate, OverlayDisable, After, Latching, FlipOnLatch, Overlay
<1>7. CASE PipeEnable
  BY <1>1, <1>7 DEF PipeEnable, Latching, FlipOnLatch
<1>8. CASE FrameStart
  <2>1. flip = "armed" => ~main.lock /\ shadow = kms.fb
    <3> SUFFICES ASSUME flip = "armed" PROVE ~main.lock /\ shadow = kms.fb
      OBVIOUS
    <3>1. commit_at \in {"idle", "enable"} \cup Overlay /\ shadow = kms.fb
      BY <1>1 DEF Latching, Overlay
    <3>2. CASE commit_at = "idle"
      BY <1>1, <3>1, <3>2 DEF Words, StartFollowsPipe
    <3>3. CASE commit_at \in {"enable"} \cup Overlay
      BY <1>1, <3>1, <3>3 DEF Words
    <3> QED BY <3>1, <3>2, <3>3
  <2> QED BY <1>1, <1>8, <2>1 DEF FrameStart, Latching, FlipOnLatch
<1>9. CASE VsyncIrq
  BY <1>1, <1>9 DEF VsyncIrq, Latching, FlipOnLatch
<1> QED BY <1>2, <1>3, <1>4, <1>5, <1>6, <1>7, <1>8, <1>9 DEF VoNext

LEMMA VoStep ==
  ASSUME PromptIrq, ~BlankFlips, ~BankSwaps, VoInv, [VoNext]_voVars
  PROVE  VoInv'
<1>1. CASE VoNext
  BY <1>1, VoTypesStep, WordsStep, EmittingStep, LatchingStep DEF VoInv
<1>2. CASE UNCHANGED voVars
  BY <1>2 DEF voVars, VoInv, VoTypes, Words, StartFollowsPipe, Emitting, Pending, Latching,
              FlipOnLatch
<1> QED BY <1>1, <1>2

\* Between commits the controller runs exactly with the pipe and no bracket has left it
\* locked, a plane programmed since is on the screen, and an event is sent once its
\* buffer is scanned out: for any buffers and formats, where the interrupt is handled
\* before the commit goes on, no format changes under a dark pipe and no commit swaps
\* the two planes of a bank (ar_vo_pipe_update, ar_vo_ovl_commit, ar_vo_irq).
THEOREM ScanoutIsTrue ==
  ASSUME PromptIrq, ~BlankFlips, ~BankSwaps
  PROVE  VoSpec => []ScanoutTrue
<1>1. VoInv => ScanoutTrue
  <2> SUFFICES ASSUME VoInv PROVE ScanoutTrue
    OBVIOUS
  <2>1. BanksFollowPlanes
    BY DEF VoInv, Words, StartFollowsPipe, Emitting, Pending, BanksFollowPlanes
  <2> QED BY <2>1 DEF VoInv, Words, Latching, ScanoutTrue
<1>2. VoInv /\ [VoNext]_voVars => VoInv'
  BY VoStep
<1> QED BY <1>1, <1>2, VoStart, PTL DEF VoSpec

-----------------------------------------------------------------------------
(* The sensor.  A commit is six writes; the invariant says what the sensor *)
(* holds after each, and on whose behalf.                                  *)

Regs  == {"hold", "hi", "lo", "g0", "g1"}
Pairs == [hi : Int, lo : Int, g0 : Int, g1 : Int]
Chip  == [programmed : Nat, streaming : BOOLEAN, hold : BOOLEAN, held : Pairs, live : Pairs]

\* s is what is left of the writes of the pair p.
LeftOf(s, p) ==
  Len(s) =< 6 /\ \A i \in 1..Len(s) : s[i] = Writes(p)[6 - Len(s) + i]

SnTypes ==
  /\ life \in {"gone", "up", "probed", "bound", "leaving"}
  /\ board \in [lanes : Nat, force : Nat, bringup : 0..3]
  /\ mode \in Nat /\ param \in [exposure : Int, gain : Int]
  /\ ctrl \in [exposure : Int, gain : Int, max : Int, link : {0, 1}]
  /\ ref \in BOOLEAN /\ powered \in BOOLEAN /\ mclk \in Int /\ chip \in Chip
  /\ pc \in [Callers -> {"idle", "lock", "exposure", "gain", "hardware", "unlock",
                         "program", "commit", "select"}]
  /\ pc["control"] = "idle" /\ pc["stream"] \in {"idle", "program", "commit", "select"}
  /\ todo \in [Callers -> Seq(Regs \X Int)] /\ ok \in [Callers -> BOOLEAN]
  /\ \A c \in Callers : \E p \in Pairs : LeftOf(todo[c], p)
  /\ lock \in BOOLEAN /\ missed \in BOOLEAN /\ stuck \in BOOLEAN /\ faults \in Nat

\* Who is powered for what, and the clock that goes with it
Power ==
  /\ ref \/ (\E c \in Callers : todo[c] # <<>>) => powered
  /\ powered => life \in {"probed", "bound", "leaving"}
  /\ ~powered => chip = Reset
  /\ mclk = IF life = "up" THEN IF board.bringup > 0 THEN 1 ELSE 0
            ELSE IF powered THEN 1 ELSE 0
  /\ (lock <=> pc["param"] \in {"exposure", "gain", "hardware", "unlock"})
  /\ lock => life = "bound"
  /\ todo["param"] # <<>> => lock
  /\ pc["stream"] # "idle" => ref
  /\ todo["stream"] # <<>> => pc["stream"] = "select"

\* One commit at a time, and the hold is on only inside one
Holding ==
  /\ \A c, d \in Callers : todo[c] # <<>> /\ todo[d] # <<>> => c = d
  /\ chip.hold => stuck \/ \E c \in Callers : Len(todo[c]) \in 1..5

\* The mode is one of the table, and what follows from it follows it.
ModeKept ==
  /\ life # "gone" => mode \in DOMAIN Modes /\ board \in Boards
  /\ life # "gone" /\ board.force = 0 => mode \in Usable(board.lanes)
  /\ life \in {"probed", "bound", "leaving"} => ctrl.link = LinkIndex(mode)

\* p fits the frame of the mode.
FitsMode(p) == \E x, g \in Int : p = Registers(FitsFrame(x), g)

\* What the hold of a sensor in state k has of p, with n writes left
Carried(k, n, p) ==
  /\ n =< 5 => k.hold
  /\ n =< 4 => k.held.hi = p.hi
  /\ n =< 3 => k.held.lo = p.lo
  /\ n =< 2 => k.held.g0 = p.g0
  /\ n =< 1 => k.held.g1 = p.g1

\* p is what the sensor applies, or will once the commit under way ends.
Underway(p) ==
  IF Committing = {} THEN chip.live = p
  ELSE \E c \in Committing : LeftOf(todo[c], p) /\ Carried(chip, Len(todo[c]), p)

\* p is what one of the interfaces says, or a newer parameter is on its way.
Told(p) ==
  \/ \E v \in {param, ctrl} : p = Registers(FitsFrame(v.exposure), v.gain)
  \/ pc["param"] \in {"lock", "exposure", "gain", "hardware"}
  \/ missed

Settling ==
  faults = 0 =>
    /\ ~stuck /\ \A c \in Callers : ok[c]
    /\ chip.streaming => ref /\ pc["stream"] = "idle"
    /\ pc["stream"] \in {"commit", "select"} \/ chip.streaming => chip.programmed = mode
    /\ (pc["stream"] = "select" /\ todo["stream"] = <<>>) \/ chip.streaming
         => FitsMode(chip.live)
    /\ pc["stream"] = "select" \/ chip.streaming
         => \E p \in Pairs : FitsMode(p) /\ Underway(p) /\ Told(p)

SnInv == SnTypes /\ Power /\ Holding /\ ModeKept /\ Settling

LEMMA WritesAre ==
  ASSUME NEW p \in Pairs
  PROVE  /\ Writes(p) \in Seq(Regs \X Int) /\ Len(Writes(p)) = 6
         /\ Writes(p)[1] = <<"hold", 1>> /\ Writes(p)[2] = <<"hi", p.hi>>
         /\ Writes(p)[3] = <<"lo", p.lo>> /\ Writes(p)[4] = <<"g0", p.g0>>
         /\ Writes(p)[5] = <<"g1", p.g1>> /\ Writes(p)[6] = <<"hold", 0>>
BY DEF Writes, Pairs, Regs

\* Two registers hold the whole of an exposure.
LEMMA RegistersAre ==
  ASSUME NEW x \in Int, NEW g \in Int
  PROVE  /\ Registers(x, g) \in Pairs /\ Registers(x, g).g0 = Registers(x, g).g1
         /\ Exposure(Registers(x, g)) = x
<1>1. x \div LoBase \in Int /\ x % LoBase \in Int /\ (x \div LoBase) * LoBase + (x % LoBase) = x
  BY SensorAssumption
<1> QED BY <1>1 DEF Registers, Pairs, Exposure

LEMMA FrameBounds ==
  ASSUME mode \in DOMAIN Modes, NEW x \in Int
  PROVE  FitsFrame(x) \in Int /\ FitsFrame(x) =< Modes[mode].vts - 2
<1>1. Modes[mode] \in [w : Nat, lanes : Nat, vts : Nat]
  <2>1. Modes \in Seq([w : Nat, lanes : Nat, vts : Nat])
    BY SensorAssumption
  <2>2. DOMAIN Modes = 1..Len(Modes)
    BY <2>1
  <2> QED BY <2>1, <2>2, ElementOfSeq
<1>2. Modes[mode].vts \in Nat
  BY <1>1
<1> QED BY <1>2 DEF FitsFrame, Smaller

LEMMA CallersAre == Callers = {"param", "control", "stream"}
BY DEF Callers

LEMMA LeftLength ==
  ASSUME NEW s \in Seq(Regs \X Int), s # <<>>, NEW p, LeftOf(s, p)
  PROVE  Len(s) \in 1..6
<1> DEFINE n == Len(s)
<1>1. n \in Nat /\ n # 0
  BY EmptySeq
<1>2. n =< 6
  BY DEF LeftOf
<1> HIDE DEF n
<1>3. n \in 1..6
  BY <1>1, <1>2
<1> QED BY <1>3 DEF n

\* What one write of a commit does: under the hold it is kept apart, and the
\* release makes what was kept live at once.
LEMMA WriteDone ==
  ASSUME SnTypes, NEW c \in Callers, CommitWrite(c), NEW p \in Pairs, LeftOf(todo[c], p)
  PROVE  /\ Len(todo[c]) \in 1..6 /\ Len(todo'[c]) = Len(todo[c]) - 1
         /\ LeftOf(todo'[c], p) /\ todo' \in [Callers -> Seq(Regs \X Int)]
         /\ \A d \in Callers : d # c => todo'[d] = todo[d]
         /\ chip' \in Chip
         /\ chip'.programmed = chip.programmed /\ chip'.streaming = chip.streaming
         /\ chip'.hold <=> Len(todo[c]) = 6 \/ (Len(todo[c]) # 1 /\ chip.hold)
         /\ stuck' \in BOOLEAN /\ (stuck' <=> stuck /\ Len(todo[c]) # 1)
         /\ Len(todo[c]) # 1 /\ (Len(todo[c]) = 6 \/ chip.hold) => chip'.live = chip.live
         /\ Len(todo[c]) # 1 /\ Carried(chip, Len(todo[c]), p) => Carried(chip', Len(todo'[c]), p)
         /\ Len(todo[c]) = 1 /\ Carried(chip, 1, p) => chip'.live = p
<1> DEFINE n == Len(todo[c])
           w == Writes(p)[7 - n]
<1>1. /\ todo[c] \in Seq(Regs \X Int) /\ todo[c] # <<>> /\ chip \in Chip /\ n \in Nat
      /\ todo \in [Callers -> Seq(Regs \X Int)] /\ stuck \in BOOLEAN
  BY DEF SnTypes, CommitWrite
<1>2. n \in 1..6 /\ Head(todo[c]) = w
  <2>1. \A i \in 1..n : todo[c][i] = Writes(p)[6 - n + i]
    BY ONLY LeftOf(todo[c], p) DEF LeftOf
  <2>2. n \in 1..6
    BY <1>1, LeftLength
  <2> HIDE DEF w, n
  <2>3. n \in 1..6 /\ 1 \in 1..n
    BY <2>2
  <2>4. Head(todo[c]) = todo[c][1]
    BY <1>1, HeadTailProperties
  <2>5. 6 - n + 1 = 7 - n
    BY <2>3
  <2>6. todo[c][1] = Writes(p)[6 - n + 1]
    BY <2>1, <2>3
  <2> QED BY <2>3, <2>4, <2>5, <2>6 DEF w, n
<1>3. /\ todo' = [todo EXCEPT ![c] = Tail(todo[c])] /\ chip' = Effect(w)
      /\ stuck' \in BOOLEAN /\ (stuck' <=> stuck /\ w # <<"hold", 0>>)
  <2>1. /\ todo' = [todo EXCEPT ![c] = Tail(todo[c])] /\ chip' = Effect(w)
        /\ stuck' = (stuck /\ w # <<"hold", 0>>)
    BY <1>2 DEF CommitWrite
  <2> QED BY <2>1, Zenon
<1>4. /\ Tail(todo[c]) \in Seq(Regs \X Int) /\ Len(Tail(todo[c])) = n - 1
      /\ \A i \in 1..(n - 1) : Tail(todo[c])[i] = todo[c][i + 1]
  BY <1>1
<1>5. todo'[c] = Tail(todo[c]) /\ \A d \in Callers : d # c => todo'[d] = todo[d]
  BY <1>1, <1>3
<1>6. LeftOf(todo'[c], p)
  <2>1. \A i \in 1..n : todo[c][i] = Writes(p)[6 - n + i]
    BY ONLY LeftOf(todo[c], p) DEF LeftOf
  <2>2. n \in 1..6 /\ Len(Tail(todo[c])) = n - 1
    BY <1>2, <1>4
  <2> HIDE DEF n
  <2>3. n - 1 =< 6
    BY <2>2
  <2>4. ASSUME NEW i \in 1..(n - 1) PROVE Tail(todo[c])[i] = Writes(p)[6 - (n - 1) + i]
    <3>1. 6 - n + (i + 1) = 6 - (n - 1) + i /\ i + 1 \in 1..n
      BY <2>2
    <3> QED BY <1>4, <2>1, <3>1
  <2> QED BY <1>5, <2>2, <2>3, <2>4 DEF LeftOf
<1>7. todo' \in [Callers -> Seq(Regs \X Int)]
  BY <1>1, <1>3, <1>4
<1> HIDE DEF n
<1>8. /\ chip' \in Chip
      /\ chip'.programmed = chip.programmed /\ chip'.streaming = chip.streaming
      /\ chip'.hold <=> n = 6 \/ (n # 1 /\ chip.hold)
      /\ stuck' <=> stuck /\ n # 1
      /\ n # 1 /\ (n = 6 \/ chip.hold) => chip'.live = chip.live
      /\ n # 1 /\ Carried(chip, n, p) => Carried(chip', n - 1, p)
      /\ n = 1 /\ Carried(chip, 1, p) => chip'.live = p
  <2>1. CASE n = 6
    <3>1. w = <<"hold", 1>>
      BY <2>1, WritesAre
    <3>2. chip' = [chip EXCEPT !.hold = TRUE, !.held = chip.live]
      BY <1>3, <3>1 DEF Effect
    <3>3. stuck' <=> stuck
      BY <1>3, <3>1
    <3>4. /\ chip' \in Chip /\ chip'.programmed = chip.programmed
          /\ chip'.streaming = chip.streaming /\ chip'.hold /\ chip'.live = chip.live
      BY <1>1, <3>2 DEF Chip
    <3> QED BY <2>1, <3>3, <3>4 DEF Carried
  <2>2. CASE n = 5
    <3>1. w = <<"hi", p.hi>>
      BY <2>2, WritesAre
    <3>2. /\ w[1] = "hi" /\ w[2] = p.hi /\ w # <<"hold", 1>> /\ w # <<"hold", 0>>
          /\ p.hi \in Int
      BY <3>1 DEF Pairs
    <3>3. stuck' <=> stuck
      BY <1>3, <3>2
    <3>4. CASE chip.hold
      <4>1. chip' = [chip EXCEPT !.held["hi"] = p.hi]
        BY <1>3, <3>2, <3>4 DEF Effect
      <4>2. /\ chip' \in Chip /\ chip'.programmed = chip.programmed
            /\ chip'.streaming = chip.streaming /\ chip'.hold /\ chip'.live = chip.live
            /\ chip'.held.hi = p.hi
            /\ chip'.held.lo = chip.held.lo
            /\ chip'.held.g0 = chip.held.g0
            /\ chip'.held.g1 = chip.held.g1
        BY <1>1, <3>2, <3>4, <4>1 DEF Chip, Pairs
      <4> QED BY <2>2, <3>3, <3>4, <4>2 DEF Carried
    <3>5. CASE ~chip.hold
      <4>1. chip' = [chip EXCEPT !.live["hi"] = p.hi]
        BY <1>3, <3>2, <3>5 DEF Effect
      <4>2. /\ chip' \in Chip /\ chip'.programmed = chip.programmed
            /\ chip'.streaming = chip.streaming /\ chip'.hold = chip.hold
        BY <1>1, <3>2, <4>1 DEF Chip, Pairs
      <4> QED BY <2>2, <3>3, <3>5, <4>2 DEF Carried
    <3> QED BY <3>4, <3>5
  <2>3. CASE n = 4
    <3>1. w = <<"lo", p.lo>>
      BY <2>3, WritesAre
    <3>2. /\ w[1] = "lo" /\ w[2] = p.lo /\ w # <<"hold", 1>> /\ w # <<"hold", 0>>
          /\ p.lo \in Int
      BY <3>1 DEF Pairs
    <3>3. stuck' <=> stuck
      BY <1>3, <3>2
    <3>4. CASE chip.hold
      <4>1. chip' = [chip EXCEPT !.held["lo"] = p.lo]
        BY <1>3, <3>2, <3>4 DEF Effect
      <4>2. /\ chip' \in Chip /\ chip'.programmed = chip.programmed
            /\ chip'.streaming = chip.streaming /\ chip'.hold /\ chip'.live = chip.live
            /\ chip'.held.lo = p.lo
            /\ chip'.held.hi = chip.held.hi
            /\ chip'.held.g0 = chip.held.g0
            /\ chip'.held.g1 = chip.held.g1
        BY <1>1, <3>2, <3>4, <4>1 DEF Chip, Pairs
      <4> QED BY <2>3, <3>3, <3>4, <4>2 DEF Carried
    <3>5. CASE ~chip.hold
      <4>1. chip' = [chip EXCEPT !.live["lo"] = p.lo]
        BY <1>3, <3>2, <3>5 DEF Effect
      <4>2. /\ chip' \in Chip /\ chip'.programmed = chip.programmed
            /\ chip'.streaming = chip.streaming /\ chip'.hold = chip.hold
        BY <1>1, <3>2, <4>1 DEF Chip, Pairs
      <4> QED BY <2>3, <3>3, <3>5, <4>2 DEF Carried
    <3> QED BY <3>4, <3>5
  <2>4. CASE n = 3
    <3>1. w = <<"g0", p.g0>>
      BY <2>4, WritesAre
    <3>2. /\ w[1] = "g0" /\ w[2] = p.g0 /\ w # <<"hold", 1>> /\ w # <<"hold", 0>>
          /\ p.g0 \in Int
      BY <3>1 DEF Pairs
    <3>3. stuck' <=> stuck
      BY <1>3, <3>2
    <3>4. CASE chip.hold
      <4>1. chip' = [chip EXCEPT !.held["g0"] = p.g0]
        BY <1>3, <3>2, <3>4 DEF Effect
      <4>2. /\ chip' \in Chip /\ chip'.programmed = chip.programmed
            /\ chip'.streaming = chip.streaming /\ chip'.hold /\ chip'.live = chip.live
            /\ chip'.held.g0 = p.g0
            /\ chip'.held.hi = chip.held.hi
            /\ chip'.held.lo = chip.held.lo
            /\ chip'.held.g1 = chip.held.g1
        BY <1>1, <3>2, <3>4, <4>1 DEF Chip, Pairs
      <4> QED BY <2>4, <3>3, <3>4, <4>2 DEF Carried
    <3>5. CASE ~chip.hold
      <4>1. chip' = [chip EXCEPT !.live["g0"] = p.g0]
        BY <1>3, <3>2, <3>5 DEF Effect
      <4>2. /\ chip' \in Chip /\ chip'.programmed = chip.programmed
            /\ chip'.streaming = chip.streaming /\ chip'.hold = chip.hold
        BY <1>1, <3>2, <4>1 DEF Chip, Pairs
      <4> QED BY <2>4, <3>3, <3>5, <4>2 DEF Carried
    <3> QED BY <3>4, <3>5
  <2>5. CASE n = 2
    <3>1. w = <<"g1", p.g1>>
      BY <2>5, WritesAre
    <3>2. /\ w[1] = "g1" /\ w[2] = p.g1 /\ w # <<"hold", 1>> /\ w # <<"hold", 0>>
          /\ p.g1 \in Int
      BY <3>1 DEF Pairs
    <3>3. stuck' <=> stuck
      BY <1>3, <3>2
    <3>4. CASE chip.hold
      <4>1. chip' = [chip EXCEPT !.held["g1"] = p.g1]
        BY <1>3, <3>2, <3>4 DEF Effect
      <4>2. /\ chip' \in Chip /\ chip'.programmed = chip.programmed
            /\ chip'.streaming = chip.streaming /\ chip'.hold /\ chip'.live = chip.live
            /\ chip'.held.g1 = p.g1
            /\ chip'.held.hi = chip.held.hi
            /\ chip'.held.lo = chip.held.lo
            /\ chip'.held.g0 = chip.held.g0
        BY <1>1, <3>2, <3>4, <4>1 DEF Chip, Pairs
      <4> QED BY <2>5, <3>3, <3>4, <4>2 DEF Carried
    <3>5. CASE ~chip.hold
      <4>1. chip' = [chip EXCEPT !.live["g1"] = p.g1]
        BY <1>3, <3>2, <3>5 DEF Effect
      <4>2. /\ chip' \in Chip /\ chip'.programmed = chip.programmed
            /\ chip'.streaming = chip.streaming /\ chip'.hold = chip.hold
        BY <1>1, <3>2, <4>1 DEF Chip, Pairs
      <4> QED BY <2>5, <3>3, <3>5, <4>2 DEF Carried
    <3> QED BY <3>4, <3>5
  <2>6. CASE n = 1
    <3>1. w = <<"hold", 0>>
      BY <2>6, WritesAre
    <3>2. w # <<"hold", 1>> /\ ~stuck'
      BY <1>3, <3>1
    <3>3. chip' = [chip EXCEPT !.hold = FALSE, !.held = Blank,
                               !.live = IF chip.hold THEN chip.held ELSE chip.live]
      BY <1>3, <3>1, <3>2 DEF Effect
    <3>4. /\ chip' \in Chip /\ chip'.programmed = chip.programmed
          /\ chip'.streaming = chip.streaming /\ ~chip'.hold
          /\ chip.hold => chip'.live = chip.held
      <4> DEFINE now == IF chip.hold THEN chip.held ELSE chip.live
      <4>1. Blank \in Pairs /\ now \in Pairs /\ (chip.hold => now = chip.held)
        BY <1>1 DEF Chip, Pairs, Blank
      <4>2. chip' = [chip EXCEPT !.hold = FALSE, !.held = Blank, !.live = now]
        BY <3>3
      <4> HIDE DEF now
      <4> QED BY <1>1, <4>1, <4>2 DEF Chip
    <3>5. ASSUME Carried(chip, 1, p) PROVE chip'.live = p
      <4>1. /\ chip.held \in Pairs /\ chip'.live = chip.held /\ chip.held.hi = p.hi
            /\ chip.held.lo = p.lo /\ chip.held.g0 = p.g0 /\ chip.held.g1 = p.g1
        BY <1>1, <3>4, <3>5 DEF Carried, Chip
      <4> QED BY <4>1 DEF Pairs
    <3>6. (chip'.hold <=> n = 6 \/ (n # 1 /\ chip.hold)) /\ (stuck' <=> stuck /\ n # 1)
      BY <2>6, <3>2, <3>4 DEF Chip
    <3> QED BY <2>6, <3>4, <3>5, <3>6
  <2> QED BY <1>2, <2>1, <2>2, <2>3, <2>4, <2>5, <2>6
<1> QED BY <1>1, <1>2, <1>3, <1>4, <1>5, <1>6, <1>7, <1>8 DEF n

\* What a failing write leaves of its commit: nothing, or the release of the hold
LEMMA FailDone ==
  ASSUME SnTypes, NEW c \in Callers, CommitFails(c)
  PROVE  /\ Len(todo[c]) \in 1..6 /\ todo' \in [Callers -> Seq(Regs \X Int)]
         /\ \A d \in Callers : d # c => todo'[d] = todo[d]
         /\ todo'[c] # <<>> => Len(todo'[c]) = 1
         /\ Len(todo[c]) \in 2..5 => Len(todo'[c]) = 1
         /\ \A p \in Pairs : LeftOf(todo'[c], p)
<1>1. /\ todo \in [Callers -> Seq(Regs \X Int)] /\ todo[c] \in Seq(Regs \X Int)
      /\ todo[c] # <<>> /\ todo' = [todo EXCEPT ![c] = Rest(c)]
  BY DEF SnTypes, CommitFails
<1>2. Len(todo[c]) \in 1..6
  <2>1. PICK p \in Pairs : LeftOf(todo[c], p)
    BY DEF SnTypes
  <2> QED BY <1>1, <2>1, LeftLength
<1>3. /\ Rest(c) \in Seq(Regs \X Int)
      /\ IF Len(todo[c]) \in 2..5 THEN Len(Rest(c)) = 1 /\ Rest(c)[1] = <<"hold", 0>>
                                  ELSE Rest(c) = <<>>
  <2>1. <<<<"hold", 0>>>> \in Seq(Regs \X Int) /\ <<>> \in Seq(Regs \X Int)
    BY DEF Regs
  <2> QED BY <2>1 DEF Rest
<1>4. ASSUME NEW p \in Pairs PROVE LeftOf(Rest(c), p)
  <2>1. CASE Rest(c) = <<>>
    BY <2>1 DEF LeftOf
  <2>2. CASE Rest(c) # <<>>
    <3>1. Len(Rest(c)) = 1 /\ Rest(c)[1] = <<"hold", 0>> /\ Writes(p)[6] = <<"hold", 0>>
      BY <1>3, <2>2, WritesAre
    <3>2. ASSUME NEW i \in 1..1 PROVE Rest(c)[i] = Writes(p)[6 - 1 + i]
      <4>1. i = 1 /\ 6 - 1 + i = 6
        OBVIOUS
      <4> QED BY <3>1, <4>1
    <3> QED BY <3>1, <3>2 DEF LeftOf
  <2> QED BY <2>1, <2>2
<1> QED BY <1>1, <1>2, <1>3, <1>4

\* How a commit begins
LEMMA CommitBegun ==
  ASSUME SnTypes, ~Overlapping, mode \in DOMAIN Modes, NEW c \in Callers, NEW label,
         NEW x \in Int, NEW g \in Int, BeginCommit(c, label, x, g)
  PROVE  LET p == Registers(FitsFrame(x), g)
         IN  /\ p \in Pairs /\ FitsMode(p)
             /\ \A d \in Callers : todo[d] = <<>>
             /\ todo'[c] = Writes(p) /\ Len(todo'[c]) = 6 /\ LeftOf(todo'[c], p)
             /\ \A d \in Callers : d # c => todo'[d] = <<>>
             /\ todo' \in [Callers -> Seq(Regs \X Int)]
             /\ Carried(chip, 6, p)
<1> DEFINE p == Registers(FitsFrame(x), g)
<1>1. p \in Pairs /\ FitsMode(p)
  BY FrameBounds, RegistersAre DEF FitsMode
<1>2. \A d \in Callers : todo[d] = <<>>
  BY DEF BeginCommit, Committing
<1>3. todo' = [todo EXCEPT ![c] = Writes(p)] /\ todo \in [Callers -> Seq(Regs \X Int)]
  BY DEF BeginCommit, SnTypes
<1> HIDE DEF p
<1>4. Writes(p) \in Seq(Regs \X Int) /\ Len(Writes(p)) = 6
  BY <1>1, WritesAre
<1>5. LeftOf(Writes(p), p)
  BY <1>4 DEF LeftOf
<1>6. Carried(chip, 6, p)
  BY DEF Carried
<1> QED BY <1>1, <1>2, <1>3, <1>4, <1>5, <1>6 DEF p

\* There is a closest usable mode, and it is the first of those.
LEMMA FoundMode ==
  ASSUME NEW n, NEW w \in Nat, Usable(n) # {}
  PROVE  LET m == nt99235_find_mode(n, w)
         IN  m \in Usable(n) /\ \A k \in Usable(n) : Distance(m, w) =< Distance(k, w)
<1> DEFINE D == {Distance(k, w) : k \in Usable(n)}
           Best(m) == \A k \in Usable(n) : \/ Distance(m, w) < Distance(k, w)
                                           \/ Distance(m, w) = Distance(k, w) /\ m =< k
<1>1. ASSUME NEW k \in Usable(n) PROVE k \in Nat /\ Distance(k, w) \in Nat
  <2>1. Modes \in Seq([w : Nat, lanes : Nat, vts : Nat]) /\ k \in DOMAIN Modes
    BY SensorAssumption DEF Usable
  <2>2. k \in 1..Len(Modes)
    BY <2>1
  <2>3. Modes[k] \in [w : Nat, lanes : Nat, vts : Nat]
    BY <2>1, <2>2, ElementOfSeq
  <2>4. Modes[k].w \in Nat
    BY <2>3
  <2> QED BY <2>2, <2>4 DEF Distance
<1>2. PICK d \in D : \A e \in D : d =< e
  <2>1. D \subseteq Nat /\ D # {}
    BY <1>1
  <2> HIDE DEF D
  <2> QED BY <2>1, Least
<1>3. PICK m \in {k \in Usable(n) : Distance(k, w) = d} :
        \A k \in {k \in Usable(n) : Distance(k, w) = d} : m =< k
  <2> DEFINE T == {k \in Usable(n) : Distance(k, w) = d}
  <2>1. T \subseteq Nat /\ T # {}
    BY <1>1, <1>2
  <2> HIDE DEF T
  <2>2. PICK m \in T : \A k \in T : m =< k
    BY <2>1, Least
  <2> QED BY <2>2 DEF T
<1>4. m \in Usable(n) /\ Best(m)
  <2> SUFFICES ASSUME NEW k \in Usable(n)
               PROVE  \/ Distance(m, w) < Distance(k, w)
                      \/ Distance(m, w) = Distance(k, w) /\ m =< k
    BY <1>3
  <2>1. d =< Distance(k, w) /\ Distance(m, w) = d /\ d \in Nat /\ Distance(k, w) \in Nat
    BY <1>1, <1>2, <1>3
  <2>2. CASE Distance(k, w) = d
    BY <1>3, <2>1, <2>2
  <2>3. CASE Distance(k, w) # d
    BY <2>1, <2>3
  <2> QED BY <2>2, <2>3
<1> DEFINE f == nt99235_find_mode(n, w)
<1>5. f = CHOOSE k \in Usable(n) : Best(k)
  BY DEF nt99235_find_mode
<1> HIDE DEF f, Best
<1>6. f \in Usable(n) /\ Best(f)
  BY <1>4, <1>5
<1>7. ASSUME NEW k \in Usable(n) PROVE Distance(f, w) =< Distance(k, w)
  BY <1>1, <1>6 DEF Best
<1> QED BY <1>6, <1>7 DEF f

\* A size that is offered is set.
LEMMA OfferedIsSet ==
  ASSUME NEW n, NEW w \in Offered(n)
  PROVE  Modes[nt99235_find_mode(n, w)].w = w
<1>1. PICK k \in Usable(n) : Modes[k].w = w
  BY DEF Offered
<1>2. ASSUME NEW i \in Usable(n) PROVE Modes[i].w \in Nat
  <2>1. Modes \in Seq([w : Nat, lanes : Nat, vts : Nat]) /\ i \in DOMAIN Modes
    BY SensorAssumption DEF Usable
  <2>2. i \in 1..Len(Modes)
    BY <2>1
  <2>3. Modes[i] \in [w : Nat, lanes : Nat, vts : Nat]
    BY <2>1, <2>2, ElementOfSeq
  <2> QED BY <2>3
<1> DEFINE m == nt99235_find_mode(n, w)
<1>3. m \in Usable(n) /\ Distance(m, w) =< Distance(k, w)
  BY <1>1, <1>2, FoundMode
<1> HIDE DEF m
<1>4. Distance(k, w) = 0 /\ Modes[m].w \in Nat /\ w \in Nat
  BY <1>1, <1>2, <1>3 DEF Distance
<1>5. Modes[m].w = w
  BY <1>3, <1>4 DEF Distance
<1> QED BY <1>5 DEF m

LEMMA UsableInTable == \A n : Usable(n) \subseteq DOMAIN Modes /\ DOMAIN Modes \subseteq Nat
<1>1. Modes \in Seq([w : Nat, lanes : Nat, vts : Nat])
  BY SensorAssumption
<1>2. DOMAIN Modes = 1..Len(Modes) /\ Len(Modes) \in Nat
  BY <1>1
<1> QED BY <1>2 DEF Usable

\* A control that is new, of a sensor in use, is committed.
LEMMA ControlDone ==
  ASSUME SnTypes, NEW c \in Callers, NEW label, NEW which \in {"exposure", "gain"},
         NEW value \in Int, Control(c, label, which, value)
  PROVE  /\ ctrl' \in [exposure : Int, gain : Int, max : Int, link : {0, 1}]
         /\ ctrl'.link = ctrl.link /\ pc' = [pc EXCEPT ![c] = label]
         /\ \/ SensorInUse /\ BeginCommit(c, label, ctrl'.exposure, ctrl'.gain)
            \/ (~SensorInUse \/ ctrl' = ctrl) /\ UNCHANGED <<todo, ok>>
<1>1. ctrl \in [exposure : Int, gain : Int, max : Int, link : {0, 1}]
  BY DEF SnTypes
<1>2. ctrl' = [ctrl EXCEPT ![which] = value]
  BY DEF Control
<1>3. /\ ctrl' \in [exposure : Int, gain : Int, max : Int, link : {0, 1}]
      /\ ctrl'.link = ctrl.link
  <2>1. CASE which = "exposure"
    BY <1>1, <1>2, <2>1
  <2>2. CASE which = "gain"
    BY <1>1, <1>2, <2>2
  <2> QED BY <2>1, <2>2
<1>4. CASE ctrl' # ctrl /\ SensorInUse
  <2>1. BeginCommit(c, label, ctrl'.exposure, ctrl'.gain)
    BY <1>2, <1>4 DEF Control
  <2> QED BY <1>3, <1>4, <2>1 DEF BeginCommit
<1>5. CASE ~(ctrl' # ctrl /\ SensorInUse)
  <2>1. Goto(c, label) /\ UNCHANGED <<todo, ok>>
    BY <1>2, <1>5 DEF Control
  <2> QED BY <1>3, <1>5, <2>1 DEF Goto
<1> QED BY <1>4, <1>5

LEMMA CutInt == \A a, b \in Int : Smaller(a, b) \in Int /\ Larger(a, b) \in Int
BY DEF Smaller, Larger

\* The first mode of a table from which some is usable
LEMMA WidthAre ==
  ASSUME NEW n, Usable(n) # {}
  PROVE  Modes[1].w \in Nat
<1>1. Modes \in Seq([w : Nat, lanes : Nat, vts : Nat])
  BY SensorAssumption
<1>2. PICK m \in 1..Len(Modes) : TRUE
  BY <1>1 DEF Usable
<1>3. Len(Modes) \in Nat
  BY <1>1
<1>4. 1 \in 1..Len(Modes)
  BY <1>2, <1>3
<1>5. Modes[1] \in [w : Nat, lanes : Nat, vts : Nat]
  BY <1>1, <1>4, ElementOfSeq
<1> QED BY <1>5

\* A write of a control on behalf of a parameter, and by its own interface
LEMMA ParamWrites ==
  ASSUME SnTypes
  PROVE  /\ ParamExposure => Control("param", "gain", "exposure", Smaller(param.exposure, ctrl.max))
         /\ ParamGain => Control("param", "hardware", "gain", param.gain)
         /\ Smaller(param.exposure, ctrl.max) \in Int /\ param.gain \in Int
         /\ param.exposure \in Int
<1>1. ctrl.max \in Int /\ param.exposure \in Int /\ param.gain \in Int
  BY DEF SnTypes
<1>2. Smaller(param.exposure, ctrl.max) \in Int
  BY <1>1, CutInt
<1> QED BY <1>1, <1>2 DEF ParamExposure, ParamGain

LEMMA ControlWrites ==
  ASSUME SnTypes, SetControl
  PROVE  \E which \in {"exposure", "gain"}, value \in Int :
           Control("control", "idle", which, value)
<1>1. ctrl.max \in Int
  BY DEF SnTypes
<1>2. CASE \E v \in Lines : Control("control", "idle", "exposure", Smaller(Larger(v, 1), ctrl.max))
  <2>1. PICK v \in Lines : Control("control", "idle", "exposure", Smaller(Larger(v, 1), ctrl.max))
    BY <1>2
  <2>2. Larger(v, 1) \in Int
    BY SensorAssumption, CutInt
  <2> DEFINE value == Smaller(Larger(v, 1), ctrl.max)
  <2>3. value \in Int /\ Control("control", "idle", "exposure", value)
    BY <1>1, <2>1, <2>2, CutInt
  <2> HIDE DEF value
  <2> QED BY <2>3
<1>3. CASE \E v \in Codes : Control("control", "idle", "gain", Smaller(Larger(v, 0), AgainMax))
  <2>1. PICK v \in Codes : Control("control", "idle", "gain", Smaller(Larger(v, 0), AgainMax))
    BY <1>3
  <2>2. Larger(v, 0) \in Int /\ AgainMax \in Int
    BY SensorAssumption, CutInt
  <2> DEFINE value == Smaller(Larger(v, 0), AgainMax)
  <2>3. value \in Int /\ Control("control", "idle", "gain", value)
    BY <2>1, <2>2, CutInt
  <2> HIDE DEF value
  <2> QED BY <2>3
<1> QED BY <1>2, <1>3 DEF SetControl

\* The caller begins a commit of what one of the interfaces now says.
Commits(c) ==
  /\ powered /\ mode \in DOMAIN Modes
  /\ \E label, v : v \in {param', ctrl'} /\ BeginCommit(c, label, v.exposure, v.gain)

ControlType == [exposure : Int, gain : Int, max : Int, link : {0, 1}]

\* The sensor is powered only with a mode of the table.
LEMMA PoweredMode ==
  ASSUME Power, ModeKept, powered
  PROVE  mode \in DOMAIN Modes
BY DEF Power, ModeKept

\* What the steps that may begin a commit do
LEMMA ExposureStep ==
  ASSUME SnTypes, Power, ModeKept, ParamExposure
  PROVE  /\ pc["param"] = "exposure" /\ todo["param"] = <<>>
         /\ UNCHANGED <<cfgVars, param, powerVars, chip, lock, missed, faultVars>>
         /\ ctrl' \in ControlType /\ ctrl'.link = ctrl.link
         /\ pc' = [pc EXCEPT !["param"] = "gain"]
         /\ Commits("param") \/ UNCHANGED <<todo, ok>>
<1> DEFINE cut == Smaller(param.exposure, ctrl.max)
<1>1. cut \in Int /\ Control("param", "gain", "exposure", cut) /\ "param" \in Callers
  BY ParamWrites, CallersAre
<1> HIDE DEF cut
<1>2. /\ ctrl' \in ControlType /\ ctrl'.link = ctrl.link
      /\ pc' = [pc EXCEPT !["param"] = "gain"]
      /\ \/ SensorInUse /\ BeginCommit("param", "gain", ctrl'.exposure, ctrl'.gain)
         \/ UNCHANGED <<todo, ok>>
  BY <1>1, ControlDone DEF ControlType
<1>3. SensorInUse => powered /\ mode \in DOMAIN Modes
  BY PoweredMode DEF SensorInUse
<1>4. Commits("param") \/ UNCHANGED <<todo, ok>>
  BY <1>2, <1>3 DEF Commits
<1> QED BY <1>2, <1>4 DEF ParamExposure, AtLabel

LEMMA GainStep ==
  ASSUME SnTypes, Power, ModeKept, ParamGain
  PROVE  /\ pc["param"] = "gain" /\ todo["param"] = <<>>
         /\ UNCHANGED <<cfgVars, param, powerVars, chip, lock, missed, faultVars>>
         /\ ctrl' \in ControlType /\ ctrl'.link = ctrl.link
         /\ pc' = [pc EXCEPT !["param"] = "hardware"]
         /\ Commits("param") \/ UNCHANGED <<todo, ok>>
<1>1. param.gain \in Int /\ Control("param", "hardware", "gain", param.gain) /\ "param" \in Callers
  BY ParamWrites, CallersAre
<1>2. /\ ctrl' \in ControlType /\ ctrl'.link = ctrl.link
      /\ pc' = [pc EXCEPT !["param"] = "hardware"]
      /\ \/ SensorInUse /\ BeginCommit("param", "hardware", ctrl'.exposure, ctrl'.gain)
         \/ UNCHANGED <<todo, ok>>
  BY <1>1, ControlDone DEF ControlType
<1>3. SensorInUse => powered /\ mode \in DOMAIN Modes
  BY PoweredMode DEF SensorInUse
<1>4. Commits("param") \/ UNCHANGED <<todo, ok>>
  BY <1>2, <1>3 DEF Commits
<1> QED BY <1>2, <1>4 DEF ParamGain, AtLabel

LEMMA HardwareStep ==
  ASSUME SnTypes, Power, ModeKept, ParamHardware
  PROVE  /\ pc["param"] = "hardware" /\ todo["param"] = <<>>
         /\ UNCHANGED <<cfgVars, param, ctrl, powerVars, chip, lock, missed, faultVars>>
         /\ pc' = [pc EXCEPT !["param"] = "unlock"]
         /\ Commits("param") \/ (~ref /\ UNCHANGED <<todo, ok>>)
<1>1. /\ pc["param"] = "hardware" /\ todo["param"] = <<>>
      /\ UNCHANGED <<cfgVars, param, ctrl, powerVars, chip, lock, missed, faultVars>>
      /\ IF SensorInUse THEN BeginCommit("param", "unlock", param.exposure, param.gain)
                        ELSE Goto("param", "unlock") /\ UNCHANGED <<todo, ok>>
  BY DEF ParamHardware, AtLabel
<1>2. CASE SensorInUse
  <2>1. powered /\ mode \in DOMAIN Modes
    BY <1>2, PoweredMode DEF SensorInUse
  <2>2. BeginCommit("param", "unlock", param'.exposure, param'.gain)
    BY <1>1, <1>2
  <2>3. Commits("param") /\ pc' = [pc EXCEPT !["param"] = "unlock"]
    BY <2>1, <2>2 DEF Commits, BeginCommit
  <2> QED BY <1>1, <2>3
<1>3. CASE ~SensorInUse
  <2>1. ~ref
    BY <1>3 DEF SensorInUse, Power
  <2> QED BY <1>1, <1>3, <2>1 DEF Goto
<1> QED BY <1>2, <1>3

LEMMA SetStep ==
  ASSUME SnTypes, Power, ModeKept, SetControl
  PROVE  /\ life \in {"probed", "bound"} /\ todo["control"] = <<>> /\ pc["control"] = "idle"
         /\ UNCHANGED <<cfgVars, param, powerVars, chip, lock, missed, faultVars>>
         /\ ctrl' \in ControlType /\ ctrl'.link = ctrl.link
         /\ pc' = [pc EXCEPT !["control"] = "idle"]
         /\ Commits("control") \/ ((ref => ctrl' = ctrl) /\ UNCHANGED <<todo, ok>>)
<1>1. PICK which \in {"exposure", "gain"}, value \in Int :
        Control("control", "idle", which, value)
  BY ControlWrites
<1>2. /\ ctrl' \in ControlType /\ ctrl'.link = ctrl.link
      /\ pc' = [pc EXCEPT !["control"] = "idle"]
      /\ \/ SensorInUse /\ BeginCommit("control", "idle", ctrl'.exposure, ctrl'.gain)
         \/ (~SensorInUse \/ ctrl' = ctrl) /\ UNCHANGED <<todo, ok>>
  BY <1>1, CallersAre, ControlDone DEF ControlType
<1>3. /\ SensorInUse => powered /\ mode \in DOMAIN Modes
      /\ ref => SensorInUse
  BY PoweredMode DEF SensorInUse, Power
<1>4. Commits("control") \/ ((ref => ctrl' = ctrl) /\ UNCHANGED <<todo, ok>>)
  BY <1>2, <1>3 DEF Commits
<1> QED BY <1>2, <1>4 DEF SetControl, AtLabel

LEMMA StartCommitStep ==
  ASSUME SnTypes, Power, ModeKept, StartCommit
  PROVE  /\ pc["stream"] = "commit" /\ todo["stream"] = <<>> /\ ref
         /\ UNCHANGED <<cfgVars, param, ctrl, powerVars, chip, lock, faultVars>>
         /\ missed' = FALSE
         /\ pc' = [pc EXCEPT !["stream"] = "select"] /\ Commits("stream")
<1>1. /\ pc["stream"] = "commit" /\ todo["stream"] = <<>>
      /\ BeginCommit("stream", "select", param.exposure, param.gain) /\ missed' = FALSE
      /\ UNCHANGED <<cfgVars, param, ctrl, powerVars, chip, lock, faultVars>>
  BY DEF StartCommit, AtLabel
<1>2. ref /\ powered
  BY <1>1 DEF Power
<1>3. mode \in DOMAIN Modes
  BY <1>2, PoweredMode
<1>4. BeginCommit("stream", "select", param'.exposure, param'.gain)
  BY <1>1
<1>5. Commits("stream") /\ pc' = [pc EXCEPT !["stream"] = "select"]
  BY <1>2, <1>3, <1>4 DEF Commits, BeginCommit
<1> QED BY <1>1, <1>2, <1>5

\* A commit that has begun: nothing else is under way, and all of it is to come.
LEMMA CommitsDone ==
  ASSUME SnTypes, ~Overlapping, NEW c \in Callers, Commits(c),
         param' \in [exposure : Int, gain : Int], ctrl' \in ControlType
  PROVE  /\ powered /\ ok' = [ok EXCEPT ![c] = TRUE]
         /\ \A d \in Callers : todo[d] = <<>>
         /\ \A d \in Callers : d # c => todo'[d] = <<>>
         /\ Len(todo'[c]) = 6 /\ todo'[c] # <<>>
         /\ todo' \in [Callers -> Seq(Regs \X Int)]
         /\ \E p \in Pairs :
              /\ FitsMode(p) /\ LeftOf(todo'[c], p) /\ Carried(chip, 6, p)
              /\ \E v \in {param', ctrl'} : p = Registers(FitsFrame(v.exposure), v.gain)
<1>1. PICK label, v : v \in {param', ctrl'} /\ BeginCommit(c, label, v.exposure, v.gain)
  BY DEF Commits
<1>2. v.exposure \in Int /\ v.gain \in Int
  BY <1>1 DEF ControlType
<1> DEFINE p == Registers(FitsFrame(v.exposure), v.gain)
<1>3. /\ p \in Pairs /\ FitsMode(p)
      /\ \A d \in Callers : todo[d] = <<>>
      /\ Len(todo'[c]) = 6 /\ LeftOf(todo'[c], p)
      /\ \A d \in Callers : d # c => todo'[d] = <<>>
      /\ todo' \in [Callers -> Seq(Regs \X Int)]
      /\ Carried(chip, 6, p)
  BY <1>1, <1>2, CommitBegun DEF Commits
<1>4. p = Registers(FitsFrame(v.exposure), v.gain)
  OBVIOUS
<1> HIDE DEF p
<1>5. todo'[c] # <<>>
  <2>1. Len(todo'[c]) = 6
    BY <1>3
  <2> QED BY ONLY <2>1
<1>6. ok' = [ok EXCEPT ![c] = TRUE] /\ powered
  BY <1>1 DEF BeginCommit, Commits
<1> QED BY <1>1, <1>3, <1>4, <1>5, <1>6

-----------------------------------------------------------------------------
(* Each part of the invariant is kept.                                     *)

LEMMA TypesKept ==
  ASSUME SnTypes, Power, ModeKept, SnNext, ~Overlapping
  PROVE  SnTypes'
<1> DEFINE Labels == {"idle", "lock", "exposure", "gain", "hardware", "unlock",
                      "program", "commit", "select"}
<1>1. /\ life \in {"gone", "up", "probed", "bound", "leaving"}
      /\ board \in [lanes : Nat, force : Nat, bringup : 0..3]
      /\ mode \in Nat /\ param \in [exposure : Int, gain : Int]
      /\ ctrl \in ControlType
      /\ ref \in BOOLEAN /\ powered \in BOOLEAN /\ mclk \in Int /\ chip \in Chip
      /\ pc \in [Callers -> Labels]
      /\ pc["control"] = "idle" /\ pc["stream"] \in {"idle", "program", "commit", "select"}
      /\ todo \in [Callers -> Seq(Regs \X Int)] /\ ok \in [Callers -> BOOLEAN]
      /\ \A c \in Callers : \E p \in Pairs : LeftOf(todo[c], p)
      /\ lock \in BOOLEAN /\ missed \in BOOLEAN /\ stuck \in BOOLEAN /\ faults \in Nat
  BY DEF SnTypes, ControlType
<1>2. "param" \in Callers /\ "control" \in Callers /\ "stream" \in Callers
  BY CallersAre
<1>3. Reset \in Chip
  BY DEF Reset, Chip, Blank, Pairs
<1>4. ASSUME NEW c \in Callers, Commits(c), ctrl' \in ControlType,
             param' \in [exposure : Int, gain : Int]
      PROVE  /\ todo' \in [Callers -> Seq(Regs \X Int)] /\ ok' \in [Callers -> BOOLEAN]
             /\ \A d \in Callers : \E p \in Pairs : LeftOf(todo'[d], p)
  <2>1. /\ ok' = [ok EXCEPT ![c] = TRUE]
        /\ \A d \in Callers : d # c => todo'[d] = <<>>
        /\ todo' \in [Callers -> Seq(Regs \X Int)]
        /\ \E p \in Pairs : LeftOf(todo'[c], p)
    BY <1>4, CommitsDone
  <2>2. \A p : LeftOf(<<>>, p)
    BY DEF LeftOf
  <2> QED BY <1>1, <2>1, <2>2
<1>5. CASE \E c \in Callers : CommitWrite(c)
  <2>1. PICK c \in Callers : CommitWrite(c)
    BY <1>5
  <2>2. PICK p \in Pairs : LeftOf(todo[c], p)
    BY <1>1
  <2>3. /\ todo' \in [Callers -> Seq(Regs \X Int)] /\ chip' \in Chip /\ stuck' \in BOOLEAN
        /\ LeftOf(todo'[c], p) /\ \A d \in Callers : d # c => todo'[d] = todo[d]
    BY <2>1, <2>2, WriteDone
  <2>4. \A d \in Callers : \E q \in Pairs : LeftOf(todo'[d], q)
    BY <1>1, <2>3
  <2>5. UNCHANGED <<cfgVars, param, ctrl, powerVars, pc, ok, lock, missed, faults>>
    BY <2>1 DEF CommitWrite
  <2> QED BY <1>1, <2>3, <2>4, <2>5 DEF SnTypes, ControlType, cfgVars, powerVars
<1>6. CASE \E c \in Callers : CommitFails(c)
  <2>1. PICK c \in Callers : CommitFails(c)
    BY <1>6
  <2>2. /\ todo' \in [Callers -> Seq(Regs \X Int)]
        /\ \A p \in Pairs : LeftOf(todo'[c], p)
        /\ \A d \in Callers : d # c => todo'[d] = todo[d]
    BY <2>1, FailDone
  <2>3. \A d \in Callers : \E q \in Pairs : LeftOf(todo'[d], q)
    BY <1>1, <2>2
  <2>4. /\ UNCHANGED <<cfgVars, param, ctrl, powerVars, chip, pc, lock, missed>>
        /\ ok' = [ok EXCEPT ![c] = FALSE] /\ faults' = faults + 1
        /\ stuck' = (stuck \/ Len(todo[c]) = 1)
    BY <2>1 DEF CommitFails
  <2>5. ok' \in [Callers -> BOOLEAN] /\ stuck' \in BOOLEAN /\ faults' \in Nat
    BY <1>1, <2>4
  <2> QED BY <1>1, <2>2, <2>3, <2>4, <2>5 DEF SnTypes, ControlType, cfgVars, powerVars
<1>7. CASE ParamExposure
  <2>1. /\ UNCHANGED <<cfgVars, param, powerVars, chip, lock, missed, faultVars>>
        /\ ctrl' \in ControlType /\ pc' = [pc EXCEPT !["param"] = "gain"]
        /\ Commits("param") \/ UNCHANGED <<todo, ok>>
    BY <1>7, ExposureStep
  <2>2. /\ todo' \in [Callers -> Seq(Regs \X Int)] /\ ok' \in [Callers -> BOOLEAN]
        /\ \A d \in Callers : \E p \in Pairs : LeftOf(todo'[d], p)
    BY <1>1, <1>2, <1>4, <2>1
  <2> QED BY <1>1, <1>2, <2>1, <2>2 DEF SnTypes, ControlType, cfgVars, powerVars, faultVars
<1>8. CASE ParamGain
  <2>1. /\ UNCHANGED <<cfgVars, param, powerVars, chip, lock, missed, faultVars>>
        /\ ctrl' \in ControlType /\ pc' = [pc EXCEPT !["param"] = "hardware"]
        /\ Commits("param") \/ UNCHANGED <<todo, ok>>
    BY <1>8, GainStep
  <2>2. /\ todo' \in [Callers -> Seq(Regs \X Int)] /\ ok' \in [Callers -> BOOLEAN]
        /\ \A d \in Callers : \E p \in Pairs : LeftOf(todo'[d], p)
    BY <1>1, <1>2, <1>4, <2>1
  <2> QED BY <1>1, <1>2, <2>1, <2>2 DEF SnTypes, ControlType, cfgVars, powerVars, faultVars
<1>9. CASE ParamHardware
  <2>1. /\ UNCHANGED <<cfgVars, param, ctrl, powerVars, chip, lock, missed, faultVars>>
        /\ pc' = [pc EXCEPT !["param"] = "unlock"]
        /\ Commits("param") \/ UNCHANGED <<todo, ok>>
    BY <1>9, HardwareStep
  <2>2. /\ todo' \in [Callers -> Seq(Regs \X Int)] /\ ok' \in [Callers -> BOOLEAN]
        /\ \A d \in Callers : \E p \in Pairs : LeftOf(todo'[d], p)
    BY <1>1, <1>2, <1>4, <2>1
  <2> QED BY <1>1, <1>2, <2>1, <2>2 DEF SnTypes, ControlType, cfgVars, powerVars, faultVars
<1>10. CASE SetControl
  <2>1. /\ UNCHANGED <<cfgVars, param, powerVars, chip, lock, missed, faultVars>>
        /\ ctrl' \in ControlType /\ pc' = [pc EXCEPT !["control"] = "idle"]
        /\ Commits("control") \/ UNCHANGED <<todo, ok>>
    BY <1>10, SetStep
  <2>2. /\ todo' \in [Callers -> Seq(Regs \X Int)] /\ ok' \in [Callers -> BOOLEAN]
        /\ \A d \in Callers : \E p \in Pairs : LeftOf(todo'[d], p)
    BY <1>1, <1>2, <1>4, <2>1
  <2> QED BY <1>1, <1>2, <2>1, <2>2 DEF SnTypes, ControlType, cfgVars, powerVars, faultVars
<1>11. CASE StartCommit
  <2>1. /\ UNCHANGED <<cfgVars, param, ctrl, powerVars, chip, lock, faultVars>>
        /\ missed' = FALSE
        /\ pc' = [pc EXCEPT !["stream"] = "select"] /\ Commits("stream")
    BY <1>11, StartCommitStep
  <2>2. /\ todo' \in [Callers -> Seq(Regs \X Int)] /\ ok' \in [Callers -> BOOLEAN]
        /\ \A d \in Callers : \E p \in Pairs : LeftOf(todo'[d], p)
    BY <1>1, <1>2, <1>4, <2>1
  <2> QED BY <1>1, <1>2, <2>1, <2>2 DEF SnTypes, ControlType, cfgVars, powerVars, faultVars
<1>12. CASE ParamSet
  <2>1. param' \in [exposure : Int, gain : Int]
    <3>1. ASSUME NEW v \in Lines PROVE Larger(v, 1) \in Int
      BY SensorAssumption, CutInt
    <3>2. ASSUME NEW v \in Codes PROVE Smaller(Larger(v, 0), AgainMax) \in Int
      <4>1. Larger(v, 0) \in Int /\ AgainMax \in Int
        BY SensorAssumption, CutInt
      <4> QED BY <4>1, CutInt
    <3> QED BY <1>1, <1>12, <3>1, <3>2 DEF ParamSet
  <2>2. /\ UNCHANGED <<cfgVars, ctrl, powerVars, chip, todo, ok, lock, missed, faultVars>>
        /\ pc' = [pc EXCEPT !["param"] = "lock"]
    BY <1>12 DEF ParamSet, Goto
  <2> QED BY <1>1, <1>2, <2>1, <2>2 DEF SnTypes, ControlType, cfgVars, powerVars, faultVars
<1>13. CASE Register
  <2>1. mode \in DOMAIN Modes
    BY <1>13 DEF Register, ModeKept
  <2>2. FitsFrame(param.exposure) \in Int /\ Modes[mode].vts - 2 \in Int
    <3>1. Modes \in Seq([w : Nat, lanes : Nat, vts : Nat])
      BY SensorAssumption
    <3>2. mode \in 1..Len(Modes)
      BY <2>1, <3>1
    <3>3. Modes[mode] \in [w : Nat, lanes : Nat, vts : Nat]
      BY <3>1, <3>2, ElementOfSeq
    <3>4. Modes[mode].vts - 2 \in Int
      BY <3>3
    <3>5. param.exposure \in Int
      BY <1>1
    <3>6. FitsFrame(param.exposure) \in Int
      BY <2>1, <3>5, FrameBounds
    <3> QED BY <3>4, <3>6
  <2>3. LinkIndex(mode) \in {0, 1}
    BY DEF LinkIndex
  <2>4. /\ ctrl' \in ControlType /\ mclk' \in Int /\ life' = "probed"
        /\ UNCHANGED <<board, mode, probes, param, ref, powered, chip, callVars, missed, faultVars>>
    BY <1>1, <1>13, <2>2, <2>3 DEF Register, BringupOff, ControlType
  <2> QED BY <1>1, <2>4 DEF SnTypes, ControlType, callVars, faultVars
<1>14. CASE \E x \in WantW : SetFormat(x)
  <2>1. PICK x \in WantW : SetFormat(x)
    BY <1>14
  <2>2. mode' \in Nat
    <3>1. life # "gone" /\ mode' = nt99235_find_mode(board.lanes, x) /\ x \in Nat
      BY <2>1, SensorAssumption DEF SetFormat
    <3>2. Usable(board.lanes) # {}
      BY <3>1, SensorAssumption DEF ModeKept
    <3> QED BY <3>1, <3>2, FoundMode, UsableInTable
  <2>3. ctrl' \in ControlType
    <3>1. ctrl' = [ctrl EXCEPT !.link = LinkIndex(mode')] /\ LinkIndex(mode') \in {0, 1}
      BY <2>1 DEF SetFormat, LinkIndex
    <3> QED BY <1>1, <3>1 DEF ControlType
  <2>4. UNCHANGED <<life, board, probes, param, powerVars, chip, callVars, missed, faultVars>>
    BY <2>1 DEF SetFormat
  <2> QED BY <1>1, <2>2, <2>3, <2>4 DEF SnTypes, ControlType, powerVars, callVars, faultVars
<1>15. CASE \E b \in Boards : ProbeBoard(b)
  <2>1. PICK b \in Boards : ProbeBoard(b)
    BY <1>15
  <2>2. b \in [lanes : Nat, force : 0..Len(Modes), bringup : 0..3] /\ Usable(b.lanes) # {}
    BY SensorAssumption
  <2>3. mode' \in Nat
    <3>1. CASE b.force # 0
      BY <2>1, <2>2, <3>1 DEF ProbeBoard
    <3>2. CASE b.force = 0
      <4>1. Modes[1].w \in Nat
        BY <2>2, WidthAre
      <4>2. mode' = nt99235_find_mode(b.lanes, Modes[1].w)
        BY <2>1, <3>2 DEF ProbeBoard
      <4> QED BY <2>2, <4>1, <4>2, FoundMode, UsableInTable
    <3> QED BY <3>1, <3>2
  <2>4. /\ board' = b /\ life' = "up" /\ mclk' \in Int
        /\ UNCHANGED <<param, ctrl, ref, powered, chip, callVars, missed, faultVars>>
    BY <1>1, <2>1 DEF ProbeBoard
  <2>5. b \in [lanes : Nat, force : Nat, bringup : 0..3]
    BY <2>2
  <2> QED BY <1>1, <2>3, <2>4, <2>5 DEF SnTypes, ControlType, callVars, faultVars
<1>16. CASE ParamLock
  BY <1>1, <1>2, <1>3, <1>16 DEF ParamLock, Chip, SnTypes, ControlType, AtLabel, Goto, cfgVars, powerVars, callVars, faultVars
<1>17. CASE ParamUnlock
  BY <1>1, <1>2, <1>3, <1>17 DEF ParamUnlock, Chip, SnTypes, ControlType, AtLabel, Goto, cfgVars, powerVars, callVars, faultVars
<1>18. CASE StartStream
  <2>1. chip \in Chip /\ mclk \in Int /\ powered \in BOOLEAN /\ faults \in Nat
    BY <1>1
  <2>2. IF powered THEN UNCHANGED <<powered, mclk, chip>>
            ELSE powered' = TRUE /\ mclk' = mclk + 1 /\ chip' = Reset
    BY <1>18 DEF StartStream
  <2>3. chip' \in Chip /\ mclk' \in Int
    BY <1>3, <2>1, <2>2
  <2>4. powered' \in BOOLEAN
    BY <2>1, <2>2, Zenon
  <2>5. ref' \in BOOLEAN /\ pc' = [pc EXCEPT !["stream"] = "program"]
    BY <1>18 DEF StartStream, Goto
  <2>6. UNCHANGED <<cfgVars, param, ctrl, todo, ok, lock, missed, faultVars>>
    BY <1>18 DEF StartStream
  <2> QED BY <1>1, <1>2, <2>1, <2>2, <2>3, <2>4, <2>5, <2>6 DEF SnTypes, ControlType, cfgVars, powerVars, callVars, faultVars
<1>19. CASE StartStreamFails
  BY <1>1, <1>2, <1>3, <1>19 DEF StartStreamFails, Chip, SnTypes, ControlType, AtLabel, Goto, cfgVars, powerVars, callVars, faultVars
<1>20. CASE ProgramTables
  BY <1>1, <1>2, <1>3, <1>20 DEF ProgramTables, Chip, SnTypes, ControlType, AtLabel, Goto, cfgVars, powerVars, callVars, faultVars
<1>21. CASE Select
  BY <1>1, <1>2, <1>3, <1>21 DEF Select, Chip, SnTypes, ControlType, AtLabel, Goto, cfgVars, powerVars, callVars, faultVars
<1>22. CASE Undo
  <2>1. chip' = chip /\ faults' \in Nat /\ stuck' = stuck
    BY <1>1, <1>22 DEF Undo, faultVars
  <2>2. ref' \in BOOLEAN /\ pc' = [pc EXCEPT !["stream"] = "idle"]
    BY <1>22 DEF Undo, Goto
  <2>3. UNCHANGED <<cfgVars, param, ctrl, powered, mclk, todo, ok, lock, missed>>
    BY <1>22 DEF Undo
  <2> QED BY <1>1, <1>2, <2>1, <2>2, <2>3 DEF SnTypes, ControlType, cfgVars, powerVars, callVars, faultVars
<1>23. CASE Stop
  <2>1. chip \in Chip /\ mclk \in Int /\ powered \in BOOLEAN /\ faults \in Nat
    BY <1>1
  <2>2. chip' \in Chip
    BY <2>1, <1>23 DEF Stop, Chip
  <2>3. ref' = FALSE /\ (faults' = faults \/ faults' = faults + 1)
    BY <1>23 DEF Stop
  <2>4. faults' \in Nat
    BY <2>1, <2>3
  <2>5. ref' \in BOOLEAN
    BY <2>3, Zenon
  <2>6. UNCHANGED <<cfgVars, param, ctrl, powered, mclk, callVars, missed, stuck>>
    BY <1>23 DEF Stop
  <2> QED BY <1>1, <1>2, <2>1, <2>2, <2>3, <2>4, <2>5, <2>6 DEF SnTypes, ControlType, cfgVars, powerVars, callVars, faultVars
<1>24. CASE PowerOff
  <2>1. chip \in Chip /\ mclk \in Int /\ powered \in BOOLEAN /\ faults \in Nat
    BY <1>1
  <2>2. mclk' = mclk - 1 /\ chip' = Reset
    BY <1>24 DEF PowerOff
  <2>3. chip' \in Chip /\ mclk' \in Int
    BY <1>3, <2>1, <2>2
  <2>4. powered' = FALSE
    BY <1>24 DEF PowerOff
  <2>5. powered' \in BOOLEAN
    BY <2>4, Zenon
  <2>6. UNCHANGED <<cfgVars, param, ctrl, ref, callVars, missed, faultVars>>
    BY <1>24 DEF PowerOff
  <2> QED BY <1>1, <1>2, <2>1, <2>2, <2>3, <2>5, <2>6 DEF SnTypes, ControlType, cfgVars, powerVars, callVars, faultVars
<1>25. CASE BringupFails
  BY <1>1, <1>2, <1>3, <1>25 DEF BringupFails, Chip, SnTypes, ControlType, AtLabel, Goto, cfgVars, powerVars, callVars, faultVars
<1>26. CASE Publish
  BY <1>1, <1>2, <1>3, <1>26 DEF Publish, Chip, SnTypes, ControlType, AtLabel, Goto, cfgVars, powerVars, callVars, faultVars
<1>27. CASE RemoveSensor
  BY <1>1, <1>2, <1>3, <1>27 DEF RemoveSensor, Chip, SnTypes, ControlType, AtLabel, Goto, cfgVars, powerVars, callVars, faultVars
<1>28. CASE Teardown
  <2>1. chip \in Chip /\ mclk \in Int /\ powered \in BOOLEAN /\ faults \in Nat
    BY <1>1
  <2>2. (mclk' = mclk \/ mclk' = mclk - 1) /\ chip' = Reset /\ life' = "gone"
    BY <1>28 DEF Teardown
  <2>3. chip' \in Chip /\ mclk' \in Int
    BY <1>3, <2>1, <2>2
  <2>4. powered' = FALSE
    BY <1>28 DEF Teardown
  <2>5. powered' \in BOOLEAN
    BY <2>4, Zenon
  <2>6. UNCHANGED <<board, mode, probes, param, ctrl, ref, callVars, missed, faultVars>>
    BY <1>28 DEF Teardown
  <2> QED BY <1>1, <1>2, <2>1, <2>2, <2>3, <2>5, <2>6 DEF SnTypes, ControlType, cfgVars, powerVars, callVars, faultVars
<1> QED BY <1>5, <1>6, <1>7, <1>8, <1>9, <1>10, <1>11, <1>12, <1>13, <1>14, <1>15, <1>16, <1>17, <1>18, <1>19, <1>20, <1>21, <1>22, <1>23, <1>24, <1>25, <1>26, <1>27, <1>28 DEF SnNext

LEMMA PowerKept ==
  ASSUME SnTypes, Power, Holding, ModeKept, SnNext, ~Overlapping, ~LateFail
  PROVE  Power'
<1>1. /\ ref \/ (\E c \in Callers : todo[c] # <<>>) => powered
      /\ powered => life \in {"probed", "bound", "leaving"}
      /\ ~powered => chip = Reset
      /\ mclk = IF life = "up" THEN IF board.bringup > 0 THEN 1 ELSE 0
                ELSE IF powered THEN 1 ELSE 0
      /\ (lock <=> pc["param"] \in {"exposure", "gain", "hardware", "unlock"})
      /\ lock => life = "bound"
      /\ todo["param"] # <<>> => lock
      /\ pc["stream"] # "idle" => ref
      /\ todo["stream"] # <<>> => pc["stream"] = "select"
  BY DEF Power
<1>2. "param" \in Callers /\ "control" \in Callers /\ "stream" \in Callers
  BY CallersAre
<1>3. /\ pc \in [Callers -> {"idle", "lock", "exposure", "gain", "hardware", "unlock",
                             "program", "commit", "select"}]
      /\ todo \in [Callers -> Seq(Regs \X Int)]
      /\ ctrl \in ControlType /\ param \in [exposure : Int, gain : Int]
      /\ board.bringup \in 0..3
  BY DEF SnTypes, ControlType
<1>4. CASE \E c \in Callers : CommitWrite(c) \/ CommitFails(c)
  <2>1. PICK c \in Callers : CommitWrite(c) \/ CommitFails(c)
    BY <1>4
  <2>2. /\ todo[c] # <<>> /\ \A d \in Callers : d # c => todo'[d] = todo[d]
        /\ UNCHANGED <<cfgVars, powerVars, pc, lock>>
    BY <1>3, <2>1 DEF CommitWrite, CommitFails
  <2>3. powered
    BY <1>1, <2>2
  <2> QED BY <1>1, <1>2, <2>2, <2>3 DEF Power, cfgVars, powerVars
<1>5. CASE ParamExposure
  <2>1. /\ pc["param"] = "exposure" /\ UNCHANGED <<cfgVars, param, powerVars, chip, lock>>
        /\ ctrl' \in ControlType /\ pc' = [pc EXCEPT !["param"] = "gain"]
        /\ Commits("param") \/ UNCHANGED todo
    BY <1>5, ExposureStep
  <2>2. \/ powered /\ \A d \in Callers : d # "param" => todo'[d] = <<>>
        \/ UNCHANGED todo
    BY <1>2, <1>3, <2>1, CommitsDone
  <2> QED BY <1>1, <1>2, <1>3, <2>1, <2>2 DEF Power, cfgVars, powerVars
<1>6. CASE ParamGain
  <2>1. /\ pc["param"] = "gain" /\ UNCHANGED <<cfgVars, param, powerVars, chip, lock>>
        /\ ctrl' \in ControlType /\ pc' = [pc EXCEPT !["param"] = "hardware"]
        /\ Commits("param") \/ UNCHANGED todo
    BY <1>6, GainStep
  <2>2. \/ powered /\ \A d \in Callers : d # "param" => todo'[d] = <<>>
        \/ UNCHANGED todo
    BY <1>2, <1>3, <2>1, CommitsDone
  <2> QED BY <1>1, <1>2, <1>3, <2>1, <2>2 DEF Power, cfgVars, powerVars
<1>7. CASE ParamHardware
  <2>1. /\ pc["param"] = "hardware" /\ UNCHANGED <<cfgVars, param, ctrl, powerVars, chip, lock>>
        /\ pc' = [pc EXCEPT !["param"] = "unlock"]
        /\ Commits("param") \/ UNCHANGED todo
    BY <1>7, HardwareStep
  <2>2. \/ powered /\ \A d \in Callers : d # "param" => todo'[d] = <<>>
        \/ UNCHANGED todo
    BY <1>2, <1>3, <2>1, CommitsDone
  <2> QED BY <1>1, <1>2, <1>3, <2>1, <2>2 DEF Power, cfgVars, powerVars
<1>8. CASE SetControl
  <2>1. /\ UNCHANGED <<cfgVars, param, powerVars, chip, lock>>
        /\ ctrl' \in ControlType /\ pc' = [pc EXCEPT !["control"] = "idle"]
        /\ Commits("control") \/ UNCHANGED todo
    BY <1>8, SetStep
  <2>2. \/ powered /\ \A d \in Callers : d # "control" => todo'[d] = <<>>
        \/ UNCHANGED todo
    BY <1>2, <1>3, <2>1, CommitsDone
  <2> QED BY <1>1, <1>2, <1>3, <2>1, <2>2 DEF Power, cfgVars, powerVars
<1>9. CASE StartCommit
  <2>1. /\ UNCHANGED <<cfgVars, param, ctrl, powerVars, chip, lock>> /\ ref
        /\ pc' = [pc EXCEPT !["stream"] = "select"] /\ Commits("stream")
    BY <1>9, StartCommitStep
  <2>2. powered /\ \A d \in Callers : d # "stream" => todo'[d] = <<>>
    BY <1>2, <1>3, <2>1, CommitsDone
  <2> QED BY <1>1, <1>2, <1>3, <2>1, <2>2 DEF Power, cfgVars, powerVars
<1>10. CASE \E x \in WantW : SetFormat(x)
  BY <1>1, <1>2, <1>3, <1>10 DEF SetFormat, Power, powerVars, callVars
<1>11. CASE \E b \in Boards : ProbeBoard(b)
  <2>1. PICK b \in Boards : ProbeBoard(b)
    BY <1>11
  <2>2. /\ life = "gone" /\ ~powered /\ mclk = 0
    BY <1>1, <2>1 DEF ProbeBoard
  <2> QED BY <1>1, <1>2, <1>3, <2>1, <2>2 DEF ProbeBoard, Power, powerVars, callVars
<1>12. CASE ParamSet
  BY <1>1, <1>2, <1>3, <1>12 DEF ParamSet, Power, AtLabel, Goto, cfgVars, powerVars, callVars, faultVars
<1>13. CASE ParamLock
  BY <1>1, <1>2, <1>3, <1>13 DEF ParamLock, Power, AtLabel, Goto, cfgVars, powerVars, callVars, faultVars
<1>14. CASE ParamUnlock
  BY <1>1, <1>2, <1>3, <1>14 DEF ParamUnlock, Power, AtLabel, Goto, cfgVars, powerVars, callVars, faultVars
<1>15. CASE StartStream
  BY <1>1, <1>2, <1>3, <1>15 DEF StartStream, Power, AtLabel, Goto, cfgVars, powerVars, callVars, faultVars
<1>16. CASE StartStreamFails
  BY <1>1, <1>2, <1>3, <1>16 DEF StartStreamFails, Power, AtLabel, Goto, cfgVars, powerVars, callVars, faultVars
<1>17. CASE ProgramTables
  BY <1>1, <1>2, <1>3, <1>17 DEF ProgramTables, Power, AtLabel, Goto, cfgVars, powerVars, callVars, faultVars
<1>18. CASE Select
  BY <1>1, <1>2, <1>3, <1>18 DEF Select, Power, AtLabel, Goto, cfgVars, powerVars, callVars, faultVars
<1>19. CASE Undo
  BY <1>1, <1>2, <1>3, <1>19 DEF Undo, Power, AtLabel, Goto, cfgVars, powerVars, callVars, faultVars
<1>20. CASE Stop
  BY <1>1, <1>2, <1>3, <1>20 DEF Stop, Power, AtLabel, Goto, cfgVars, powerVars, callVars, faultVars
<1>21. CASE PowerOff
  BY <1>1, <1>2, <1>3, <1>21 DEF PowerOff, Committing, Power, AtLabel, Goto, cfgVars, powerVars, callVars, faultVars
<1>22. CASE Register
  BY <1>1, <1>2, <1>3, <1>22 DEF Register, BringupOff, Power, AtLabel, Goto, cfgVars, powerVars, callVars, faultVars
<1>23. CASE BringupFails
  BY <1>1, <1>2, <1>3, <1>23 DEF BringupFails, Power, AtLabel, Goto, cfgVars, powerVars, callVars, faultVars
<1>24. CASE Publish
  BY <1>1, <1>2, <1>3, <1>24 DEF Publish, Power, AtLabel, Goto, cfgVars, powerVars, callVars, faultVars
<1>25. CASE RemoveSensor
  BY <1>1, <1>2, <1>3, <1>25 DEF RemoveSensor, Power, AtLabel, Goto, cfgVars, powerVars, callVars, faultVars
<1>26. CASE Teardown
  <2>1. \A c \in Callers : todo[c] = <<>>
    <3>1. /\ life = "leaving" /\ todo["stream"] = <<>> /\ todo["control"] = <<>>
      BY <1>26 DEF Teardown, AtLabel
    <3>2. todo["param"] = <<>>
      BY <1>1, <3>1
    <3> QED BY <3>1, <3>2, CallersAre
  <2>2. /\ life = "leaving" /\ life' = "gone" /\ powered' = FALSE /\ chip' = Reset
        /\ mclk' = IF powered THEN mclk - 1 ELSE mclk
    BY <1>26 DEF Teardown
  <2>3. /\ ~ref /\ UNCHANGED <<board, mode, probes, param, ctrl, ref, callVars>>
    BY <1>26 DEF Teardown
  <2>4. mclk' = 0 /\ ~lock
    BY <1>1, <2>2
  <2> QED BY <1>1, <2>1, <2>2, <2>3, <2>4 DEF Power, callVars
<1> QED BY <1>4, <1>5, <1>6, <1>7, <1>8, <1>9, <1>10, <1>11, <1>12, <1>13, <1>14, <1>15, <1>16, <1>17, <1>18, <1>19, <1>20, <1>21, <1>22, <1>23, <1>24, <1>25, <1>26 DEF SnNext

LEMMA HoldingKept ==
  ASSUME SnTypes, Power, Holding, ModeKept, SnNext, ~Overlapping
  PROVE  Holding'
<1>1. /\ \A c, d \in Callers : todo[c] # <<>> /\ todo[d] # <<>> => c = d
      /\ chip.hold => stuck \/ \E c \in Callers : Len(todo[c]) \in 1..5
  BY DEF Holding
<1>2. "param" \in Callers /\ "control" \in Callers /\ "stream" \in Callers
  BY CallersAre
<1>3. /\ todo \in [Callers -> Seq(Regs \X Int)] /\ chip \in Chip
      /\ ctrl \in ControlType /\ param \in [exposure : Int, gain : Int]
      /\ \A c \in Callers : \E p \in Pairs : LeftOf(todo[c], p)
  BY DEF SnTypes, ControlType
<1>4. Len(<<>>) = 0
  OBVIOUS
<1>5. CASE \E c \in Callers : CommitWrite(c)
  <2>1. PICK c \in Callers : CommitWrite(c)
    BY <1>5
  <2>2. PICK p \in Pairs : LeftOf(todo[c], p)
    BY <1>3
  <2> DEFINE n == Len(todo[c])
             m == Len(todo'[c])
  <2>3. /\ n \in 1..6 /\ m = n - 1 /\ \A d \in Callers : d # c => todo'[d] = todo[d]
        /\ chip'.hold <=> n = 6 \/ (n # 1 /\ chip.hold)
        /\ stuck' <=> stuck /\ n # 1
    BY <2>1, <2>2, WriteDone
  <2>4. todo[c] # <<>>
    BY <2>1 DEF CommitWrite
  <2>5. \A d, e \in Callers : todo'[d] # <<>> /\ todo'[e] # <<>> => d = e
    BY <1>1, <2>3, <2>4
  <2>6. m \in 1..5 => \E d \in Callers : Len(todo'[d]) \in 1..5
    OBVIOUS
  <2> HIDE DEF n, m
  <2>7. ASSUME chip'.hold PROVE \E d \in Callers : Len(todo'[d]) \in 1..5
    BY <2>3, <2>6, <2>7
  <2> QED BY <2>5, <2>7 DEF Holding
<1>6. CASE \E c \in Callers : CommitFails(c)
  <2>1. PICK c \in Callers : CommitFails(c)
    BY <1>6
  <2> DEFINE n == Len(todo[c])
  <2>2. /\ n \in 1..6 /\ \A d \in Callers : d # c => todo'[d] = todo[d]
        /\ n \in 2..5 => Len(todo'[c]) = 1
    BY <2>1, FailDone
  <2>3. todo[c] # <<>> /\ chip' = chip /\ (stuck' <=> stuck \/ n = 1)
    BY <2>1 DEF CommitFails
  <2>4. \A d, e \in Callers : todo'[d] # <<>> /\ todo'[e] # <<>> => d = e
    BY <1>1, <2>2, <2>3
  <2>5. \A d \in Callers : d # c => todo[d] = <<>>
    BY <1>1, <2>3
  <2>6. chip.hold => stuck \/ n \in 1..5
    BY <1>1, <1>4, <2>5
  <2> HIDE DEF n
  <2>7. ASSUME chip.hold, ~stuck' PROVE Len(todo'[c]) \in 1..5
    <3>1. n \in 2..5
      BY <2>3, <2>6, <2>7
    <3>2. Len(todo'[c]) = 1
      BY <2>2, <3>1
    <3> QED BY <3>2
  <2> QED BY <2>3, <2>4, <2>7 DEF Holding
<1>7. ASSUME NEW c \in Callers, Commits(c), ctrl' \in ControlType,
             param' \in [exposure : Int, gain : Int], chip' = chip, stuck' = stuck
      PROVE  Holding'
  <2>1. /\ \A d \in Callers : todo[d] = <<>>
        /\ \A d \in Callers : d # c => todo'[d] = <<>>
    BY <1>7, CommitsDone
  <2>2. chip.hold => stuck
    BY <1>1, <1>4, <2>1
  <2> QED BY <1>7, <2>1, <2>2 DEF Holding
<1>8. ASSUME todo' = todo, stuck' = stuck, chip'.hold => chip.hold
      PROVE  Holding'
  BY <1>1, <1>8 DEF Holding
<1>9. CASE ParamExposure
  BY <1>2, <1>3, <1>7, <1>8, <1>9, ExposureStep DEF faultVars
<1>10. CASE ParamGain
  BY <1>2, <1>3, <1>7, <1>8, <1>10, GainStep DEF faultVars
<1>11. CASE ParamHardware
  BY <1>2, <1>3, <1>7, <1>8, <1>11, HardwareStep DEF faultVars
<1>12. CASE SetControl
  BY <1>2, <1>3, <1>7, <1>8, <1>12, SetStep DEF faultVars
<1>13. CASE StartCommit
  BY <1>2, <1>3, <1>7, <1>13, StartCommitStep DEF faultVars
<1>14. ~Reset.hold
  BY DEF Reset
<1>15. CASE \/ ParamSet \/ ParamLock \/ ParamUnlock \/ StartStream \/ StartStreamFails
            \/ ProgramTables \/ Select \/ Undo \/ Stop \/ PowerOff
  <2>1. todo' = todo /\ stuck' = stuck /\ (chip'.hold => chip.hold)
    BY <1>3, <1>14, <1>15 DEF ParamSet, ParamLock, ParamUnlock, StartStream, StartStreamFails,
      ProgramTables, Select, Undo, Stop, PowerOff, callVars, faultVars, Chip
  <2> QED BY <1>8, <2>1
<1>16. CASE \/ Register \/ BringupFails \/ Publish \/ RemoveSensor \/ Teardown
            \/ (\E x \in WantW : SetFormat(x)) \/ (\E b \in Boards : ProbeBoard(b))
  <2>1. todo' = todo /\ stuck' = stuck /\ (chip'.hold => chip.hold)
    BY <1>3, <1>14, <1>16 DEF Register, BringupFails, Publish, RemoveSensor, Teardown,
      SetFormat, ProbeBoard, callVars, faultVars, Chip
  <2> QED BY <1>8, <2>1
<1> QED BY <1>5, <1>6, <1>9, <1>10, <1>11, <1>12, <1>13, <1>15, <1>16 DEF SnNext

LEMMA ModeKeptStep ==
  ASSUME SnTypes, Power, ModeKept, SnNext
  PROVE  ModeKept'
<1>1. /\ life # "gone" => mode \in DOMAIN Modes /\ board \in Boards
      /\ life # "gone" /\ board.force = 0 => mode \in Usable(board.lanes)
      /\ life \in {"probed", "bound", "leaving"} => ctrl.link = LinkIndex(mode)
  BY DEF ModeKept
<1>2. ASSUME UNCHANGED cfgVars, ctrl'.link = ctrl.link
      PROVE  ModeKept'
  BY <1>1, <1>2 DEF ModeKept, cfgVars, LinkIndex
<1>3. CASE \E c \in Callers : CommitWrite(c) \/ CommitFails(c)
  BY <1>2, <1>3 DEF CommitWrite, CommitFails
<1>4. CASE ParamExposure
  BY <1>2, <1>4, ExposureStep
<1>5. CASE ParamGain
  BY <1>2, <1>5, GainStep
<1>6. CASE ParamHardware
  BY <1>2, <1>6, HardwareStep
<1>7. CASE SetControl
  BY <1>2, <1>7, SetStep
<1>8. CASE StartCommit
  BY <1>2, <1>8, StartCommitStep
<1>9. CASE \/ ParamSet \/ ParamLock \/ ParamUnlock \/ StartStream \/ StartStreamFails
           \/ ProgramTables \/ Select \/ Undo \/ Stop \/ PowerOff
  BY <1>2, <1>9 DEF ParamSet, ParamLock, ParamUnlock, StartStream, StartStreamFails,
    ProgramTables, Select, Undo, Stop, PowerOff
<1>10. CASE \/ BringupFails \/ Publish \/ RemoveSensor \/ Teardown
  <2>1. /\ UNCHANGED <<board, mode, ctrl>>
        /\ life' # "gone" => life \in {"probed", "bound"}
    BY <1>10 DEF BringupFails, Publish, RemoveSensor, Teardown
  <2> QED BY <1>1, <2>1 DEF ModeKept, LinkIndex
<1>11. CASE Register
  <2>1. ctrl'.link = LinkIndex(mode) /\ UNCHANGED <<board, mode>> /\ life = "up"
    BY <1>11 DEF Register
  <2> QED BY <1>1, <2>1 DEF ModeKept, LinkIndex
<1>12. CASE \E x \in WantW : SetFormat(x)
  <2>1. PICK x \in WantW : SetFormat(x)
    BY <1>12
  <2>2. /\ life # "gone" /\ mode' = nt99235_find_mode(board.lanes, x) /\ x \in Nat
        /\ UNCHANGED <<life, board>> /\ ctrl' = [ctrl EXCEPT !.link = LinkIndex(mode')]
    BY <2>1, SensorAssumption DEF SetFormat
  <2>3. Usable(board.lanes) # {}
    BY <1>1, <2>2, SensorAssumption
  <2>4. mode' \in Usable(board.lanes) /\ mode' \in DOMAIN Modes
    BY <2>2, <2>3, FoundMode, UsableInTable
  <2>5. ctrl'.link = LinkIndex(mode')
    BY <2>2 DEF SnTypes
  <2> QED BY <1>1, <2>2, <2>4, <2>5 DEF ModeKept, LinkIndex
<1>13. CASE \E b \in Boards : ProbeBoard(b)
  <2>1. PICK b \in Boards : ProbeBoard(b)
    BY <1>13
  <2>2. /\ board' = b /\ life' = "up"
        /\ mode' = IF b.force # 0 THEN b.force ELSE nt99235_find_mode(b.lanes, Modes[1].w)
    BY <2>1 DEF ProbeBoard
  <2>3. /\ Usable(b.lanes) # {} /\ b.force \in 0..Len(Modes)
        /\ Modes \in Seq([w : Nat, lanes : Nat, vts : Nat])
    BY SensorAssumption
  <2>4. Len(Modes) \in Nat /\ DOMAIN Modes = 1..Len(Modes)
    BY <2>3
  <2>5. b.force = 0 => mode' \in Usable(b.lanes) /\ mode' \in DOMAIN Modes
    BY <2>2, <2>3, FoundMode, WidthAre, UsableInTable
  <2>6. b.force # 0 => mode' \in DOMAIN Modes
    BY <2>2, <2>3, <2>4
  <2> QED BY <2>2, <2>5, <2>6 DEF ModeKept
<1> QED BY <1>3, <1>4, <1>5, <1>6, <1>7, <1>8, <1>9, <1>10, <1>11, <1>12, <1>13 DEF SnNext

\* A failure is never forgotten.
LEMMA FaultsGrow ==
  ASSUME SnTypes, Power, ModeKept, SnNext
  PROVE  faults' = faults \/ faults' = faults + 1
<1>1. CASE \E c \in Callers : CommitWrite(c) \/ CommitFails(c)
  BY <1>1 DEF CommitWrite, CommitFails
<1>2. CASE ParamExposure
  BY <1>2, ExposureStep DEF faultVars
<1>3. CASE ParamGain
  BY <1>3, GainStep DEF faultVars
<1>4. CASE ParamHardware
  BY <1>4, HardwareStep DEF faultVars
<1>5. CASE SetControl
  BY <1>5, SetStep DEF faultVars
<1>6. CASE StartCommit
  BY <1>6, StartCommitStep DEF faultVars
<1>7. CASE \/ ParamSet \/ ParamLock \/ ParamUnlock \/ StartStream \/ StartStreamFails
           \/ ProgramTables \/ Select \/ Undo \/ Stop \/ PowerOff
  BY <1>7 DEF ParamSet, ParamLock, ParamUnlock, StartStream, StartStreamFails,
    ProgramTables, Select, Undo, Stop, PowerOff, faultVars
<1>8. CASE \/ Register \/ BringupFails \/ Publish \/ RemoveSensor \/ Teardown
           \/ (\E x \in WantW : SetFormat(x)) \/ (\E b \in Boards : ProbeBoard(b))
  BY <1>8 DEF Register, BringupFails, Publish, RemoveSensor, Teardown, SetFormat, ProbeBoard,
    faultVars
<1> QED BY <1>1, <1>2, <1>3, <1>4, <1>5, <1>6, <1>7, <1>8 DEF SnNext

\* What Settling says while no write has failed
LEMMA SettlingSays ==
  ASSUME Settling, faults = 0
  PROVE  /\ ~stuck /\ \A c \in Callers : ok[c]
         /\ chip.streaming => ref /\ pc["stream"] = "idle"
         /\ pc["stream"] \in {"commit", "select"} \/ chip.streaming => chip.programmed = mode
         /\ (pc["stream"] = "select" /\ todo["stream"] = <<>>) \/ chip.streaming
              => FitsMode(chip.live)
         /\ pc["stream"] = "select" \/ chip.streaming
              => \E p \in Pairs : FitsMode(p) /\ Underway(p) /\ Told(p)
BY DEF Settling

\* The mode and the sensor the same, what fits and what is on its way is the same.
LEMMA SameUnderway ==
  ASSUME mode' = mode, NEW p
  PROVE  /\ FitsMode(p)' <=> FitsMode(p)
         /\ todo' = todo /\ chip'.live = chip.live /\ chip'.hold = chip.hold
              /\ chip'.held = chip.held => (Underway(p)' <=> Underway(p))
<1>1. FitsMode(p)' <=> FitsMode(p)
  BY DEF FitsMode, FitsFrame
<1>2. ASSUME todo' = todo, chip'.live = chip.live, chip'.hold = chip.hold, chip'.held = chip.held
      PROVE  Underway(p)' <=> Underway(p)
  <2>1. Committing' = Committing
    BY <1>2 DEF Committing
  <2>2. \A n : Carried(chip', n, p) <=> Carried(chip, n, p)
    BY <1>2 DEF Carried
  <2> QED BY <1>2, <2>1, <2>2 DEF Underway
<1> QED BY <1>1, <1>2

\* A commit under way brings its pair nearer to the sensor, and its last
\* write brings it there.
LEMMA WriteSettles ==
  ASSUME SnTypes, Power, Holding, Settling, faults' = 0, NEW c \in Callers, CommitWrite(c)
  PROVE  Settling'
<1>1. /\ todo[c] # <<>> /\ faults = 0
      /\ UNCHANGED <<mode, param, ctrl, ref, pc, ok, missed>>
  BY DEF CommitWrite, cfgVars, powerVars
<1>2. /\ ~stuck /\ \A d \in Callers : ok[d]
      /\ chip.streaming => ref /\ pc["stream"] = "idle"
      /\ pc["stream"] \in {"commit", "select"} \/ chip.streaming => chip.programmed = mode
      /\ (pc["stream"] = "select" /\ todo["stream"] = <<>>) \/ chip.streaming
           => FitsMode(chip.live)
      /\ pc["stream"] = "select" \/ chip.streaming
           => \E p \in Pairs : FitsMode(p) /\ Underway(p) /\ Told(p)
  BY <1>1, SettlingSays
<1>3. /\ chip'.programmed = chip.programmed /\ chip'.streaming = chip.streaming /\ ~stuck'
  <2>1. PICK p \in Pairs : LeftOf(todo[c], p)
    BY DEF SnTypes
  <2> QED BY <1>2, <2>1, WriteDone
<1>4. /\ ~stuck' /\ \A d \in Callers : ok'[d]
      /\ chip'.streaming => ref' /\ pc'["stream"] = "idle"
      /\ pc'["stream"] \in {"commit", "select"} \/ chip'.streaming => chip'.programmed = mode'
  BY <1>1, <1>2, <1>3
<1>5. CASE ~(pc["stream"] = "select" \/ chip.streaming)
  BY <1>1, <1>3, <1>4, <1>5 DEF Settling
<1>6. CASE pc["stream"] = "select" \/ chip.streaming
  <2>1. PICK p \in Pairs : FitsMode(p) /\ Underway(p) /\ Told(p)
    BY <1>2, <1>6
  <2>2. /\ LeftOf(todo[c], p) /\ Carried(chip, Len(todo[c]), p)
        /\ \A d \in Callers : d # c => todo[d] = <<>>
    BY <1>1, <2>1 DEF Underway, Committing, Holding
  <2> DEFINE n == Len(todo[c])
  <2>3. /\ n \in 1..6 /\ Len(todo'[c]) = n - 1 /\ LeftOf(todo'[c], p)
        /\ todo' \in [Callers -> Seq(Regs \X Int)]
        /\ \A d \in Callers : d # c => todo'[d] = <<>>
        /\ n # 1 /\ (n = 6 \/ chip.hold) => chip'.live = chip.live
        /\ n # 1 /\ Carried(chip, n, p) => Carried(chip', Len(todo'[c]), p)
        /\ n = 1 /\ Carried(chip, 1, p) => chip'.live = p
    BY <2>2, WriteDone
  <2>4. FitsMode(p)' /\ (FitsMode(chip.live)' <=> FitsMode(chip'.live)) /\ Told(p)'
    <3>1. \A q : FitsFrame(q)' = FitsFrame(q)
      BY <1>1 DEF FitsFrame
    <3> QED BY <1>1, <2>1, <3>1 DEF FitsMode, Told
  <2>5. CASE n = 1
    <3>1. chip'.live = p
      BY <2>2, <2>3, <2>5
    <3>2. todo'[c] = <<>>
      <4>1. todo'[c] \in Seq(Regs \X Int) /\ Len(todo'[c]) = 0
        BY <2>3, <2>5
      <4> QED BY ONLY <4>1, EmptySeq
    <3>3. Committing' = {}
      BY <2>3, <3>2 DEF Committing
    <3>4. Underway(p)'
      BY <3>1, <3>3 DEF Underway
    <3>5. FitsMode(chip.live)'
      BY <2>4, <3>1 DEF FitsMode
    <3> QED BY <1>4, <2>4, <3>4, <3>5 DEF Settling
  <2>6. CASE n # 1
    <3>1. chip'.live = chip.live /\ Carried(chip', Len(todo'[c]), p)
      <4>1. Carried(chip, n, p) /\ n \in 1..6
        BY <2>2, <2>3
      <4> HIDE DEF n
      <4>2. n = 6 \/ chip.hold
        BY <4>1 DEF Carried
      <4> QED BY <2>3, <2>6, <4>1, <4>2
    <3>2. todo'[c] # <<>>
      <4>1. Len(todo'[c]) = n - 1 /\ n \in 1..6 /\ n # 1
        BY <2>3, <2>6
      <4> HIDE DEF n
      <4>2. Len(todo'[c]) # 0
        BY <4>1
      <4> QED BY ONLY <4>2
    <3>3. Underway(p)'
      BY <2>3, <3>1, <3>2 DEF Underway, Committing
    <3>4. todo'["stream"] = <<>> => todo["stream"] = <<>>
      BY <1>1, <2>2, <3>2, CallersAre
    <3>5. (pc'["stream"] = "select" /\ todo'["stream"] = <<>>) \/ chip'.streaming
            => FitsMode(chip.live)'
      <4>1. ASSUME FitsMode(chip.live) PROVE FitsMode(chip.live)'
        BY <1>1, <3>1, <4>1 DEF FitsMode, FitsFrame
      <4> QED BY <1>1, <1>2, <1>3, <3>4, <4>1
    <3> QED BY <1>4, <2>4, <3>3, <3>5 DEF Settling
  <2> QED BY <2>5, <2>6
<1> QED BY <1>5, <1>6

\* A commit that begins brings what an interface says.
LEMMA BeginSettles ==
  ASSUME SnTypes, Settling, ~Overlapping, NEW c \in Callers, Commits(c),
         ctrl' \in ControlType, param' \in [exposure : Int, gain : Int],
         UNCHANGED <<mode, chip, ref, stuck, faults>>, faults = 0,
         \/ pc'["stream"] = pc["stream"]
         \/ c = "stream" /\ pc["stream"] = "commit" /\ pc'["stream"] = "select"
  PROVE  Settling'
<1>1. /\ ~stuck /\ \A d \in Callers : ok[d]
      /\ chip.streaming => ref /\ pc["stream"] = "idle"
      /\ pc["stream"] \in {"commit", "select"} \/ chip.streaming => chip.programmed = mode
      /\ (pc["stream"] = "select" /\ todo["stream"] = <<>>) \/ chip.streaming
           => FitsMode(chip.live)
  BY SettlingSays
<1>2. /\ ok' = [ok EXCEPT ![c] = TRUE]
      /\ \A d \in Callers : todo[d] = <<>>
      /\ Len(todo'[c]) = 6 /\ todo'[c] # <<>>
  BY CommitsDone
<1>3. PICK p \in Pairs : /\ FitsMode(p) /\ LeftOf(todo'[c], p) /\ Carried(chip, 6, p)
                         /\ \E v \in {param', ctrl'} : p = Registers(FitsFrame(v.exposure), v.gain)
  BY CommitsDone
<1>4. \A d \in Callers : ok'[d]
  <2>1. ok \in [Callers -> BOOLEAN]
    BY DEF SnTypes
  <2> QED BY <1>1, <1>2, <2>1
<1>5. /\ chip'.streaming => ref' /\ pc'["stream"] = "idle"
      /\ pc'["stream"] \in {"commit", "select"} \/ chip'.streaming => chip'.programmed = mode'
  BY <1>1
<1>6. /\ FitsMode(p)' /\ (FitsMode(chip.live) => FitsMode(chip.live)')
      /\ \A x : FitsFrame(x)' = FitsFrame(x)
  BY <1>3 DEF FitsMode, FitsFrame
<1>7. (pc'["stream"] = "select" /\ todo'["stream"] = <<>>) \/ chip'.streaming
        => FitsMode(chip.live)'
  BY <1>1, <1>2, <1>6, CallersAre
<1>8. Underway(p)'
  BY <1>2, <1>3 DEF Underway, Committing
<1>9. Told(p)'
  BY <1>3, <1>6 DEF Told
<1> QED BY <1>1, <1>3, <1>4, <1>5, <1>6, <1>7, <1>8, <1>9 DEF Settling

\* A sensor nobody streams from owes nothing yet.
LEMMA IdleSettles ==
  ASSUME Settling, faults = 0, UNCHANGED <<ok, stuck>>, ~chip'.streaming,
         pc'["stream"] \notin {"commit", "select"}
  PROVE  Settling'
<1>1. ~stuck /\ \A c \in Callers : ok[c]
  BY SettlingSays
<1> QED BY <1>1 DEF Settling

\* Neither the sensor nor the commits change, and a parameter that is newer is
\* on its way.
LEMMA SameSettles ==
  ASSUME Settling, Power, faults = 0,
         UNCHANGED <<todo, ok, stuck, mode, chip, ref>>, pc'["stream"] = pc["stream"],
         ref => \A p : Told(p) => Told(p)'
  PROVE  Settling'
<1>1. /\ ~stuck /\ \A c \in Callers : ok[c]
      /\ chip.streaming => ref /\ pc["stream"] = "idle"
      /\ pc["stream"] \in {"commit", "select"} \/ chip.streaming => chip.programmed = mode
      /\ (pc["stream"] = "select" /\ todo["stream"] = <<>>) \/ chip.streaming
           => FitsMode(chip.live)
      /\ pc["stream"] = "select" \/ chip.streaming
           => \E p \in Pairs : FitsMode(p) /\ Underway(p) /\ Told(p)
  BY SettlingSays
<1>2. pc["stream"] = "select" \/ chip.streaming => ref
  BY <1>1 DEF Power
<1>3. /\ \A p : FitsMode(p)' <=> FitsMode(p)
      /\ \A p : Underway(p)' <=> Underway(p)
  BY SameUnderway
<1>4. FitsMode(chip.live)' <=> FitsMode(chip.live)
  BY DEF FitsMode, FitsFrame
<1>5. pc'["stream"] = "select" \/ chip'.streaming
        => \E p \in Pairs : FitsMode(p)' /\ Underway(p)' /\ Told(p)'
  BY <1>1, <1>2, <1>3
<1> QED BY <1>1, <1>4, <1>5 DEF Settling

\* The tables are those of the mode; the stream starts with what was committed.
LEMMA StreamSettles ==
  ASSUME SnTypes, Power, Settling, faults = 0, faults' = faults,
         ProgramTables \/ Select \/ Undo
  PROVE  Settling'
<1>1. /\ ~stuck /\ \A c \in Callers : ok[c]
      /\ chip.streaming => ref /\ pc["stream"] = "idle"
      /\ pc["stream"] \in {"commit", "select"} \/ chip.streaming => chip.programmed = mode
      /\ (pc["stream"] = "select" /\ todo["stream"] = <<>>) \/ chip.streaming
           => FitsMode(chip.live)
      /\ pc["stream"] = "select" \/ chip.streaming
           => \E p \in Pairs : FitsMode(p) /\ Underway(p) /\ Told(p)
  BY SettlingSays
<1>2. /\ chip \in Chip /\ "stream" \in Callers /\ faults \in Nat
      /\ pc \in [Callers -> {"idle", "lock", "exposure", "gain", "hardware", "unlock",
                             "program", "commit", "select"}]
  BY CallersAre DEF SnTypes
<1>3. CASE ProgramTables
  <2>1. /\ pc["stream"] = "program" /\ chip' = [chip EXCEPT !.programmed = mode]
        /\ pc' = [pc EXCEPT !["stream"] = "commit"]
        /\ UNCHANGED <<ok, stuck, mode>>
    BY <1>3 DEF ProgramTables, AtLabel, Goto, cfgVars, faultVars
  <2>2. ~chip'.streaming /\ chip'.programmed = mode' /\ pc'["stream"] = "commit"
    BY <1>1, <1>2, <2>1 DEF Chip
  <2> QED BY <1>1, <2>1, <2>2 DEF Settling
<1>4. CASE Select
  <2>1. /\ pc["stream"] = "select" /\ todo["stream"] = <<>>
        /\ chip' = [chip EXCEPT !.streaming = TRUE]
        /\ pc' = [pc EXCEPT !["stream"] = "idle"]
        /\ UNCHANGED <<ok, stuck, mode, todo, ref, param, ctrl, missed>>
    BY <1>4 DEF Select, AtLabel, Goto, cfgVars, powerVars, faultVars
  <2>2. /\ chip'.live = chip.live /\ chip'.hold = chip.hold /\ chip'.held = chip.held
        /\ chip'.programmed = chip.programmed /\ pc'["stream"] = "idle"
        /\ pc'["param"] = pc["param"] /\ ref'
    BY <1>2, <2>1, CallersAre DEF Chip, Power
  <2>3. PICK p \in Pairs : FitsMode(p) /\ Underway(p) /\ Told(p)
    BY <1>1, <2>1
  <2>4. FitsMode(p)' /\ Underway(p)'
    BY <2>1, <2>2, <2>3, SameUnderway
  <2>5. Told(p)'
    <3>1. \A x : FitsFrame(x)' = FitsFrame(x)
      BY <2>1 DEF FitsFrame
    <3> QED BY <2>1, <2>2, <2>3, <3>1 DEF Told
  <2>6. FitsMode(chip.live)'
    <3>1. FitsMode(chip.live)
      BY <1>1, <2>1
    <3> QED BY <2>1, <2>2, <3>1 DEF FitsMode, FitsFrame
  <2> QED BY <1>1, <2>1, <2>2, <2>4, <2>5, <2>6 DEF Settling
<1>5. CASE Undo
  <2>1. \/ pc["stream"] = "select" /\ ~ok["stream"] /\ UNCHANGED <<faultVars, chip>>
        \/ pc["stream"] \in {"program", "select"} /\ faults' = faults + 1
    BY <1>5 DEF Undo, AtLabel
  <2> QED BY <1>1, <1>2, <2>1
<1> QED BY <1>3, <1>4, <1>5

LEMMA SettlingKept ==
  ASSUME SnTypes, Power, Holding, ModeKept, Settling, SnNext, ~Overlapping, ~LiveFormat
  PROVE  Settling'
<1> SUFFICES ASSUME faults' = 0 PROVE Settling'
  BY DEF Settling
<1>1. faults = 0 /\ faults' = faults
  BY FaultsGrow DEF SnTypes
<1>2. /\ "param" \in Callers /\ "control" \in Callers /\ "stream" \in Callers
      /\ param \in [exposure : Int, gain : Int] /\ ctrl \in ControlType
      /\ pc \in [Callers -> {"idle", "lock", "exposure", "gain", "hardware", "unlock",
                             "program", "commit", "select"}]
      /\ chip \in Chip /\ faults \in Nat
  BY CallersAre DEF SnTypes, ControlType
<1>3. chip.streaming => ref /\ pc["stream"] = "idle"
  BY <1>1, SettlingSays
<1>4. CASE \E c \in Callers : CommitWrite(c)
  BY <1>4, WriteSettles
<1>5. CASE \E c \in Callers : CommitFails(c)
  BY <1>1, <1>2, <1>5 DEF CommitFails
<1>6. \A x : mode' = mode => FitsFrame(x)' = FitsFrame(x)
  BY DEF FitsFrame
<1>7. CASE ParamExposure
  <2>1. /\ ctrl' \in ControlType /\ pc' = [pc EXCEPT !["param"] = "gain"]
        /\ Commits("param") \/ UNCHANGED <<todo, ok>>
        /\ UNCHANGED <<mode, param, chip, ref, faults, stuck>>
    BY <1>7, ExposureStep DEF cfgVars, powerVars, faultVars
  <2>2. pc'["param"] = "gain" /\ pc'["stream"] = pc["stream"]
    BY <1>2, <2>1
  <2>3. \A p : Told(p)'
    BY <2>2 DEF Told
  <2>4. CASE Commits("param")
    BY <1>1, <1>2, <2>1, <2>2, <2>4, BeginSettles
  <2>5. CASE UNCHANGED <<todo, ok>>
    BY <1>1, <2>1, <2>2, <2>3, <2>5, SameSettles
  <2> QED BY <2>1, <2>4, <2>5
<1>8. CASE ParamGain
  <2>1. /\ ctrl' \in ControlType /\ pc' = [pc EXCEPT !["param"] = "hardware"]
        /\ Commits("param") \/ UNCHANGED <<todo, ok>>
        /\ UNCHANGED <<mode, param, chip, ref, faults, stuck>>
    BY <1>8, GainStep DEF cfgVars, powerVars, faultVars
  <2>2. pc'["param"] = "hardware" /\ pc'["stream"] = pc["stream"]
    BY <1>2, <2>1
  <2>3. \A p : Told(p)'
    BY <2>2 DEF Told
  <2>4. CASE Commits("param")
    BY <1>1, <1>2, <2>1, <2>2, <2>4, BeginSettles
  <2>5. CASE UNCHANGED <<todo, ok>>
    BY <1>1, <2>1, <2>2, <2>3, <2>5, SameSettles
  <2> QED BY <2>1, <2>4, <2>5
<1>9. CASE ParamHardware
  <2>1. /\ pc' = [pc EXCEPT !["param"] = "unlock"]
        /\ Commits("param") \/ (~ref /\ UNCHANGED <<todo, ok>>)
        /\ UNCHANGED <<mode, param, ctrl, chip, ref, faults, stuck>>
    BY <1>9, HardwareStep DEF cfgVars, powerVars, faultVars
  <2>2. pc'["stream"] = pc["stream"] /\ param' \in [exposure : Int, gain : Int]
        /\ ctrl' \in ControlType
    BY <1>2, <2>1
  <2>3. CASE Commits("param")
    BY <1>1, <1>2, <2>1, <2>2, <2>3, BeginSettles
  <2>4. CASE ~ref /\ UNCHANGED <<todo, ok>>
    BY <1>1, <2>1, <2>2, <2>4, SameSettles
  <2> QED BY <2>1, <2>3, <2>4
<1>10. CASE SetControl
  <2>1. /\ ctrl' \in ControlType /\ pc' = [pc EXCEPT !["control"] = "idle"]
        /\ Commits("control") \/ ((ref => ctrl' = ctrl) /\ UNCHANGED <<todo, ok>>)
        /\ UNCHANGED <<mode, param, chip, ref, faults, stuck, missed>>
    BY <1>10, SetStep DEF cfgVars, powerVars, faultVars
  <2>2. pc'["param"] = pc["param"] /\ pc'["stream"] = pc["stream"]
    BY <1>2, <2>1
  <2>3. CASE Commits("control")
    BY <1>1, <1>2, <2>1, <2>2, <2>3, BeginSettles
  <2>4. CASE (ref => ctrl' = ctrl) /\ UNCHANGED <<todo, ok>>
    <3>1. ref => \A p : Told(p) => Told(p)'
      BY <1>6, <2>1, <2>2, <2>4 DEF Told
    <3> QED BY <1>1, <2>1, <2>2, <2>4, <3>1, SameSettles
  <2> QED BY <2>1, <2>3, <2>4
<1>11. CASE StartCommit
  <2>1. /\ pc["stream"] = "commit" /\ pc' = [pc EXCEPT !["stream"] = "select"]
        /\ Commits("stream") /\ UNCHANGED <<mode, param, ctrl, chip, ref, faults, stuck>>
    BY <1>11, StartCommitStep DEF cfgVars, powerVars, faultVars
  <2>2. pc'["stream"] = "select" /\ param' \in [exposure : Int, gain : Int]
        /\ ctrl' \in ControlType
    BY <1>2, <2>1
  <2> QED BY <1>1, <1>2, <2>1, <2>2, BeginSettles
<1>12. CASE ProgramTables \/ Select \/ Undo
  BY <1>1, <1>12, StreamSettles
<1>13. CASE ParamSet
  <2>1. /\ pc' = [pc EXCEPT !["param"] = "lock"]
        /\ UNCHANGED <<todo, ok, stuck, mode, chip, ref>>
    BY <1>13 DEF ParamSet, Goto, cfgVars, powerVars, faultVars
  <2>2. pc'["param"] = "lock" /\ pc'["stream"] = pc["stream"]
    BY <1>2, <2>1
  <2>3. \A p : Told(p)'
    BY <2>2 DEF Told
  <2> QED BY <1>1, <2>1, <2>2, <2>3, SameSettles
<1>14. CASE ParamLock
  <2>1. /\ pc' = [pc EXCEPT !["param"] = IF life = "bound" THEN "exposure" ELSE "idle"]
        /\ missed' = (missed \/ life # "bound")
        /\ UNCHANGED <<todo, ok, stuck, mode, chip, ref>>
    BY <1>14 DEF ParamLock, Goto, cfgVars, powerVars, faultVars
  <2>2. /\ pc'["param"] = "exposure" \/ missed'
        /\ pc'["stream"] = pc["stream"]
    BY <1>2, <2>1
  <2>3. \A p : Told(p)'
    BY <2>2 DEF Told
  <2> QED BY <1>1, <2>1, <2>2, <2>3, SameSettles
<1>15. CASE ParamUnlock
  <2>1. /\ pc["param"] = "unlock" /\ pc' = [pc EXCEPT !["param"] = "idle"]
        /\ UNCHANGED <<todo, ok, stuck, mode, chip, ref, param, ctrl, missed>>
    BY <1>15 DEF ParamUnlock, AtLabel, Goto, cfgVars, powerVars, faultVars
  <2>2. pc'["stream"] = pc["stream"]
    BY <1>2, <2>1
  <2>3. \A p : Told(p) => Told(p)'
    BY <1>6, <2>1 DEF Told
  <2> QED BY <1>1, <2>1, <2>2, <2>3, SameSettles
<1>16. CASE Publish \/ RemoveSensor
  <2>1. UNCHANGED <<todo, ok, stuck, mode, chip, ref, param, ctrl, missed, pc>>
    BY <1>16 DEF Publish, RemoveSensor, powerVars, callVars, faultVars
  <2>2. \A p : Told(p) => Told(p)'
    BY <1>6, <2>1 DEF Told
  <2> QED BY <1>1, <2>1, <2>2, SameSettles
<1>17. ~Reset.streaming
  BY DEF Reset
<1>18. CASE StartStream
  <2>1. /\ ~ref /\ (chip' = chip \/ chip' = Reset) /\ pc' = [pc EXCEPT !["stream"] = "program"]
        /\ UNCHANGED <<ok, stuck>>
    BY <1>18 DEF StartStream, Goto, faultVars
  <2>2. ~chip'.streaming /\ pc'["stream"] = "program"
    BY <1>2, <1>3, <1>17, <2>1
  <2> QED BY <1>1, <2>1, <2>2, IdleSettles
<1>19. CASE Stop
  <2>1. /\ pc["stream"] = "idle" /\ chip' = [chip EXCEPT !.streaming = FALSE]
        /\ UNCHANGED <<pc, ok, stuck>>
    BY <1>1, <1>2, <1>19 DEF Stop, AtLabel, callVars
  <2>2. ~chip'.streaming
    BY <1>2, <2>1 DEF Chip
  <2> QED BY <1>1, <2>1, <2>2, IdleSettles
<1>20. CASE \/ StartStreamFails \/ PowerOff \/ Register \/ BringupFails \/ Teardown
            \/ (\E x \in WantW : SetFormat(x)) \/ (\E b \in Boards : ProbeBoard(b))
  <2>1. ~ref
    BY <1>20 DEF StartStreamFails, PowerOff, Register, BringupFails, Teardown, SetFormat,
      ProbeBoard, Power
  <2>2. /\ chip' = chip \/ chip' = Reset
        /\ UNCHANGED <<pc, ok, stuck>>
    BY <1>20 DEF StartStreamFails, PowerOff, Register, BringupFails, Teardown, SetFormat,
      ProbeBoard, callVars, faultVars
  <2>3. ~chip'.streaming
    BY <1>3, <1>17, <2>1, <2>2
  <2>4. pc["stream"] = "idle"
    BY <2>1 DEF Power
  <2> QED BY <1>1, <2>2, <2>3, <2>4, IdleSettles
<1> QED BY <1>4, <1>5, <1>7, <1>8, <1>9, <1>10, <1>11, <1>12, <1>13, <1>14, <1>15, <1>16,
           <1>18, <1>19, <1>20 DEF SnNext

LEMMA InitSettled == SnInit => SnInv
<1> SUFFICES ASSUME SnInit PROVE SnInv
  OBVIOUS
<1>1. Reset \in Chip /\ ~Reset.hold /\ ~Reset.streaming
  BY DEF Reset, Chip, Blank, Pairs
<1>2. Blank \in Pairs /\ LeftOf(<<>>, Blank) /\ <<>> \in Seq(Regs \X Int)
  BY DEF Blank, Pairs, LeftOf
<1>3. SnTypes
  <2>1. /\ life = "gone" /\ board \in [lanes : Nat, force : Nat, bringup : 0..3] /\ mode \in Nat
        /\ param \in [exposure : Int, gain : Int]
        /\ ctrl \in [exposure : Int, gain : Int, max : Int, link : {0, 1}]
        /\ mclk \in Int /\ chip \in Chip /\ faults \in Nat
    BY <1>1, SensorAssumption DEF SnInit
  <2>2. /\ pc = [c \in Callers |-> "idle"] /\ todo = [c \in Callers |-> <<>>]
        /\ ok = [c \in Callers |-> TRUE]
    BY DEF SnInit
  <2>3. /\ pc \in [Callers -> {"idle", "lock", "exposure", "gain", "hardware", "unlock",
                               "program", "commit", "select"}]
        /\ pc["control"] = "idle" /\ pc["stream"] = "idle"
        /\ todo \in [Callers -> Seq(Regs \X Int)]
        /\ \A c \in Callers : \E p \in Pairs : LeftOf(todo[c], p)
    BY <1>2, <2>2, CallersAre
  <2>4. ok \in [Callers -> BOOLEAN]
    BY <2>2
  <2>5. /\ ref \in BOOLEAN /\ powered \in BOOLEAN /\ lock \in BOOLEAN
        /\ missed \in BOOLEAN /\ stuck \in BOOLEAN
    BY Zenon DEF SnInit
  <2> QED BY <2>1, <2>3, <2>4, <2>5 DEF SnTypes
<1>4. Power
  BY CallersAre DEF SnInit, Power
<1>5. Holding /\ ModeKept
  BY <1>1 DEF SnInit, Holding, ModeKept
<1>6. Settling
  BY <1>1, CallersAre DEF SnInit, Settling
<1> QED BY <1>3, <1>4, <1>5, <1>6 DEF SnInv

LEMMA InvIsTrue ==
  ASSUME SnInv
  PROVE  SensorTrue
<1>1. SnTypes /\ Power /\ Holding /\ ModeKept /\ Settling
  BY DEF SnInv
<1>2. /\ ref \/ (\E c \in Callers : todo[c] # <<>>) => powered
      /\ powered => life # "gone" /\ life # "up"
      /\ life # "up" => mclk = IF powered THEN 1 ELSE 0
      /\ lock <=> pc["param"] \in {"exposure", "gain", "hardware", "unlock"}
      /\ lock => life = "bound"
      /\ todo["param"] # <<>> => lock
  BY <1>1 DEF Power
<1>3. ExposureSettled
  <2> SUFFICES ASSUME faults = 0, chip.streaming
               PROVE  /\ Exposure(chip.live) =< Modes[chip.programmed].vts - 2
                      /\ chip.live.g0 = chip.live.g1
                      /\ AllIdle /\ ~missed =>
                           \E v \in {param, ctrl} : chip.live = Registers(FitsFrame(v.exposure), v.gain)
    BY DEF ExposureSettled
  <2>1. /\ ref /\ chip.programmed = mode /\ FitsMode(chip.live)
        /\ \E p \in Pairs : FitsMode(p) /\ Underway(p) /\ Told(p)
    BY <1>1, SettlingSays
  <2>2. mode \in DOMAIN Modes
    BY <1>1, <1>2, <2>1, PoweredMode
  <2>3. PICK x, g \in Int : chip.live = Registers(FitsFrame(x), g)
    BY <2>1 DEF FitsMode
  <2>4. FitsFrame(x) \in Int /\ FitsFrame(x) =< Modes[mode].vts - 2
    BY <2>2, FrameBounds
  <2>5. chip.live.g0 = chip.live.g1 /\ Exposure(chip.live) = FitsFrame(x)
    BY <2>3, <2>4, RegistersAre
  <2>6. ASSUME AllIdle, ~missed
        PROVE  \E v \in {param, ctrl} : chip.live = Registers(FitsFrame(v.exposure), v.gain)
    <3>1. Committing = {} /\ pc["param"] = "idle"
      BY <2>6, CallersAre DEF AllIdle, AtLabel, Committing
    <3> QED BY <2>1, <2>6, <3>1 DEF Underway, Told
  <2> QED BY <2>1, <2>4, <2>5, <2>6
<1>4. HoldReleased
  <2> SUFFICES ASSUME Committing = {}, chip.hold PROVE stuck
    BY DEF HoldReleased
  <2>1. \A c \in Callers : todo[c] = <<>>
    BY DEF Committing
  <2>2. \A c \in Callers : Len(todo[c]) = 0
    BY <2>1
  <2> QED BY <1>1, <2>2 DEF Holding
<1>5. SensorAlive
  BY <1>2 DEF SensorAlive, Committing
<1>6. ModesOffered
  BY <1>1, OfferedIsSet DEF ModesOffered, ModeKept
<1> QED BY <1>3, <1>4, <1>5, <1>6 DEF SensorTrue

\* What the driver owes the chain and the two interfaces of the exposure
\* (nt99235_commit_exposure, nt99235_apply_live, nt99235_set_stream,
\* nt99235_set_pad_format, nt99235_probe): with one commit at a time, the
\* format set only while the stream is stopped and no probe that fails after
\* its bring-up, and while no write has failed, a stream runs with a pair that
\* was set, which fits in the frame of the mode, and with the last of them
\* once the callers are idle; and whatever fails, the hold stays only where its
\* release failed, the sensor is written only while it is powered, and the
\* modes are those of the wiring.
THEOREM SensorIsTrue ==
  ASSUME ~Overlapping, ~LiveFormat, ~LateFail
  PROVE  SnSpec => []SensorTrue
<1>1. SnInit => SnInv
  BY InitSettled
<1>2. SnInv /\ [SnNext]_snVars => SnInv'
  <2>1. ASSUME SnInv, SnNext PROVE SnInv'
    <3>1. SnTypes /\ Power /\ Holding /\ ModeKept /\ Settling
      BY <2>1 DEF SnInv
    <3>2. SnTypes' /\ Power' /\ Holding' /\ ModeKept' /\ Settling'
      BY <2>1, <3>1, TypesKept, PowerKept, HoldingKept, ModeKeptStep, SettlingKept
    <3> QED BY <3>2 DEF SnInv
  <2>2. ASSUME SnInv, UNCHANGED snVars PROVE SnInv'
    <3>1. UNCHANGED <<life, board, mode, probes, param, ctrl, ref, powered, mclk, chip, pc,
                      todo, ok, lock, missed, faults, stuck, calls>>
      BY <2>2 DEF snVars, cfgVars, powerVars, callVars, faultVars
    <3>2. SnTypes' /\ Power' /\ Holding' /\ ModeKept'
      <4>1. SnTypes /\ Power /\ Holding /\ ModeKept
        BY <2>2 DEF SnInv
      <4>2. SnTypes'
        BY <3>1, <4>1 DEF SnTypes
      <4>3. Power'
        BY <3>1, <4>1 DEF Power
      <4>4. Holding' /\ ModeKept'
        BY <3>1, <4>1 DEF Holding, ModeKept, LinkIndex
      <4> QED BY <4>2, <4>3, <4>4
    <3>3. Settling'
      <4>1. \A x : FitsFrame(x)' = FitsFrame(x)
        BY <3>1 DEF FitsFrame
      <4>2. \A p : Told(p) => Told(p)'
        BY <3>1, <4>1 DEF Told
      <4>3. CASE faults = 0
        BY <2>2, <3>1, <4>2, <4>3, SameSettles DEF SnInv
      <4>4. CASE faults # 0
        BY <3>1, <4>4 DEF Settling
      <4> QED BY <4>3, <4>4
    <3> QED BY <3>2, <3>3 DEF SnInv
  <2> QED BY <2>1, <2>2
<1>3. SnInv => SensorTrue
  BY InvIsTrue
<1> QED BY <1>1, <1>2, <1>3, PTL DEF SnSpec
=============================================================================
