----------------------------- MODULE VoScanout -----------------------------
(***************************************************************************)
(* The display controller of artosyn_vo.c under the atomic helpers of DRM. *)
(* A commit swaps the new state in and then calls the driver: the pipe is  *)
(* disabled first if it goes off, every plane is updated in the order the  *)
(* planes were created, and the pipe is enabled last.  Commits follow each *)
(* other; frame starts and the vsync interrupt come at any time.           *)
(*                                                                         *)
(* Plane addresses are shadow registers: they load at a frame start that   *)
(* finds the config lock clear.                                            *)
(***************************************************************************)
EXTENDS Naturals

CONSTANTS
  Fb,         \* framebuffers of the primary plane
  Format,     \* their pixel formats
  NoFormat,
  PromptIrq,  \* the vsync interrupt is handled before the commit goes on
  BlankFlips, \* a commit may change the primary's format while the pipe is off
  BankSwaps   \* a commit may turn video1 off and the HUD on

VARIABLES
  kms,        \* the state swapped in: [active, fb, fmt, on], and the planes
              \* it turned off
  commit_at,  \* the commit's next call, or "idle"
  pipe_on,    \* the pipe is enabled
  main,       \* VO_MAIN_CTRL: [start, lock]
  cur,        \* [start, fmt]: the START of cur_cfg, and cur_format
  shadow,     \* the primary's address registers
  scanned,    \* the buffer the layer fetches
  emit,       \* bank -> the overlay of this bank is emitted
  fresh,      \* planes programmed since the pipe was last enabled
  vblank,     \* vblank handling is on
  vsync,      \* VO_INT_STATUS
  flip        \* the flip event: "none", "wanted", "armed", "sent" or "early"

voVars == <<kms, commit_at, pipe_on, main, cur, shadow, scanned, emit, fresh,
            vblank, vsync, flip>>

Overlay == {"hud", "video0", "video1"}
Banks == {0, 1}
bank(p) == IF p = "video0" THEN 0 ELSE 1

\* The commit makes its call from, the next being to.
Call(from, to) ==
  /\ PromptIrq => ~vsync
  /\ commit_at = from /\ commit_at' = to

\* The call after overlay p, in the order the planes were created.
After(p) ==
  CASE p = "hud" -> "video0"
    [] p = "video0" -> "video1"
    [] p = "video1" -> IF kms.active /\ ~pipe_on THEN "enable" ELSE "idle"

(***************************************************************************)
(* A commit is checked and swapped in once the flip of the one before it   *)
(* is done.  The HUD and video1 share a bank: userspace enables one of     *)
(* them.                                                                   *)
(***************************************************************************)

Commit ==
  /\ commit_at = "idle" /\ flip # "armed"
  /\ \E active \in BOOLEAN, fb \in Fb, fmt \in Format, on \in SUBSET Overlay :
       /\ ~({"hud", "video1"} \subseteq on)
       /\ BankSwaps \/ ~("hud" \in on /\ "video1" \in kms.on)
       /\ active \/ fmt = cur.fmt \/ BlankFlips
       /\ kms' = [active |-> active, fb |-> fb, fmt |-> fmt, on |-> on,
                  off |-> kms.on \ on]
       /\ commit_at' = IF kms.active /\ ~active THEN "disable" ELSE "layer"
  /\ flip' = "wanted"
  /\ UNCHANGED <<pipe_on, main, cur, shadow, scanned, emit, fresh, vblank,
                 vsync>>

\* Mutant: the START of cur_cfg is kept.
StoppedNot == cur

Stopped == [cur EXCEPT !.start = FALSE]

PipeDisable ==
  /\ Call("disable", "layer")
  /\ vblank' = FALSE
  /\ main' = [start |-> FALSE, lock |-> FALSE]
  /\ cur' = Stopped
  /\ pipe_on' = FALSE
  /\ UNCHANGED <<kms, shadow, scanned, emit, fresh, vsync, flip>>

\* ar_vo_program_layer stores the format's word without START.
Programmed(fmt) == [start |-> FALSE, fmt |-> fmt]

\* ar_vo_set_fb_addr writes the addresses under the lock, with the word stored.
Addressed(word) ==
  /\ main' = [start |-> word.start, lock |-> TRUE]
  /\ shadow' = kms.fb

\* ar_vo_pipe_update: a format that changes is programmed before the addresses
\* are written under the lock ...
PipeUpdate ==
  /\ Call("layer", IF kms.fmt = cur.fmt THEN "unlock" ELSE "start")
  /\ cur' = IF kms.fmt = cur.fmt THEN cur ELSE Programmed(kms.fmt)
  /\ Addressed(cur')
  /\ UNCHANGED <<kms, pipe_on, scanned, emit, fresh, vblank, vsync, flip>>

\* ... which is then cleared, START set again after a change of format.
Unlock(from) ==
  /\ Call(from, "event")
  /\ cur' = [cur EXCEPT !.start = @ \/ from = "start"]
  /\ main' = [start |-> cur'.start, lock |-> FALSE]
  /\ UNCHANGED <<kms, pipe_on, shadow, scanned, emit, fresh, vblank, vsync,
                 flip>>

\* drm_crtc_vblank_get fails while vblank handling is off: the event is sent
\* at once.
ArmEvent ==
  /\ Call("event", "hud")
  /\ flip' = IF vblank THEN "armed" ELSE "sent"
  /\ UNCHANGED <<kms, pipe_on, main, cur, shadow, scanned, emit, fresh, vblank,
                 vsync>>

\* ar_vo_hud_update and ar_vo_vid_update with ar_vo_ovl_commit, whose lock
\* bracket rewrites the control word.  An inactive state is not written.
OverlayUpdate(p) ==
  /\ Call(p, After(p))
  /\ p \in kms.on
  /\ IF kms.active
       THEN /\ main' = [start |-> cur.start, lock |-> FALSE]
            /\ emit' = [emit EXCEPT ![bank(p)] = TRUE]
            /\ fresh' = fresh \cup {p}
       ELSE UNCHANGED <<main, emit, fresh>>
  /\ UNCHANGED <<kms, pipe_on, cur, shadow, scanned, vblank, vsync, flip>>

\* ar_vo_ovl_disable, for a plane the commit turns off
OverlayDisable(p) ==
  /\ Call(p, After(p))
  /\ p \notin kms.on
  /\ emit' = IF p \in kms.off THEN [emit EXCEPT ![bank(p)] = FALSE] ELSE emit
  /\ fresh' = fresh \ {p}
  /\ UNCHANGED <<kms, pipe_on, main, cur, shadow, scanned, vblank, vsync, flip>>

\* ar_vo_pipe_enable: the soft reset may lose what the banks were told.
PipeEnable ==
  /\ Call("enable", "idle")
  /\ pipe_on' = TRUE
  /\ \E kept \in {TRUE, FALSE} :
       emit' = [b \in Banks |-> emit[b] /\ kept]
  /\ fresh' = {}
  /\ cur' = [start |-> TRUE, fmt |-> kms.fmt]
  /\ main' = [start |-> TRUE, lock |-> FALSE]
  /\ shadow' = kms.fb
  /\ vblank' = TRUE
  /\ UNCHANGED <<kms, scanned, vsync, flip>>

(***************************************************************************)
(* Frame starts, and ar_vo_irq.                                            *)
(***************************************************************************)

FrameStart ==
  /\ main.start
  /\ scanned' = IF main.lock THEN scanned ELSE shadow
  /\ vsync' = TRUE
  /\ UNCHANGED <<kms, commit_at, pipe_on, main, cur, shadow, emit, fresh,
                 vblank, flip>>

\* drm_crtc_handle_vblank sends the event armed: early when the buffer it is
\* for is not scanned out yet.
VsyncIrq ==
  /\ vsync
  /\ vsync' = FALSE
  /\ flip' = IF ~vblank \/ flip # "armed" THEN flip
             ELSE IF scanned = kms.fb THEN "sent" ELSE "early"
  /\ UNCHANGED <<kms, commit_at, pipe_on, main, cur, shadow, scanned, emit,
                 fresh, vblank>>

VoInit ==
  /\ \E fb \in Fb, fmt \in Format :
       /\ kms = [active |-> FALSE, fb |-> fb, fmt |-> fmt, on |-> {},
                 off |-> {}]
       /\ shadow = fb /\ scanned = fb
  /\ commit_at = "idle" /\ pipe_on = FALSE
  /\ main = [start |-> FALSE, lock |-> FALSE]
  /\ cur = [start |-> FALSE, fmt |-> NoFormat]
  /\ emit = [b \in Banks |-> FALSE] /\ fresh = {}
  /\ vblank = FALSE /\ vsync = FALSE /\ flip = "none"

VoNext ==
  \/ Commit \/ PipeDisable \/ PipeUpdate \/ Unlock("unlock") \/ Unlock("start")
  \/ ArmEvent \/ PipeEnable \/ FrameStart \/ VsyncIrq
  \/ \E p \in Overlay : OverlayUpdate(p) \/ OverlayDisable(p)

VoSpec == VoInit /\ [][VoNext]_voVars

(***************************************************************************)
(* Properties.                                                             *)
(***************************************************************************)

\* Between commits the controller scans out exactly when the pipe is on, the
\* lock released: no lock bracket has stopped it, or restarted it into the
\* disabled DSI.
StartFollowsPipe ==
  commit_at = "idle" =>
    /\ main = [start |-> pipe_on, lock |-> FALSE]
    /\ cur.start = pipe_on
    /\ pipe_on = kms.active

\* A plane programmed since the pipe was enabled is on the screen, and a bank
\* that emits is that of a plane still on.
BanksFollowPlanes ==
  commit_at = "idle" /\ pipe_on =>
    /\ \A p \in kms.on \cap fresh : emit[bank(p)]
    /\ \A b \in Banks : emit[b] => \E p \in kms.on : bank(p) = b

\* An event armed on the vsync is sent once the new buffer is scanned out.
FlipOnLatch == flip # "early"

ScanoutTrue == StartFollowsPipe /\ BanksFollowPlanes /\ FlipOnLatch
=============================================================================
