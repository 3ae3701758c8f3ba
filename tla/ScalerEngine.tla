---------------------------- MODULE ScalerEngine ----------------------------
(***************************************************************************)
(* The scaler of ar_scaler.c: calls run one at a time under sc->lock, each *)
(* programs the engine, triggers it and waits for the completion that the  *)
(* interrupt handler signals.  An engine that does not answer in time is   *)
(* reset with its clock.  Suspend, resume, probe and remove come from the  *)
(* driver core, one after the other.                                       *)
(***************************************************************************)
EXTENDS Naturals

CONSTANTS
  Thread,    \* threads that issue ioctls, each on a file of its own
  Nobody,    \* no one holds sc->lock
  NoOp,      \* no operation
  Rebind     \* the device is bound again while files are still open

ASSUME NobodyAssumption == Nobody \notin Thread

Op == [by : Thread, n : 0..1, batch : BOOLEAN]

ASSUME NoOpAssumption == NoOp \notin Op

VARIABLES
  sc_lock,   \* who holds sc->lock
  sc_at,     \* the holder's next step
  sc_op,     \* the holder's operation: [by, n, batch]
  dead, suspended,
  bound,     \* "off", "probing", "ready", "up" or "down"
  files,     \* threads that have the node open
  regs,      \* [mode, live, staged, irqen, status, clock]
  job,       \* the operation the engine runs
  done,      \* the completion
  irqh,      \* the handler: "none", "ack" or "wake"
  ran        \* the engine has run the holder's operation to its end

scVars == <<sc_lock, sc_at, sc_op, dead, suspended, bound, files, regs, job,
            done, irqh, ran>>
lifecycle == <<dead, suspended, bound, files>>

\* The holder's step s, after which it is at step next.
At(s, next) == sc_at = s /\ sc_at' = next /\ UNCHANGED <<sc_lock, sc_op>>

(***************************************************************************)
(* The engine and the interrupt handler.                                   *)
(***************************************************************************)

EngineDone ==
  /\ job # NoOp /\ regs.clock
  /\ job' = NoOp
  /\ regs' = [regs EXCEPT !.status = TRUE]
  /\ ran' = (ran \/ job = sc_op)
  /\ UNCHANGED <<sc_lock, sc_at, sc_op, lifecycle, done, irqh>>

\* The line is level-triggered: the handler starts while the status is set
\* and the interrupt enabled.
HandlerReads ==
  /\ irqh = "none" /\ bound # "off"
  /\ regs.irqen /\ regs.status
  /\ irqh' = "ack"
  /\ UNCHANGED <<sc_lock, sc_at, sc_op, lifecycle, regs, job, done, ran>>

HandlerAcks ==
  /\ irqh = "ack"
  /\ regs' = [regs EXCEPT !.status = FALSE]
  /\ irqh' = "wake"
  /\ UNCHANGED <<sc_lock, sc_at, sc_op, lifecycle, job, done, ran>>

HandlerCompletes ==
  /\ irqh = "wake"
  /\ done' = done + 1
  /\ irqh' = "none"
  /\ UNCHANGED <<sc_lock, sc_at, sc_op, lifecycle, regs, job, ran>>

(***************************************************************************)
(* ar_scaler_run and ar_scaler_run_batch.                                  *)
(***************************************************************************)

\* Under the lock: an ioctl on a dead or suspended scaler returns at once.
\* A batch is staged in memory, and the completion is made fresh.
Start(t) ==
  /\ t \in files /\ sc_lock = Nobody
  /\ ~dead /\ ~suspended
  /\ \E b \in BOOLEAN :
       sc_op' = [by |-> t, n |-> IF sc_op = NoOp THEN 0 ELSE 1 - sc_op.n,
                 batch |-> b]
  /\ sc_lock' = t /\ sc_at' = "program"
  /\ regs' = IF sc_op'.batch THEN [regs EXCEPT !.staged = sc_op'] ELSE regs
  /\ done' = 0
  /\ ran' = FALSE
  /\ UNCHANGED <<lifecycle, job, irqh>>

\* Mutant: the descriptor is packed before the batch mode is left.
ProgramPacksFirst ==
  /\ At("program", "trigger")
  /\ regs' = [regs EXCEPT !.mode = sc_op.batch,
                          !.live = IF regs.mode \/ sc_op.batch THEN @ ELSE sc_op]
  /\ UNCHANGED <<lifecycle, job, done, irqh, ran>>

\* The mode is selected before the descriptor is packed: in batch mode the
\* engine ignores writes to its live registers.
Program ==
  /\ At("program", "trigger")
  /\ regs' = IF sc_op.batch THEN [regs EXCEPT !.mode = TRUE]
                            ELSE [regs EXCEPT !.mode = FALSE, !.live = sc_op]
  /\ UNCHANGED <<lifecycle, job, done, irqh, ran>>

Trigger ==
  /\ At("trigger", "wait")
  /\ job' = IF regs.mode THEN regs.staged ELSE regs.live
  /\ UNCHANGED <<lifecycle, regs, done, irqh, ran>>

Completes ==
  /\ At("wait", "return")
  /\ done > 0 /\ done' = done - 1
  /\ UNCHANGED <<lifecycle, regs, job, irqh, ran>>

Returns ==
  /\ sc_at = "return"
  /\ sc_lock' = Nobody /\ sc_at' = "none"
  /\ UNCHANGED <<sc_op, lifecycle, regs, job, done, irqh, ran>>

(***************************************************************************)
(* ar_scaler_timeout_reset: the engine may complete and the handler run    *)
(* between any two of its steps.                                           *)
(***************************************************************************)

\* The wait times out; the handler may be on its way.
Expires ==
  /\ At("wait", "mask") /\ done = 0
  /\ UNCHANGED <<lifecycle, regs, job, done, irqh, ran>>

Mask(s, next) ==
  /\ At(s, next)
  /\ regs' = [regs EXCEPT !.irqen = FALSE]
  /\ UNCHANGED <<lifecycle, job, done, irqh, ran>>

\* Mutant: a handler under way is not waited for.
SyncNot(s, next) ==
  At(s, next) /\ UNCHANGED <<lifecycle, regs, job, done, irqh, ran>>

\* synchronize_irq
Sync(s, next) ==
  /\ At(s, next) /\ irqh = "none"
  /\ UNCHANGED <<lifecycle, regs, job, done, irqh, ran>>

\* ar_scaler_hw_init gates the clock, which stops the engine but not what
\* its status has latched ...
GateOff ==
  /\ At("gate", "seed")
  /\ regs' = [regs EXCEPT !.clock = FALSE]
  /\ job' = NoOp
  /\ UNCHANGED <<lifecycle, done, irqh, ran>>

\* ... and seeds the registers with the clock back on, the interrupt enabled.
Seeded == [regs EXCEPT !.clock = TRUE, !.mode = FALSE, !.irqen = TRUE]

Seed ==
  /\ At("seed", "mask2")
  /\ regs' = Seeded
  /\ UNCHANGED <<lifecycle, job, done, irqh, ran>>

ClearStatus ==
  /\ At("clear", "sync2")
  /\ regs' = [regs EXCEPT !.status = FALSE]
  /\ UNCHANGED <<lifecycle, job, done, irqh, ran>>

Reinit ==
  /\ At("reinit", "unmask")
  /\ done' = 0
  /\ UNCHANGED <<lifecycle, regs, job, irqh, ran>>

Unmask ==
  /\ sc_at = "unmask"
  /\ regs' = [regs EXCEPT !.irqen = TRUE]
  /\ sc_lock' = Nobody /\ sc_at' = "none"
  /\ UNCHANGED <<sc_op, lifecycle, job, done, irqh, ran>>

TimeoutReset ==
  \/ Mask("mask", "sync") \/ Sync("sync", "gate") \/ GateOff \/ Seed
  \/ Mask("mask2", "clear") \/ ClearStatus \/ Sync("sync2", "reinit")
  \/ Reinit \/ Unmask

(***************************************************************************)
(* The files and the driver core.                                          *)
(***************************************************************************)

OpenNode(t) ==
  /\ bound = "up" /\ t \notin files
  /\ files' = files \cup {t}
  /\ UNCHANGED <<sc_lock, sc_at, sc_op, dead, suspended, bound, regs, job,
                 done, irqh, ran>>

CloseNode(t) ==
  /\ t \in files /\ sc_lock # t
  /\ files' = files \ {t}
  /\ UNCHANGED <<sc_lock, sc_at, sc_op, dead, suspended, bound, regs, job,
                 done, irqh, ran>>

Quiet == sc_lock = Nobody

\* ar_scaler_suspend and ar_scaler_resume, each under the lock.
Suspend ==
  /\ bound = "up" /\ ~suspended /\ Quiet
  /\ suspended' = TRUE
  /\ regs' = [regs EXCEPT !.clock = FALSE]
  /\ UNCHANGED <<sc_lock, sc_at, sc_op, dead, bound, files, job, done, irqh,
                 ran>>

Resume ==
  /\ bound = "up" /\ suspended /\ Quiet
  /\ suspended' = FALSE
  /\ regs' = Seeded
  /\ UNCHANGED <<sc_lock, sc_at, sc_op, dead, bound, files, job, done, irqh,
                 ran>>

\* Probe: the scaler is declared alive first, then its registers are mapped,
\* its buffers allocated and the engine brought up, its node registered last.
ProbeBegins ==
  /\ bound = "off"
  /\ Rebind \/ files = {}
  /\ dead' = FALSE /\ bound' = "probing"
  /\ UNCHANGED <<sc_lock, sc_at, sc_op, suspended, files, regs, job, done,
                 irqh, ran>>

ProbeMaps ==
  /\ bound = "probing"
  /\ bound' = "ready"
  /\ regs' = Seeded
  /\ UNCHANGED <<sc_lock, sc_at, sc_op, dead, suspended, files, job, done,
                 irqh, ran>>

ProbeRegisters ==
  /\ bound = "ready"
  /\ bound' = "up"
  /\ UNCHANGED <<sc_lock, sc_at, sc_op, dead, suspended, files, regs, job,
                 done, irqh, ran>>

\* A step of it fails: what is mapped is unmapped, and an engine already
\* brought up is powered off.
ProbeFails ==
  /\ bound \in {"probing", "ready"}
  /\ bound' = "off"
  /\ regs' = [regs EXCEPT !.clock = FALSE]
  /\ UNCHANGED <<sc_lock, sc_at, sc_op, dead, suspended, files, job, done,
                 irqh, ran>>

\* ar_scaler_remove takes the lock to wait for the call under way; the mapping
\* and the interrupt go after it returns.
RemoveEngine ==
  /\ bound = "up" /\ ~suspended /\ Quiet
  /\ dead' = TRUE /\ bound' = "down"
  /\ regs' = [regs EXCEPT !.clock = FALSE]
  /\ UNCHANGED <<sc_lock, sc_at, sc_op, suspended, files, job, done, irqh,
                 ran>>

Unmap ==
  /\ bound = "down" /\ irqh = "none"
  /\ bound' = "off"
  /\ UNCHANGED <<sc_lock, sc_at, sc_op, dead, suspended, files, regs, job,
                 done, irqh, ran>>

ScInit ==
  /\ sc_lock = Nobody /\ sc_at = "none" /\ sc_op = NoOp
  /\ dead = FALSE /\ suspended = FALSE /\ bound = "off" /\ files = {}
  /\ regs = [mode |-> FALSE, live |-> NoOp, staged |-> NoOp,
             irqen |-> FALSE, status |-> FALSE, clock |-> FALSE]
  /\ job = NoOp /\ done = 0 /\ irqh = "none" /\ ran = FALSE

ScNext ==
  \/ EngineDone \/ HandlerReads \/ HandlerAcks \/ HandlerCompletes
  \/ Program \/ Trigger \/ Completes \/ Returns \/ Expires \/ TimeoutReset
  \/ \E t \in Thread : Start(t) \/ OpenNode(t) \/ CloseNode(t)
  \/ Suspend \/ Resume \/ RemoveEngine \/ Unmap
  \/ ProbeBegins \/ ProbeMaps \/ ProbeRegisters \/ ProbeFails

ScSpec == ScInit /\ [][ScNext]_scVars

(***************************************************************************)
(* Properties.                                                             *)
(***************************************************************************)

\* A call that returns success had its own operation run to the end: not the
\* previous one's, and not one left in the live registers.
OwnOpRan == sc_at = "return" => ran

\* The registers are used and the engine runs only while they are mapped and
\* the clock is on.
EngineUp ==
  job # NoOp \/ sc_at \in {"program", "trigger", "wait"} =>
    bound = "up" /\ ~dead /\ regs.clock

\* Nothing of a call outlives it, whether it succeeded or timed out: when the
\* lock is free the engine is stopped, and no status, handler or completion
\* is left to be taken for the next call's.
EngineQuiet ==
  /\ EngineUp
  /\ sc_lock = Nobody =>
       job = NoOp /\ ~regs.status /\ done = 0 /\ irqh = "none"
=============================================================================
