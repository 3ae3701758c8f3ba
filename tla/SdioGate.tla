------------------------------ MODULE SdioGate ------------------------------
(***************************************************************************)
(* Lifetime of one artosyn_sdio device: the probe and remove thread of the *)
(* MMC core against the threads inside /dev/artosyn_sdio.                  *)
(*                                                                         *)
(* A file operation is bracketed by artosyn_op_enter and artosyn_op_exit,  *)
(* which count it in active_ops; teardown sets removed, wakes the sleepers *)
(* on cmd_wq and waits for active_ops to reach zero before it frees what   *)
(* the operations use.  The driver context itself is reference counted:    *)
(* one reference for probe and one for every open descriptor.              *)
(*                                                                         *)
(* Every access to active_ops and removed is a step of its own.  Both      *)
(* sides have a full barrier between their write and their read, so the    *)
(* interleaving of those steps is all that the hardware can show.          *)
(***************************************************************************)
EXTENDS Naturals, Sequences, FiniteSets

CONSTANTS
    Fd,               \* the descriptors of /dev/artosyn_sdio; one thread uses each
    RegisterMayFail   \* whether register_netdev() may return an error

ASSUME FdFinite == IsFiniteSet(Fd)
ASSUME RegisterBoolean == RegisterMayFail \in BOOLEAN

VARIABLES
    phase,            \* the next step of the probe and remove thread
    misc_registered,  \* /dev/artosyn_sdio can be opened
    func,             \* the SDIO function is enabled and the buffers exist
    ndevPtr,          \* dev->ndev is not NULL
    ndevLive,         \* the net_device and its workqueue are allocated
    irq,              \* the SDIO interrupt is claimed
    removed,          \* the gate of artosyn_op_enter
    active_ops,       \* operations counted by the gate
    refs,             \* references to the driver context
    devLive,          \* the driver context is allocated
    fd                \* where the thread of each descriptor is

host == <<phase, misc_registered, func, ndevPtr, ndevLive, irq>>
vars == <<phase, misc_registered, func, ndevPtr, ndevLive, irq,
          removed, active_ops, refs, devLive, fd>>

ProbePhases == {"absent", "misc", "fork", "netdev", "register", "irq", "bound"}

\* Teardown labels: r_ are the steps of remove(), reg_ those of the failure
\* path inside artosyn_setup_netdev, n_ and m_ those of err_netdev and
\* err_misc; the last three are shared, as the goto labels fall through.
UndoPhases ==
    {"r_wake", "r_drain", "r_irq", "r_free", "r_clear", "reg_free", "reg_clear",
     "n_wake", "n_drain", "n_free", "n_clear", "m_wake", "m_drain",
     "misc_dereg", "err_buf", "put"}

\* Inside a bracketed operation: from the increment to the decrement.
UsesNetdev == {"using", "asleep", "woken"}
PastGate   == {"inside", "leaving"} \cup UsesNetdev
InOp       == {"entering", "bailing"} \cup PastGate

\* How many threads are at a place in T.
Count(T) == Cardinality({f \in Fd : fd[f] \in T})
OpenFds  == {"idle"} \cup InOp

TypeOK ==
    /\ phase \in ProbePhases \cup UndoPhases
    /\ misc_registered \in BOOLEAN
    /\ func \in BOOLEAN
    /\ ndevPtr \in BOOLEAN
    /\ ndevLive \in BOOLEAN
    /\ irq \in BOOLEAN
    /\ removed \in BOOLEAN
    /\ devLive \in BOOLEAN
    /\ active_ops \in Nat
    /\ refs \in Nat
    /\ fd \in [Fd -> {"closed"} \cup OpenFds]

Init ==
    /\ phase = "absent"
    /\ misc_registered = FALSE
    /\ func = FALSE
    /\ ndevPtr = FALSE
    /\ ndevLive = FALSE
    /\ irq = FALSE
    /\ removed = FALSE
    /\ active_ops = 0
    /\ refs = 0
    /\ devLive = FALSE
    /\ fd = [f \in Fd |-> "closed"]

-----------------------------------------------------------------------------
(* sdio_artosyn_probe                                                      *)

\* kzalloc, the buffers and sdio_enable_func.  A failure here undoes them
\* before anyone else could have seen the device.
ProbeStart ==
    /\ phase = "absent"
    /\ ~devLive
    /\ phase' = "misc"
    /\ func' = TRUE
    /\ refs' = 1
    /\ devLive' = TRUE
    /\ removed' = FALSE
    /\ active_ops' = 0
    /\ UNCHANGED <<misc_registered, ndevPtr, ndevLive, irq, fd>>

ProbeMisc ==
    /\ phase = "misc"
    /\ \/ /\ misc_registered' = TRUE
          /\ phase' = "fork"
       \/ /\ phase' = "err_buf"
          /\ UNCHANGED misc_registered
    /\ UNCHANGED <<func, ndevPtr, ndevLive, irq, removed, active_ops, refs, devLive, fd>>

\* Device 0x8030 uploads its firmware and is bound without a net_device; it
\* re-enumerates as 0x8031, which goes on to artosyn_setup_netdev.
ProbeFork ==
    /\ phase = "fork"
    /\ phase' \in {"bound", "netdev", "m_wake"}
    /\ UNCHANGED <<misc_registered, func, ndevPtr, ndevLive, irq,
                   removed, active_ops, refs, devLive, fd>>

\* artosyn_setup_netdev up to dev->ndev = ndev: the pointer is published
\* before the net_device is registered.
SetupNetdev ==
    /\ phase = "netdev"
    /\ \/ /\ phase' = "register"
          /\ ndevPtr' = TRUE
          /\ ndevLive' = TRUE
       \/ /\ phase' = "m_wake"
          /\ UNCHANGED <<ndevPtr, ndevLive>>
    /\ UNCHANGED <<misc_registered, func, irq, removed, active_ops, refs, devLive, fd>>

\* register_netdev(): on error the net_device goes at once, with no quiesce.
RegisterNetdev ==
    /\ phase = "register"
    /\ \/ phase' = "irq"
       \/ RegisterMayFail /\ phase' = "reg_free"
    /\ UNCHANGED <<misc_registered, func, ndevPtr, ndevLive, irq,
                   removed, active_ops, refs, devLive, fd>>

ClaimIrq ==
    /\ phase = "irq"
    /\ \/ /\ irq' = TRUE
          /\ phase' = "bound"
       \/ /\ phase' = "n_wake"
          /\ UNCHANGED irq
    /\ UNCHANGED <<misc_registered, func, ndevPtr, ndevLive,
                   removed, active_ops, refs, devLive, fd>>

\* sdio_artosyn_remove starts: the card is gone or the driver is unbound.
Remove ==
    /\ phase = "bound"
    /\ phase' = "r_wake"
    /\ UNCHANGED <<misc_registered, func, ndevPtr, ndevLive, irq,
                   removed, active_ops, refs, devLive, fd>>

-----------------------------------------------------------------------------
(* The teardown steps                                                      *)

Step(from, to) == phase = from /\ phase' = to

\* artosyn_dev_put
DevPut ==
    /\ refs' = refs - 1
    /\ devLive' = (refs # 1)

\* Mutant: the sleepers on cmd_wq are not woken.
QuiesceNoWake ==
    /\ \/ Step("r_wake", "r_drain")
       \/ Step("n_wake", "n_drain")
       \/ Step("m_wake", "m_drain")
    /\ removed' = TRUE
    /\ UNCHANGED <<misc_registered, func, ndevPtr, ndevLive, irq,
                   active_ops, refs, devLive, fd>>

\* artosyn_quiesce: WRITE_ONCE(removed), then wake_up_all(cmd_wq).
QuiesceWake ==
    /\ \/ Step("r_wake", "r_drain")
       \/ Step("n_wake", "n_drain")
       \/ Step("m_wake", "m_drain")
    /\ removed' = TRUE
    /\ fd' = [f \in Fd |-> IF fd[f] = "asleep" THEN "woken" ELSE fd[f]]
    /\ UNCHANGED <<misc_registered, func, ndevPtr, ndevLive, irq, active_ops, refs, devLive>>

\* The wait for ops_drained has a timeout and re-reads active_ops in any
\* case, so the completion decides only how soon this step is taken.
QuiesceDrain ==
    /\ \/ Step("r_drain", "r_irq")
       \/ Step("n_drain", "n_free")
       \/ Step("m_drain", "misc_dereg")
    /\ active_ops = 0
    /\ UNCHANGED <<misc_registered, func, ndevPtr, ndevLive, irq,
                   removed, active_ops, refs, devLive, fd>>

\* Mutant: remove() keeps the interrupt claimed.
ReleaseIrqNever ==
    /\ phase = "r_irq"
    /\ phase' = IF ndevPtr THEN "r_free" ELSE "misc_dereg"
    /\ UNCHANGED <<misc_registered, func, ndevPtr, ndevLive, irq,
                   removed, active_ops, refs, devLive, fd>>

ReleaseIrq ==
    /\ phase = "r_irq"
    /\ phase' = IF ndevPtr THEN "r_free" ELSE "misc_dereg"
    /\ irq' = FALSE
    /\ UNCHANGED <<misc_registered, func, ndevPtr, ndevLive,
                   removed, active_ops, refs, devLive, fd>>

\* unregister_netdev, destroy_workqueue and free_netdev.
FreeNetdev ==
    /\ \/ Step("r_free", "r_clear")
       \/ Step("reg_free", "reg_clear")
       \/ Step("n_free", "n_clear")
    /\ ndevLive' = FALSE
    /\ UNCHANGED <<misc_registered, func, ndevPtr, irq,
                   removed, active_ops, refs, devLive, fd>>

ClearNdev ==
    /\ \/ Step("r_clear", "misc_dereg")
       \/ Step("reg_clear", "m_wake")
       \/ Step("n_clear", "m_wake")
    /\ ndevPtr' = FALSE
    /\ UNCHANGED <<misc_registered, func, ndevLive, irq,
                   removed, active_ops, refs, devLive, fd>>

\* misc_deregister excludes misc_open, so an open is before or after it.
MiscDeregister ==
    /\ Step("misc_dereg", "err_buf")
    /\ misc_registered' = FALSE
    /\ UNCHANGED <<func, ndevPtr, ndevLive, irq, removed, active_ops, refs, devLive, fd>>

\* sdio_disable_func and artosyn_free_buffers.
DisableFunc ==
    /\ Step("err_buf", "put")
    /\ func' = FALSE
    /\ UNCHANGED <<misc_registered, ndevPtr, ndevLive, irq,
                   removed, active_ops, refs, devLive, fd>>

\* The last step drops the reference of probe.
PutProbe ==
    /\ Step("put", "absent")
    /\ DevPut
    /\ UNCHANGED <<misc_registered, func, ndevPtr, ndevLive, irq, removed, active_ops, fd>>

-----------------------------------------------------------------------------
(* The file operations                                                     *)

Goto(f, from, to) ==
    /\ fd[f] = from
    /\ fd' = [fd EXCEPT ![f] = to]

\* Mutant: open takes no reference.
OpenNoRef(f) ==
    /\ misc_registered
    /\ Goto(f, "closed", "idle")
    /\ UNCHANGED <<host, removed, active_ops, refs, devLive>>

Open(f) ==
    /\ misc_registered
    /\ Goto(f, "closed", "idle")
    /\ refs' = refs + 1
    /\ UNCHANGED <<host, removed, active_ops, devLive>>

Close(f) ==
    /\ Goto(f, "idle", "closed")
    /\ DevPut
    /\ UNCHANGED <<host, removed, active_ops>>

\* artosyn_op_enter, first half: atomic_inc(active_ops).
OpEnter(f) ==
    /\ Goto(f, "idle", "entering")
    /\ active_ops' = active_ops + 1
    /\ UNCHANGED <<host, removed, refs, devLive>>

\* Mutant: removed is not looked at once the operation is counted.
OpCheckNoGate(f) ==
    /\ Goto(f, "entering", "inside")
    /\ UNCHANGED <<host, removed, active_ops, refs, devLive>>

\* artosyn_op_enter, second half: READ_ONCE(removed).
OpCheck(f) ==
    /\ Goto(f, "entering", IF removed THEN "bailing" ELSE "inside")
    /\ UNCHANGED <<host, removed, active_ops, refs, devLive>>

\* Mutant: an operation the gate refused is uncounted again on its way out.
OpExitTwice(f) ==
    /\ \/ Goto(f, "bailing", "idle") /\ active_ops' = active_ops - 2
       \/ Goto(f, "leaving", "idle") /\ active_ops' = active_ops - 1
    /\ UNCHANGED <<host, removed, refs, devLive>>

OpExit(f) ==
    /\ \/ Goto(f, "bailing", "idle")
       \/ Goto(f, "leaving", "idle")
    /\ active_ops' = active_ops - 1
    /\ UNCHANGED <<host, removed, refs, devLive>>

\* ioctl needs only func; read, write and poll give up when dev->ndev is NULL.
OpNoNetdev(f) ==
    /\ Goto(f, "inside", "leaving")
    /\ UNCHANGED <<host, removed, active_ops, refs, devLive>>

OpNetdev(f) ==
    /\ ndevPtr
    /\ Goto(f, "inside", "using")
    /\ UNCHANGED <<host, removed, active_ops, refs, devLive>>

\* wait_event_interruptible: the thread is on cmd_wq before it looks at
\* removed, so a wake-up after that look is never missed.
OpSleep(f) ==
    /\ ~removed
    /\ \/ Goto(f, "using", "asleep")
       \/ Goto(f, "woken", "asleep")
    /\ UNCHANGED <<host, removed, active_ops, refs, devLive>>

\* A frame, a drained queue or a signal wakes one waiter.
OpWake(f) ==
    /\ Goto(f, "asleep", "woken")
    /\ UNCHANGED <<host, removed, active_ops, refs, devLive>>

OpDone(f) ==
    /\ \/ Goto(f, "using", "leaving")
       \/ Goto(f, "woken", "leaving")
    /\ UNCHANGED <<host, removed, active_ops, refs, devLive>>

-----------------------------------------------------------------------------

Probe    == ProbeStart \/ ProbeMisc \/ ProbeFork \/ SetupNetdev \/ RegisterNetdev \/ ClaimIrq
Teardown == \/ QuiesceWake \/ QuiesceDrain \/ ReleaseIrq \/ FreeNetdev
            \/ ClearNdev \/ MiscDeregister \/ DisableFunc \/ PutProbe

\* The steps of an operation that is inside the driver and not asleep.
OpStep(f) == OpCheck(f) \/ OpExit(f) \/ OpNoNetdev(f) \/ OpNetdev(f) \/ OpSleep(f) \/ OpDone(f)

FileOp(f) == Open(f) \/ Close(f) \/ OpEnter(f) \/ OpStep(f) \/ OpWake(f)

Next == Probe \/ Remove \/ Teardown \/ \E f \in Fd : FileOp(f)

Spec == Init /\ [][Next]_vars

(* The MMC core thread runs its teardown to the end, and a thread inside   *)
(* the driver keeps running until it returns or sleeps on cmd_wq: both are *)
(* kernel threads the scheduler does not starve.  Nothing is assumed about *)
(* what wakes a sleeper, when descriptors are used or when a card is       *)
(* removed.                                                                *)
Fairness == WF_vars(Teardown) /\ \A f \in Fd : WF_vars(OpStep(f))

FairSpec == Spec /\ Fairness

-----------------------------------------------------------------------------
(* Properties                                                              *)

\* An operation that passed the gate of artosyn_op_enter finds the SDIO
\* function enabled until it leaves, and one that fetched dev->ndev finds
\* that net_device allocated for as long as it uses it, asleep or not.
OpResources ==
    /\ \A f \in Fd : fd[f] \in PastGate => func
    /\ \A f \in Fd : fd[f] \in UsesNetdev => ndevLive

\* The same on every path but one: the failure path of register_netdev frees
\* the net_device before it raises the gate, and no other step does.
RegisterErrorPath == {"reg_clear", "m_wake", "m_drain"}
OpResourcesBehindGate == phase \notin RegisterErrorPath => OpResources

\* The interrupt handler, which dereferences dev->ndev without the gate, can
\* only run while the net_device and the function exist.
IrqResources == irq => ndevLive /\ func

\* The driver context is allocated for exactly as long as probe or an open
\* descriptor refers to it, and refs counts exactly those.
ContextPinned ==
    /\ refs = Count(OpenFds) + (IF phase = "absent" THEN 0 ELSE 1)
    /\ devLive <=> refs # 0

\* If the users of the device stop starting operations, every teardown ends:
\* an operation asleep in read() or write() does not hold it up.
TeardownCompletes ==
    <>[](\A f \in Fd : fd[f] # "entering") => (phase \in UndoPhases ~> phase = "absent")
-----------------------------------------------------------------------------
(* The inductive invariant behind OpResourcesBehindGate: what each phase of *)
(* the probe and remove thread knows about the rest of the state.          *)

\* active_ops counts exactly the threads between its increment and decrement.
Counted == active_ops = Count(InOp)

\* From the drain of remove() or err_netdev on, and from that of err_misc.
Drained == {"r_irq", "r_free", "r_clear", "n_free", "n_clear", "misc_dereg"}
Quiet   == Drained \cup {"err_buf", "put", "absent"}

Teared ==
    /\ phase \in Drained \cup {"r_drain", "n_drain", "m_drain"} => removed
    /\ phase \in Quiet =>
         \A f \in Fd : fd[f] \notin PastGate /\ (removed \/ fd[f] = "closed")
    /\ phase = "misc" => \A f \in Fd : fd[f] = "closed"

Held ==
    /\ func <=> phase \notin {"put", "absent"}
    /\ misc_registered <=> phase \notin {"misc", "err_buf", "put", "absent"}
    /\ irq => ndevLive /\ phase \in {"bound", "r_wake", "r_drain", "r_irq"}
    /\ ndevLive <=> ndevPtr /\ phase \notin {"r_clear", "n_clear", "reg_clear"}
    /\ ndevPtr => phase \notin {"absent", "misc", "fork", "netdev", "m_wake", "m_drain",
                               "misc_dereg", "err_buf", "put"}
    /\ phase \in {"register", "irq", "r_free"} => ndevPtr

Inv == TypeOK /\ Counted /\ ContextPinned /\ Teared /\ Held

\* The function stays for every operation past the gate, on all paths.
IInv ==
    /\ Inv
    /\ \A f \in Fd : fd[f] \in PastGate => func
    /\ OpResourcesBehindGate
=============================================================================
