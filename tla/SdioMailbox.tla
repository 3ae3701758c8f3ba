----------------------------- MODULE SdioMailbox -----------------------------
(***************************************************************************)
(* One channel of the two-channel mailbox: the interrupt handler latches   *)
(* the byte it reads from REG_MBOX_RX0 or _RX1, and ARSDIO_IOC_MSG_GET     *)
(* returns and clears it.  The channels share nothing.                     *)
(*                                                                         *)
(* mailbox_msg and mailbox_valid are plain variables and MSG_GET takes no  *)
(* lock, so the two sides race.  Nothing orders the accesses of one side   *)
(* to the two variables, beyond that MSG_GET stores only after it has      *)
(* looked: each side has a set of accesses still to be made.               *)
(***************************************************************************)
EXTENDS Naturals, Sequences

CONSTANTS
    Messages,      \* how many messages the chip sends: a bound for TLC
    Getter,        \* threads in ARSDIO_IOC_MSG_GET
    CopyFails      \* whether the copy to user space may fail

VARIABLES
    sent,          \* messages the handler has fetched; the last is number sent
    latch,         \* the stores it has still to make
    mailbox_msg,   \* 0 is the cleared byte
    mailbox_valid,
    at,            \* where each getter is: "out", "loading" or "clearing"
    accesses,      \* the accesses it has still to make there
    valid, msg,    \* what it has loaded
    returned       \* what MSG_GET has returned, in order

mailbox  == <<mailbox_msg, mailbox_valid>>
mboxVars == <<sent, latch, mailbox_msg, mailbox_valid, at, accesses, valid, msg, returned>>

MboxInit ==
    /\ sent = 0 /\ latch = {}
    /\ mailbox_msg = 0 /\ mailbox_valid = FALSE
    /\ at = [g \in Getter |-> "out"] /\ accesses = [g \in Getter |-> {}]
    /\ valid = [g \in Getter |-> FALSE] /\ msg = [g \in Getter |-> 0]
    /\ returned = <<>>

-----------------------------------------------------------------------------
(* artosyn_sdio_irqhandler                                                 *)

\* EVT_MBOX0 or _MBOX1: reading the register clears the event.
LatchRead ==
    /\ latch = {} /\ sent < Messages
    /\ sent' = sent + 1
    /\ latch' = {"msg", "valid"}
    /\ UNCHANGED <<mailbox, at, accesses, valid, msg, returned>>

LatchMsg ==
    /\ "msg" \in latch
    /\ mailbox_msg' = sent
    /\ latch' = latch \ {"msg"}
    /\ UNCHANGED <<sent, mailbox_valid, at, accesses, valid, msg, returned>>

LatchValid ==
    /\ "valid" \in latch
    /\ mailbox_valid' = TRUE
    /\ latch' = latch \ {"valid"}
    /\ UNCHANGED <<sent, mailbox_msg, at, accesses, valid, msg, returned>>

-----------------------------------------------------------------------------
(* ARSDIO_IOC_MSG_GET                                                      *)

Goto(g, from, to, todo) ==
    /\ at[g] = from
    /\ at' = [at EXCEPT ![g] = to]
    /\ accesses' = [accesses EXCEPT ![g] = todo]

\* One access to variable v, at the given point of getter g.
Access(g, point, v) ==
    /\ at[g] = point /\ v \in accesses[g]
    /\ accesses' = [accesses EXCEPT ![g] = @ \ {v}]
    /\ UNCHANGED <<sent, latch, at, returned>>

GetEnter(g) ==
    /\ Goto(g, "out", "loading", {"msg", "valid"})
    /\ UNCHANGED <<sent, latch, mailbox, valid, msg, returned>>

LoadValid(g) ==
    /\ Access(g, "loading", "valid")
    /\ valid' = [valid EXCEPT ![g] = mailbox_valid]
    /\ UNCHANGED <<mailbox, msg>>

LoadMsg(g) ==
    /\ Access(g, "loading", "msg")
    /\ msg' = [msg EXCEPT ![g] = mailbox_msg]
    /\ UNCHANGED <<mailbox, valid>>

\* Mutant: a message is returned and not consumed.
GetDecideKeeps(g) ==
    /\ accesses[g] = {}
    /\ IF valid[g] THEN Goto(g, "loading", "clearing", {}) ELSE Goto(g, "loading", "out", {})
    /\ UNCHANGED <<sent, latch, mailbox, valid, msg, returned>>

\* The channel is reported empty, or its message is consumed.
GetDecide(g) ==
    /\ accesses[g] = {}
    /\ IF valid[g] THEN Goto(g, "loading", "clearing", {"msg", "valid"})
                   ELSE Goto(g, "loading", "out", {})
    /\ UNCHANGED <<sent, latch, mailbox, valid, msg, returned>>

ClearMsg(g) ==
    /\ Access(g, "clearing", "msg")
    /\ mailbox_msg' = 0
    /\ UNCHANGED <<mailbox_valid, valid, msg>>

ClearValid(g) ==
    /\ Access(g, "clearing", "valid")
    /\ mailbox_valid' = FALSE
    /\ UNCHANGED <<mailbox_msg, valid, msg>>

\* The message is consumed whether or not it reaches user space.
GetReturn(g) ==
    /\ accesses[g] = {}
    /\ Goto(g, "clearing", "out", {})
    /\ returned' = Append(returned, msg[g]) \/ (CopyFails /\ returned' = returned)
    /\ UNCHANGED <<sent, latch, mailbox, valid, msg>>

-----------------------------------------------------------------------------

MboxIrq == LatchRead \/ LatchMsg \/ LatchValid
Get(g) == \/ GetEnter(g) \/ LoadValid(g) \/ LoadMsg(g) \/ GetDecide(g)
          \/ ClearMsg(g) \/ ClearValid(g) \/ GetReturn(g)

MboxNext == MboxIrq \/ \E g \in Getter : Get(g)

MboxSpec == MboxInit /\ [][MboxNext]_mboxVars

-----------------------------------------------------------------------------
(* Properties                                                              *)

\* One thread calls MSG_GET: it takes no lock, so two could load one message.
OneGetter == \A g, h \in Getter : g = h

\* MSG_GET: with one getter no message is returned twice, nor after a newer one, in
\* whatever order the two sides make their accesses.
ReturnedOnce ==
    \A i, j \in 1..Len(returned) :
        i < j /\ returned[i] # 0 /\ returned[j] # 0 => returned[i] < returned[j]
=============================================================================
