------------------------------ MODULE UmapShuttle ------------------------------
(***************************************************************************)
(* /dev/ar_mpp_proc_ctrl (ar_mpp_proc_ctrl.c).  The media daemon creates   *)
(* files below /proc/umap; what somebody writes to such a file is handed   *)
(* to the daemon's blocking MSG ioctl, and what the daemon pushes with     *)
(* WRITE is what a reader of the file sees.                                *)
(*                                                                         *)
(* g.lock guards the list of entries and each entry has a lock of its own. *)
(* MSG and WRITE look an entry up under g.lock, drop it, and only then     *)
(* take the lock of the entry: two steps.  An entry is a number, its       *)
(* handle; a message is the number of the write it came from.              *)
(***************************************************************************)
EXTENDS Naturals, Sequences, SequencesExt

CONSTANTS
  Entry,         \* handles: 1..n
  Caller,        \* threads of the daemon; each issues one ioctl at a time
  Listener,      \* those of them that call MSG
  CloseInFlight, \* TRUE: CLOSE may come while another thread's ioctl has the entry
  MaxWrites      \* bound: writes to the files, and texts pushed

VARIABLES
  devs,     \* g.devs, in the order of creation
  dev,      \* handle -> [state, msg, msg_pending, shown]
  ioctl,    \* thread -> [at, d, out]: the ioctl it is in
  known,    \* the handles that reached the daemon
  writes,   \* writes tried, so far
  newest,   \* handle -> the newest write that was accepted
  seen,     \* handle -> the newest write the daemon received
  spoiled,  \* handles with a message that a failed copy damaged or lost
  again     \* the daemon received a write it had already seen

umapVars == <<devs, dev, ioctl, known, writes, newest, seen, spoiled, again>>

NoIoctl == [at |-> "idle", d |-> 0, out |-> 0]
Fresh == [state |-> "none", msg |-> 0, msg_pending |-> FALSE, shown |-> 0]

UmInit ==
  /\ devs = <<>> /\ dev = [d \in Entry |-> Fresh]
  /\ ioctl = [t \in Caller |-> NoIoctl] /\ known = {}
  /\ writes = 0 /\ newest = [d \in Entry |-> 0] /\ seen = [d \in Entry |-> 0]
  /\ spoiled = {} /\ again = FALSE

At(t, at) == ioctl[t].at = at
InIoctl(t, at, d, out) == ioctl' = [ioctl EXCEPT ![t] = [at |-> at, d |-> d, out |-> out]]

\* CREATE.  The entry exists also when its handle does not reach the caller.
Create(t, d) ==
  /\ At(t, "idle") /\ dev[d].state = "none"
  /\ \A e \in Entry : e < d => dev[e].state # "none"
  /\ dev' = [dev EXCEPT ![d].state = "live"]
  /\ devs' = Append(devs, d)
  /\ known' \in {known, known \cup {d}}
  /\ UNCHANGED <<ioctl, writes, newest, seen, spoiled, again>>

\* write() to the file of d: the message before it is cleared, then copied
\* over.  When the copy fails a pending message stays pending, but blank.
Write(d) ==
  /\ dev[d].state = "live" /\ writes < MaxWrites
  /\ writes' = writes + 1
  /\ \/ /\ dev' = [dev EXCEPT ![d].msg = writes', ![d].msg_pending = TRUE]
        /\ newest' = [newest EXCEPT ![d] = writes']
        /\ spoiled' = spoiled \ {d}
     \/ /\ dev' = [dev EXCEPT ![d].msg = 0]
        /\ spoiled' = IF dev[d].msg_pending THEN spoiled \cup {d} ELSE spoiled
        /\ UNCHANGED newest
  /\ UNCHANGED <<devs, ioctl, known, seen, again>>

Pending == {i \in DOMAIN devs : dev[devs[i]].msg_pending}

\* Mutant of the next: the flag is cleared here already.
FindClears(t) ==
  /\ t \in Listener /\ At(t, "idle") /\ Pending # {}
  /\ \E i \in Pending :
       /\ \A j \in Pending : i =< j
       /\ InIoctl(t, "found", devs[i], 0)
       /\ dev' = [dev EXCEPT ![devs[i]].msg_pending = FALSE]
  /\ UNCHANGED <<devs, known, writes, newest, seen, spoiled, again>>

\* MSG, under g.lock: the first entry with a pending write.  With none the
\* thread sleeps, a second at a time, and looks again.
Find(t) ==
  /\ t \in Listener /\ At(t, "idle") /\ Pending # {}
  /\ \E i \in Pending :
       /\ \A j \in Pending : i =< j
       /\ InIoctl(t, "found", devs[i], 0)
  /\ UNCHANGED <<devs, dev, known, writes, newest, seen, spoiled, again>>

\* ... then, under the lock of the entry, what it holds by now
Take(t) ==
  /\ At(t, "found")
  /\ LET d == ioctl[t].d
     IN /\ InIoctl(t, "out", d, dev[d].msg)
        /\ dev' = [dev EXCEPT ![d].msg_pending = FALSE]
  /\ UNCHANGED <<devs, known, writes, newest, seen, spoiled, again>>

\* ... and the copy to the caller, without which the message is gone
Return(t) ==
  /\ At(t, "out")
  /\ LET d == ioctl[t].d   out == ioctl[t].out
     IN \/ /\ again' = (again \/ (out # 0 /\ out =< seen[d]))
           /\ seen' = IF out > seen[d] THEN [seen EXCEPT ![d] = out] ELSE seen
           /\ UNCHANGED spoiled
        \/ /\ spoiled' = IF out = newest[d] THEN spoiled \cup {d} ELSE spoiled
           /\ UNCHANGED <<seen, again>>
  /\ InIoctl(t, "idle", 0, 0)
  /\ UNCHANGED <<devs, dev, known, writes, newest>>

\* WRITE: the entry of a handle, under g.lock
Lookup(t, d) ==
  /\ At(t, "idle") /\ d \in known /\ dev[d].state = "live"
  /\ InIoctl(t, "push", d, 0)
  /\ UNCHANGED <<devs, dev, known, writes, newest, seen, spoiled, again>>

\* ... and its text, under the lock of the entry.  A copy that fails leaves
\* the old length with part of the new text.
Push(t) ==
  /\ At(t, "push")
  /\ \/ /\ writes < MaxWrites /\ writes' = writes + 1
        /\ dev' = [dev EXCEPT ![ioctl[t].d].shown = writes']
     \/ UNCHANGED <<dev, writes>>
  /\ InIoctl(t, "idle", 0, 0)
  /\ UNCHANGED <<devs, known, newest, seen, spoiled, again>>

Users(d) == {t \in Caller : ioctl[t].d = d}

\* CLOSE: proc_remove waits for a read() or write() of the file; nothing
\* waits for an ioctl that found the entry.
Close(t, d) ==
  /\ At(t, "idle") /\ d \in known /\ dev[d].state = "live"
  /\ CloseInFlight \/ Users(d) = {}
  /\ dev' = [dev EXCEPT ![d].state = "freed"]
  /\ devs' = RemoveFirst(devs, d)
  /\ UNCHANGED <<ioctl, known, writes, newest, seen, spoiled, again>>

UmNext ==
  \/ \E t \in Caller, d \in Entry : Create(t, d) \/ Lookup(t, d) \/ Close(t, d)
  \/ \E t \in Caller : Find(t) \/ Take(t) \/ Return(t) \/ Push(t)
  \/ \E d \in Entry : Write(d)

UmSpec == UmInit /\ [][UmNext]_umapVars

ASSUME UmapAssumption == Entry \subseteq Nat \ {0} /\ Listener \subseteq Caller

\* As in the daemon, one thread waits for messages.
OneListener == \A t, u \in Listener : t = u

\* What was written last to a file of the daemon is with the daemon, on its
\* way there, or still pending - unless a copy to or from a process failed -
\* and no write is reported twice: the flag is dropped with the copy, under
\* the one lock (ar_mpp_proc_ctrl.c, pc_msg against umap_write).
WritesReported ==
  /\ ~again
  /\ \A d \in Entry : dev[d].state = "live" /\ d \notin spoiled =>
       \/ newest[d] = seen[d]
       \/ dev[d].msg_pending /\ dev[d].msg = newest[d]
       \/ \E t \in Caller : At(t, "out") /\ ioctl[t].d = d /\ ioctl[t].out = newest[d]

\* No ioctl uses an entry after CLOSE freed it.
EntriesAlive ==
  \A t \in Caller : ioctl[t].d # 0 => dev[ioctl[t].d].state = "live"
===============================================================================
