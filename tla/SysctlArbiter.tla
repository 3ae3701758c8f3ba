----------------------------- MODULE SysctlArbiter -----------------------------
(***************************************************************************)
(* /dev/ar_sysctl (ar_sysctl.c).  Services register by name and priority;  *)
(* the system may be suspended while at least one of them is active.  All  *)
(* of an ioctl, and all of the cleanup when a descriptor is closed, runs   *)
(* under g_lock: an action each.  What makes the bookkeeping hard is that  *)
(* a name can be registered, unregistered and registered again by several  *)
(* descriptors, one of which may die.                                      *)
(***************************************************************************)
EXTENDS Naturals, Sequences, FiniteSets

CONSTANTS
  Name, ScFile,  \* names of services; descriptors, each opened once
  MaxPriority,   \* SYSCTL_MAX_PRIORITY
  NoFile

VARIABLES
  g_prio,        \* priority -> names, in the order of the walk
  node,          \* name -> [priority, owner, active], of the names in g_prio
  g_active_cnt, g_status,
  files,         \* the open descriptors
  closed         \* those that were closed

scVars == <<g_prio, node, g_active_cnt, g_status, files, closed>>

Priority == 0..(MaxPriority - 1)
NoService == [priority |-> 0, owner |-> NoFile, active |-> FALSE]
Occurs(l, n) == \E i \in DOMAIN l : l[i] = n

\* A walk along a list that unlinks nodes
Kept(l, gone) ==
  LET upto[i \in 0..Len(l)] ==
        IF i = 0 THEN <<>>
        ELSE IF l[i] \in gone THEN upto[i - 1] ELSE Append(upto[i - 1], l[i])
  IN upto
Without(l, gone) == Kept(l, gone)[Len(l)]

ScInit ==
  /\ g_prio = [p \in Priority |-> <<>>] /\ node = [n \in Name |-> NoService]
  /\ g_active_cnt = 0 /\ g_status = "running"
  /\ files = {} /\ closed = {}

node_find(n) == \E p \in Priority : Occurs(g_prio[p], n)

Open(f) ==
  /\ f \notin files \cup closed
  /\ files' = files \cup {f}
  /\ UNCHANGED <<g_prio, node, g_active_cnt, g_status, closed>>

\* A priority out of range, or no memory for a new node, leaves all as it was.
sc_register(f, n, p) ==
  /\ f \in files
  /\ g_prio' =
       IF node_find(n) /\ node[n].priority = p THEN g_prio
       ELSE [q \in Priority |->
               IF q = p THEN Append(Without(g_prio[q], {n}), n)
               ELSE Without(g_prio[q], {n})]
  /\ node' = [node EXCEPT ![n] = [priority |-> p, owner |-> f, active |-> TRUE]]
  /\ g_active_cnt' = IF node_find(n) /\ node[n].active THEN g_active_cnt
                     ELSE g_active_cnt + 1
  /\ UNCHANGED <<g_status, files, closed>>

sc_unregister(f, n) ==
  /\ f \in files /\ node_find(n) /\ node[n].active
  /\ node' = [node EXCEPT ![n].active = FALSE]
  /\ g_active_cnt' = g_active_cnt - 1
  /\ UNCHANGED <<g_prio, g_status, files, closed>>

\* The nodes of gone are unlinked and freed.
Drop(gone) ==
  /\ g_prio' = [p \in Priority |-> Without(g_prio[p], gone)]
  /\ node' = [n \in Name |-> IF n \in gone THEN NoService ELSE node[n]]
  /\ g_active_cnt' = g_active_cnt - Cardinality({n \in gone : node[n].active})

\* EVENT_DONE with EXIT; any other event, and GET, only reads.
EventExit(f, n) ==
  /\ f \in files /\ node_find(n)
  /\ Drop({n})
  /\ UNCHANGED <<g_status, files, closed>>

Suspend(f) ==
  /\ f \in files /\ g_status = "running" /\ g_active_cnt # 0
  /\ g_status' = "suspend"
  /\ UNCHANGED <<g_prio, node, g_active_cnt, files, closed>>

Resume(f) ==
  /\ f \in files /\ g_status = "suspend"
  /\ g_status' = "running"
  /\ UNCHANGED <<g_prio, node, g_active_cnt, files, closed>>

\* The last close of a descriptor, also at the death of its process
ar_sysctl_release(f) ==
  /\ f \in files
  /\ Drop({n \in Name : node_find(n) /\ node[n].owner = f})
  /\ files' = files \ {f} /\ closed' = closed \cup {f}
  /\ UNCHANGED g_status

ScNext ==
  \E f \in ScFile :
    \/ Open(f) \/ Suspend(f) \/ Resume(f) \/ ar_sysctl_release(f)
    \/ \E n \in Name : sc_unregister(f, n) \/ EventExit(f, n)
    \/ \E n \in Name, p \in Priority : sc_register(f, n, p)

ScSpec == ScInit /\ [][ScNext]_scVars

ASSUME ArbiterAssumption ==
  IsFiniteSet(Name) /\ MaxPriority \in Nat \ {0} /\ NoFile \notin ScFile

\* After any history of registrations, unregistrations, exits and closes: the
\* count that SUSPEND asks for is the number of active services, a service is
\* in the bucket of its priority and in no other, once, and none is left of a
\* descriptor that is gone (ar_sysctl.c, sc_register, ar_sysctl_release).
Bookkept ==
  /\ g_active_cnt = Cardinality({n \in Name : node_find(n) /\ node[n].active})
  /\ \A n \in Name, p \in Priority :
       Cardinality({i \in DOMAIN g_prio[p] : g_prio[p][i] = n})
         = (IF node_find(n) /\ node[n].priority = p THEN 1 ELSE 0)
  /\ \A n \in Name : node_find(n) => node[n].owner \in files
===============================================================================
