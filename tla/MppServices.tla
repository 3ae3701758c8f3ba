------------------------------ MODULE MppServices ------------------------------
(***************************************************************************)
(* The services below /dev that the media daemon has besides the engines'  *)
(* interrupts: messages (UmapShuttle), suspend arbitration (SysctlArbiter) *)
(* and, here, the time base of /dev/ar_sys.  They share nothing but the    *)
(* processes that use them, so at the end they are put side by side.       *)
(*                                                                         *)
(* A presentation time stamp is the base userspace supplied plus the time  *)
(* since, taken from a clock that is not allowed to go backwards (ar_sys.c);*)
(* the values are unsigned and wrap.  Every ioctl runs under g_sys_lock.   *)
(* clock is sched_clock() in microseconds, which may step back; raw is     *)
(* ktime_get_raw_ns().                                                     *)
(***************************************************************************)
EXTENDS Integers, UmapShuttle, SysctlArbiter

CONSTANTS
  Wrap,      \* 2^64, in small
  Ratio,     \* nanoseconds in a microsecond
  Bases,     \* the bases userspace sets
  Steps,     \* what sched_clock advances by, negative ones included
  MaxReads   \* bound: ioctls issued

VARIABLES
  clock, raw,
  local_last,          \* last, the static of get_local_cur_pts
  pts_base_val, pts_base_pts, pts_last_returned, pts_wall_offset,
  raw_base,            \* raw at the anchor
  handed,              \* the stamps handed out: [from, to] of the last two
  ticks                \* ioctls so far

tbVars == <<clock, raw, local_last, pts_base_val, pts_base_pts,
            pts_last_returned, pts_wall_offset, raw_base, handed, ticks>>

U64(n) == n % Wrap
Later(a, b) == IF a < b THEN b ELSE a

TbInit ==
  /\ clock = 0 /\ raw = 0 /\ raw_base = 0 /\ local_last = 0
  /\ pts_base_val = 0 /\ pts_base_pts = 0 /\ pts_last_returned = 0
  /\ pts_wall_offset = 0 /\ handed = [from |-> 0, to |-> 0] /\ ticks = 0

\* Time passes: the raw clock is steady, sched_clock is not.
Elapse(s) ==
  /\ ticks < MaxReads /\ clock + s >= 0
  /\ clock' = clock + s /\ raw' = raw + Ratio /\ ticks' = ticks + 1
  /\ UNCHANGED <<local_last, pts_base_val, pts_base_pts, pts_last_returned,
                 pts_wall_offset, raw_base, handed>>

get_local_cur_pts == Later(local_last, clock)

\* init_pts_base and sync_pts do the same.
Anchor(base) ==
  /\ ticks < MaxReads /\ ticks' = ticks + 1
  /\ pts_base_val' = base
  /\ pts_base_pts' = get_local_cur_pts /\ local_last' = get_local_cur_pts
  /\ pts_wall_offset' = U64(base * Ratio - raw) /\ raw_base' = raw
  /\ UNCHANGED <<clock, raw, pts_last_returned, handed>>

\* get_cur_pts; a failed copy to the caller has still taken the stamp.
GetCurPts ==
  /\ ticks < MaxReads /\ ticks' = ticks + 1
  /\ local_last' = get_local_cur_pts
  /\ LET pts == U64(U64(pts_base_val - pts_base_pts) + get_local_cur_pts)
     IN pts_last_returned' = Later(pts_last_returned, pts)
  /\ handed' = [from |-> handed.to, to |-> pts_last_returned']
  /\ UNCHANGED <<clock, raw, pts_base_val, pts_base_pts, pts_wall_offset, raw_base>>

TbNext ==
  \/ \E s \in Steps : Elapse(s)
  \/ \E b \in Bases : Anchor(b)
  \/ GetCurPts

TbSpec == TbInit /\ [][TbNext]_tbVars

ASSUME TimeAssumption ==
  Wrap \in Nat \ {0} /\ Ratio \in Nat /\ Bases \subseteq Nat /\ Steps \subseteq Int

\* The stamps handed out never decrease, whatever base is set and whatever
\* sched_clock does; the one the next call would compute is not before the
\* base it is anchored at, unless it wraps; and the offset turns the raw clock
\* into the base plus the time since the anchor (ar_sys.c, handle_p).
StampsForward ==
  /\ handed.from =< handed.to
  /\ LET since == get_local_cur_pts - pts_base_pts
     IN /\ since >= 0
        /\ U64(U64(pts_base_val - pts_base_pts) + get_local_cur_pts)
             = U64(pts_base_val + since)
  /\ U64(raw + pts_wall_offset) = U64(pts_base_val * Ratio + raw - raw_base)

(***************************************************************************)
(* The three together.                                                     *)
(***************************************************************************)
svcVars == <<umapVars, scVars, tbVars>>

SvcInit == UmInit /\ ScInit /\ TbInit

SvcNext ==
  \/ UmNext /\ UNCHANGED <<scVars, tbVars>>
  \/ ScNext /\ UNCHANGED <<umapVars, tbVars>>
  \/ TbNext /\ UNCHANGED <<umapVars, scVars>>

SvcSpec == SvcInit /\ [][SvcNext]_svcVars

\* No write is lost to the daemon or told twice and no ioctl is left with an entry
\* that was closed, the counts of the registered services are exact, and time stamps
\* do not go back (ar_mpp_proc_ctrl.c, ar_sysctl.c, ar_sys.c).
ServicesHonest == WritesReported /\ EntriesAlive /\ Bookkept /\ StampsForward
===============================================================================
