------------------------------ MODULE IspFrame ------------------------------
(***************************************************************************)
(* The double buffers of the ISP driver (ar-isp-main.c, ar-isp-tables.c).  *)
(*                                                                         *)
(* Statistics: the interrupt of each frame points the engines at the other *)
(* half and names the one just written; a reader copies the named half     *)
(* without a lock, between two reads of the flip count.  Configuring the   *)
(* block, and arming its output, reset the indices.                        *)
(*                                                                         *)
(* Local tone mapping: a page is filled in the half the descriptor does    *)
(* not name, then the descriptor is moved to it.                           *)
(***************************************************************************)
EXTENDS Naturals

CONSTANTS
  MaxFlips,  \* bound: frames
  Overlap    \* the block is configured anew while it runs, or while a page
             \* is fed

ASSUME FlipsAssumption == MaxFlips \in Nat

VARIABLES
  stats,     \* [cur, done, valid, flips], as in struct ar_isp
  stats_hw,  \* the half the engines are armed with
  partial,   \* halves that hold less than a whole frame
  irq_at,    \* the interrupt's next step, in stats_lock
  reader,    \* [at, seq, rro, hist, torn]
  conf_at,   \* the next step of a configuration
  page_half, \* ltm_page_half
  page_desc, \* the half the descriptor names, or Vendor's page
  page_seen, \* what stats_publish read of ltm_page_half
  feeding,   \* the halves being filled by a feed, by a configuration
  live       \* the interrupt line is requested: the block runs

ispVars == <<stats, stats_hw, partial, irq_at, reader, conf_at, page_half,
             page_desc, page_seen, feeding, live>>
ltmVars == <<page_half, page_desc, page_seen, feeding>>

Halves == {0, 1}
Vendor == 2

Other(h) == 1 - h

\* Mutant: the engines stay on the half they have just filled.
NextHalfSame == stats.cur

NextHalf == Other(stats.cur)

\* Mutant: a page is fed into the half being fetched.
IdleHalfFetched == page_half

IdleHalf == Other(page_half)

StatsLockFree == irq_at = "none" /\ conf_at \notin {"valid", "arm"}

NoReader == [at |-> "none", seq |-> 0, rro |-> 0, hist |-> 0, torn |-> FALSE]

(***************************************************************************)
(* The engines, and the frame's interrupt.                                 *)
(***************************************************************************)

\* A frame being taken spoils the half armed.  The interrupt that ended the
\* one before it has long returned.
HwWrites ==
  /\ live /\ irq_at = "none"
  /\ partial' = partial \cup {stats_hw}
  /\ UNCHANGED <<stats, stats_hw, irq_at, reader, conf_at, ltmVars, live>>

\* The frame ends: the other half is armed first ...
FlipArms ==
  /\ live /\ StatsLockFree
  /\ stats.flips < MaxFlips
  /\ partial' = partial \ {stats_hw}
  /\ stats_hw' = NextHalf
  /\ irq_at' = "done"
  /\ UNCHANGED <<stats, reader, conf_at, ltmVars, live>>

\* ... then the one just written is named, and the flip counted last.
FlipNames ==
  /\ irq_at = "done"
  /\ stats' = [stats EXCEPT !.done = stats.cur]
  /\ irq_at' = "valid"
  /\ UNCHANGED <<stats_hw, partial, reader, conf_at, ltmVars, live>>

FlipCounts ==
  /\ irq_at = "valid"
  /\ stats' = [stats EXCEPT !.cur = Other(@), !.valid = TRUE, !.flips = @ + 1]
  /\ irq_at' = "none"
  /\ UNCHANGED <<stats_hw, partial, reader, conf_at, ltmVars, live>>

(***************************************************************************)
(* ar_isp_stats_raw_show.                                                  *)
(***************************************************************************)

ReadSeq ==
  /\ reader.at = "none"
  /\ reader' = [NoReader EXCEPT !.at = "rro", !.seq = stats.flips]
  /\ UNCHANGED <<stats, stats_hw, partial, irq_at, conf_at, ltmVars, live>>

\* ar_isp_stats_ready, for each of the two buffers: valid is read before done
PickRro ==
  /\ reader.at = "rro"
  /\ reader' = IF stats.valid
                 THEN [reader EXCEPT !.at = "hist", !.rro = stats.done]
                 ELSE NoReader
  /\ UNCHANGED <<stats, stats_hw, partial, irq_at, conf_at, ltmVars, live>>

PickHist ==
  /\ reader.at = "hist"
  /\ reader' = IF stats.valid
                 THEN [reader EXCEPT !.at = "copy", !.hist = stats.done]
                 ELSE NoReader
  /\ UNCHANGED <<stats, stats_hw, partial, irq_at, conf_at, ltmVars, live>>

Copy(at, half, next) ==
  /\ reader.at = at
  /\ reader' = [reader EXCEPT !.at = next, !.torn = @ \/ half \in partial]
  /\ UNCHANGED <<stats, stats_hw, partial, irq_at, conf_at, ltmVars, live>>

\* An interrupt that flips the halves, a few writes, is over before a copy
\* of several kilobytes is.
CopyRro == irq_at = "none" /\ Copy("copy", reader.rro, "copy2")
CopyHist == irq_at = "none" /\ Copy("copy2", reader.hist, "seq")

\* The second word differs: the reader starts over.
ReadSeqAgain ==
  /\ reader.at = "seq"
  /\ reader' = IF stats.flips = reader.seq
                 THEN [reader EXCEPT !.at = "got"] ELSE NoReader
  /\ UNCHANGED <<stats, stats_hw, partial, irq_at, conf_at, ltmVars, live>>

ReaderUses ==
  /\ reader.at = "got"
  /\ reader' = NoReader
  /\ UNCHANGED <<stats, stats_hw, partial, irq_at, conf_at, ltmVars, live>>

(***************************************************************************)
(* ar_isp_pipeline_start: the tables are filled and published, the output  *)
(* armed with the statistics published again, and the line requested.      *)
(***************************************************************************)

\* ar_isp_fill_ltm writes both halves, with no lock held.
ConfFills ==
  /\ conf_at = "none"
  /\ ~live \/ Overlap
  /\ page_desc = Vendor \/ Overlap
  /\ feeding' = [feeding EXCEPT !.conf = Halves]
  /\ conf_at' = "filled"
  /\ UNCHANGED <<stats, stats_hw, partial, irq_at, reader, page_half,
                 page_desc, page_seen, live>>

\* ar_isp_stats_publish, under stats_lock: cur and done, then valid, then
\* the address.  Both publications are this one.
PublishResets(from) ==
  /\ conf_at = from /\ StatsLockFree
  /\ stats' = [stats EXCEPT !.cur = 0, !.done = 0]
  /\ feeding' = [feeding EXCEPT !.conf = {}]
  /\ conf_at' = "valid"
  /\ UNCHANGED <<stats_hw, partial, irq_at, reader, page_half, page_desc,
                 page_seen, live>>

PublishInvalid ==
  /\ conf_at = "valid"
  /\ stats' = [stats EXCEPT !.valid = FALSE]
  /\ conf_at' = "arm"
  /\ UNCHANGED <<stats_hw, partial, irq_at, reader, ltmVars, live>>

PublishArms ==
  /\ conf_at = "arm"
  /\ stats_hw' = 0
  /\ conf_at' = "half"
  /\ UNCHANGED <<stats, partial, irq_at, reader, ltmVars, live>>

\* The tone-mapping descriptor after it, under no lock: ltm_page_half is
\* read ...
PublishReads ==
  /\ conf_at = "half"
  /\ page_seen' = page_half
  /\ conf_at' = "desc"
  /\ UNCHANGED <<stats, stats_hw, partial, irq_at, reader, page_half,
                 page_desc, feeding, live>>

\* ... and the descriptor written.
PublishDesc ==
  /\ conf_at = "desc"
  /\ page_desc' = page_seen
  /\ conf_at' = "output"
  /\ UNCHANGED <<stats, stats_hw, partial, irq_at, reader, page_half,
                 page_seen, feeding, live>>

\* The line is requested once.
OutputArmed ==
  /\ conf_at = "output"
  /\ live' = TRUE
  /\ conf_at' = "none"
  /\ UNCHANGED <<stats, stats_hw, partial, irq_at, reader, ltmVars>>

(***************************************************************************)
(* ar_isp_ltm_page_publish, under ltm_lock, from the close of a feed that  *)
(* is a whole page.                                                        *)
(***************************************************************************)

FeedFills ==
  /\ feeding.feed = {}
  /\ (live /\ conf_at = "none") \/ Overlap
  /\ feeding' = [feeding EXCEPT !.feed = {IdleHalf}]
  /\ UNCHANGED <<stats, stats_hw, partial, irq_at, reader, conf_at,
                 page_half, page_desc, page_seen, live>>

FeedPublishes ==
  /\ feeding.feed # {}
  /\ page_desc' = IdleHalf
  /\ page_half' = IdleHalf
  /\ feeding' = [feeding EXCEPT !.feed = {}]
  /\ UNCHANGED <<stats, stats_hw, partial, irq_at, reader, conf_at,
                 page_seen, live>>

IspInit ==
  /\ stats = [cur |-> 0, done |-> 0, valid |-> FALSE, flips |-> 0]
  /\ stats_hw = 0 /\ partial = Halves /\ irq_at = "none"
  /\ reader = NoReader
  /\ conf_at = "none" /\ page_half = 0 /\ page_desc = Vendor
  /\ page_seen = 0 /\ feeding = [feed |-> {}, conf |-> {}]
  /\ live = FALSE

IspNext ==
  \/ HwWrites \/ FlipArms \/ FlipNames \/ FlipCounts
  \/ ReadSeq \/ PickRro \/ PickHist \/ CopyRro \/ CopyHist \/ ReadSeqAgain
  \/ ReaderUses
  \/ ConfFills \/ PublishResets("filled") \/ PublishResets("output")
  \/ PublishInvalid \/ PublishArms \/ PublishReads \/ PublishDesc
  \/ OutputArmed \/ FeedFills \/ FeedPublishes

IspSpec == IspInit /\ [][IspNext]_ispVars

(***************************************************************************)
(* Properties.                                                             *)
(***************************************************************************)

\* Two equal sequence words make the copy between them good: each half is
\* of a whole frame, and both are of the same one.
StatsCoherent ==
  reader.at = "got" => ~reader.torn /\ reader.rro = reader.hist

\* The half the descriptor names is never the one being written.
FetchedHalfStable ==
  live => page_desc \notin feeding.feed \cup feeding.conf
=============================================================================
