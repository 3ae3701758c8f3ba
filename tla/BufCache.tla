------------------------------ MODULE BufCache ------------------------------
(***************************************************************************)
(* The mapping cache of ml_dmabuf_map.h and the two drivers that use it:   *)
(* ar_scaler.c and ml_dmablit.c.  A call resolves the dma-buf descriptors  *)
(* of its operations one after the other, each to a mapping of the         *)
(* client's cache, and then runs the engine on the addresses it got.  The  *)
(* client's lock is held from the first lookup to the end of the run.      *)
(*                                                                         *)
(* A cache is the sequence of its entries, least recently stamped first.   *)
(***************************************************************************)
EXTENDS Naturals, SequencesExt

CONSTANTS
  Client,    \* open descriptors of the device node
  Buf,       \* dma-bufs
  Entries,   \* ML_BUFCACHE_ENTRIES
  BatchMax   \* SCALER_DMABUF_BATCH_MAX: operations in a call

\* The static_assert of ar_scaler.c
ASSUME CacheHoldsBatch ==
  Entries \in Nat /\ BatchMax \in Nat \ {0} /\ 2 * BatchMax < Entries

VARIABLES
  cache,     \* client -> its entries, [buf, dir]
  want,      \* client -> the lookups of its call still to do
  resolved,  \* client -> the lookups whose addresses it holds
  serving,   \* client -> "idle", "lookup", "ready" or "run"
  open       \* clients whose descriptor is open

bufVars == <<cache, want, resolved, serving, open>>

Dir == {"to", "from", "both"}
Lookup == [buf : Buf, dir : Dir]

\* A scaler operation reads one buffer and writes another, or the same.
Pair(src, dst) == <<[buf |-> src, dir |-> "to"], [buf |-> dst, dir |-> "from"]>>

\* What a call looks up, at most two buffers for each operation.  The first
\* lookup of a copy batch is its destination, mapped both ways.
Copies(dst, src) == <<[buf |-> dst, dir |-> "both"],
                      [buf |-> src, dir |-> "to"]>>

\* Cache maintenance looks the buffer up the way copies map a destination.
Maintain(b) == <<[buf |-> b, dir |-> "both"]>>

\* The lookups of a call on some of three buffers.
Calls(s, d, e) ==
  {Pair(s, d), Copies(d, s), Maintain(d), Pair(s, d) \o Pair(d, e)}

\* The cache already maps buffer b.
Held(c, b) == {i \in DOMAIN cache[c] : cache[c][i].buf = b}
Serves(dir, asked) == dir = asked \/ dir = "both"

\* The entry joins the resolved ones, and becomes the newest.
Stamp(c, i, dir) ==
  cache' = [cache EXCEPT
              ![c] = Append(RemoveAt(@, i), [buf |-> @[i].buf, dir |-> dir])]

Drop(c, i) == cache' = [cache EXCEPT ![c] = RemoveAt(@, i)]

Resolved(c) ==
  /\ resolved' = [resolved EXCEPT ![c] = @ \cup {Head(want[c])}]
  /\ want' = [want EXCEPT ![c] = Tail(@)]
  /\ serving' = [serving EXCEPT
                   ![c] = IF Len(want[c]) = 1 THEN "ready" ELSE "lookup"]

Finish(c) ==
  /\ want' = [want EXCEPT ![c] = <<>>]
  /\ resolved' = [resolved EXCEPT ![c] = {}]
  /\ serving' = [serving EXCEPT ![c] = "idle"]

(***************************************************************************)
(* The calls.                                                              *)
(***************************************************************************)

Begin(c) ==
  /\ c \in open /\ serving[c] = "idle"
  /\ \E s, d, e \in Buf : \E call \in Calls(s, d, e) :
       /\ Len(call) =< 2 * BatchMax
       /\ want' = [want EXCEPT ![c] = call]
  /\ serving' = [serving EXCEPT ![c] = "lookup"]
  /\ UNCHANGED <<cache, resolved, open>>

\* A cached mapping that serves the direction is stamped.
Hit(c) ==
  /\ serving[c] = "lookup"
  /\ \E i \in Held(c, Head(want[c]).buf) :
       /\ Serves(cache[c][i].dir, Head(want[c]).dir)
       /\ Stamp(c, i, cache[c][i].dir)
  /\ Resolved(c)
  /\ UNCHANGED open

\* One that does not is unmapped and mapped both ways; the mapping may fail.
Remap(c) ==
  /\ serving[c] = "lookup"
  /\ \E i \in Held(c, Head(want[c]).buf) :
       /\ ~Serves(cache[c][i].dir, Head(want[c]).dir)
       /\ \/ Stamp(c, i, "both") /\ Resolved(c)
          \/ Drop(c, i) /\ Finish(c)
  /\ UNCHANGED open

\* Mutant: the entry stamped last makes room.
RoomNewest(c) == IF Len(cache[c]) = Entries THEN Front(cache[c]) ELSE cache[c]

\* A buffer not cached takes a free entry or the one stamped first, which is
\* unmapped before the new mapping is tried.
Room(c) == IF Len(cache[c]) = Entries THEN Tail(cache[c]) ELSE cache[c]

Miss(c) ==
  /\ serving[c] = "lookup"
  /\ Held(c, Head(want[c]).buf) = {}
  /\ \/ /\ cache' = [cache EXCEPT ![c] = Append(Room(c), Head(want[c]))]
        /\ Resolved(c)
     \/ /\ cache' = [cache EXCEPT ![c] = Room(c)]
        /\ Finish(c)
  /\ UNCHANGED open

\* dma_buf_get refuses the descriptor, or an operation is malformed
\* (-EINVAL, -ERANGE): the entries made so far stay.
Refuse(c) ==
  /\ serving[c] \in {"lookup", "ready"}
  /\ Finish(c)
  /\ UNCHANGED <<cache, open>>

\* ar_scaler_run, the submission of the batch, or the maintenance of the
\* range: the addresses are put to use ...
Run(c) ==
  /\ serving[c] = "ready"
  /\ serving' = [serving EXCEPT ![c] = "run"]
  /\ UNCHANGED <<cache, want, resolved, open>>

\* ... and has stopped when it returns, whether the batch completed or timed
\* out and was reset.
RunReturns(c) ==
  /\ serving[c] = "run"
  /\ Finish(c)
  /\ UNCHANGED <<cache, open>>

OpenFd(c) ==
  /\ c \notin open
  /\ open' = open \cup {c}
  /\ cache' = [cache EXCEPT ![c] = <<>>]
  /\ UNCHANGED <<want, resolved, serving>>

\* The last reference to the file goes once no ioctl is under way on it.
\* Every cached mapping is dropped.
Release(c) ==
  /\ c \in open /\ serving[c] = "idle"
  /\ open' = open \ {c}
  /\ cache' = [cache EXCEPT ![c] = <<>>]
  /\ UNCHANGED <<want, resolved, serving>>

BufInit ==
  /\ cache = [c \in Client |-> <<>>]
  /\ want = [c \in Client |-> <<>>]
  /\ resolved = [c \in Client |-> {}]
  /\ serving = [c \in Client |-> "idle"]
  /\ open = {}

BufNext ==
  \E c \in Client :
    \/ OpenFd(c) \/ Release(c)
    \/ Begin(c) \/ Hit(c) \/ Remap(c) \/ Miss(c) \/ Refuse(c)
    \/ Run(c) \/ RunReturns(c)

BufSpec == BufInit /\ [][BufNext]_bufVars

(***************************************************************************)
(* Properties.                                                             *)
(***************************************************************************)

\* The engine reads and writes only buffers that are still mapped, each in a
\* direction that serves every use the call makes of it: no later lookup of
\* the call has evicted an earlier one or remapped it the other way only.
EnginePinned ==
  \A c \in Client :
    serving[c] = "run" =>
      \A r \in resolved[c] :
        \E i \in DOMAIN cache[c] :
          cache[c][i].buf = r.buf /\ Serves(cache[c][i].dir, r.dir)
================================================================================
