------------------------------ MODULE MmzHeap ------------------------------
(***************************************************************************)
(* The MMZ allocator of ar_osal.c: one zone of physical pages, its list of *)
(* blocks, the registry of user mappings, and the operations of            *)
(* /dev/mmz_userdev on them.  Every operation runs under ar_mmz_lock, so   *)
(* it is one step; an mmap and IOC_MMB_USER_UNMAP take the lock twice or   *)
(* touch the address space outside it, and are two steps.                  *)
(*                                                                         *)
(* Addresses and sizes are counted in pages.  The kernel mappings of a     *)
(* block (map_kref), which only other modules make, are in MmzZones.       *)
(***************************************************************************)
EXTENDS Naturals, Integers, Sequences, FiniteSets, SequencesExt

CONSTANTS
  Base, Pages,    \* the zone: Pages pages from page Base on
  Sizes, Aligns,  \* what clients ask for, in pages (0 is an empty request)
  Process,        \* the processes that have /dev/mmz_userdev open
  Addr,           \* the user addresses an mmap may return
  MaxRef,         \* bound: hil_mmb_get is taken at most so often
  MaxMaps,        \* bound: user mappings alive at a time
  Fails           \* whether the allocation of a registry entry may fail

ASSUME HeapAssumption ==
  /\ Base \in Nat /\ Pages \in Nat
  /\ Sizes \subseteq Nat /\ Aligns \subseteq Nat

VARIABLES
  mmb_list,       \* zone->mmb_list: the blocks, in list order
  g_user_maps,    \* the registry, newest first: [uvaddr, phys]
  vmas,           \* live user mappings, in any process: [mm, uvaddr, phys]
  half            \* client -> an mmap or unmap that is half way, or Through

memVars == <<mmb_list, g_user_maps, vmas, half>>

Through == [op |-> "none"]
NoFit == -1

(***************************************************************************)
(* The allocator.                                                          *)
(***************************************************************************)

Align(x, a) == ((x + a - 1) \div a) * a

IsPow2(a) == a \in {1, 2, 4, 8, 16}

End(b) == b.phys + b.size

\* The place the gap walk of zone_alloc_locked looks at after i blocks.
GapStart(list, i, a) ==
  IF i = 0 THEN Align(Base, a) ELSE Align(End(list[i]), a)

\* Mutant: the last page of a gap is counted twice.
StopsAtOverlap(list, size, a, i) ==
  /\ i = Len(list) \/ GapStart(list, i, a) + size - 1 =< list[i + 1].phys
  /\ \A j \in 0..(i - 1) :
       GapStart(list, j, a) + size - 1 > list[j + 1].phys

\* The walk stops before block i + 1, or at the end of the list.
StopsAt(list, size, a, i) ==
  /\ i = Len(list) \/ GapStart(list, i, a) + size =< list[i + 1].phys
  /\ \A j \in 0..(i - 1) :
       GapStart(list, j, a) + size > list[j + 1].phys

\* align: 0 stands for one page; a size or an alignment past the zone is
\* refused before the walk.
Acceptable(size, a) ==
  size \in 1..Pages /\ IsPow2(a) /\ a =< Pages

PageAlign(align) == IF align = 0 THEN 1 ELSE align

\* The page zone_alloc_locked gives the request, or NoFit.
FirstFit(list, size, align) ==
  LET a == PageAlign(align)
      i == CHOOSE k \in 0..Len(list) : StopsAt(list, size, a, k)
      cur == GapStart(list, i, a)
  IN  IF Acceptable(size, a) /\ cur + size =< Base + Pages
        THEN cur ELSE NoFit

\* The new block goes before the first block that lies above it.
Inserted(list, b) ==
  LET above == {i \in 1..Len(list) : list[i].phys > b.phys}
      place == IF above = {} THEN Len(list) + 1
               ELSE CHOOSE i \in above : \A j \in above : i =< j
  IN  InsertAt(list, place, b)

NewBlock(phys, size, name) ==
  [phys |-> phys, size |-> size, name |-> name, refcount |-> 1,
   user_kref |-> 0]

hil_mmb_alloc(size, align, name) ==
  LET phys == FirstFit(mmb_list, size, align) IN
  /\ phys # NoFit
  /\ mmb_list' = Inserted(mmb_list, NewBlock(phys, size, name))

\* __getby_phys_2: the index of the block that holds the page.
Holds(b, phys) == phys >= b.phys /\ phys < End(b)

Found(list, phys) == \E i \in 1..Len(list) : Holds(list[i], phys)

BlockAt(list, phys) ==
  CHOOSE i \in 1..Len(list) :
    Holds(list[i], phys) /\ \A j \in 1..(i - 1) : ~Holds(list[j], phys)

Without(list, phys) == RemoveAt(list, BlockAt(list, phys))

(***************************************************************************)
(* The ioctls on blocks.                                                   *)
(***************************************************************************)

\* IOC_MMB_ALLOC
MmbAlloc(c) ==
  /\ half[c] = Through
  /\ \E size \in Sizes, align \in Aligns : hil_mmb_alloc(size, align, c)
  /\ UNCHANGED <<g_user_maps, vmas, half>>

\* A client frees and counts the blocks it allocated.
Owned(c, phys) ==
  /\ Found(mmb_list, phys)
  /\ mmb_list[BlockAt(mmb_list, phys)].name = c

\* IOC_MMB_FREE: refused while the block is mapped
MmbFree(c, phys) ==
  /\ half[c] = Through
  /\ Owned(c, phys)
  /\ mmb_list[BlockAt(mmb_list, phys)].user_kref = 0
  /\ mmb_list' = Without(mmb_list, phys)
  /\ UNCHANGED <<g_user_maps, vmas, half>>

\* 'r' 30
MmbGet(c, phys) ==
  /\ half[c] = Through
  /\ Owned(c, phys)
  /\ LET i == BlockAt(mmb_list, phys) IN
       /\ mmb_list[i].refcount < MaxRef
       /\ mmb_list' = [mmb_list EXCEPT ![i].refcount = @ + 1]
  /\ UNCHANGED <<g_user_maps, vmas, half>>

\* 'r' 31: the last reference frees the block, if it isn't mapped
MmbPut(c, phys) ==
  /\ half[c] = Through
  /\ Owned(c, phys)
  /\ LET i == BlockAt(mmb_list, phys)
         b == mmb_list[i]
     IN  /\ b.refcount >= 0  \* bound: put once more at most
         /\ mmb_list' =
              IF b.refcount - 1 =< 0 /\ b.user_kref = 0
                THEN Without(mmb_list, phys)
                ELSE [mmb_list EXCEPT ![i].refcount = @ - 1]
  /\ UNCHANGED <<g_user_maps, vmas, half>>

(***************************************************************************)
(* User mappings.                                                          *)
(***************************************************************************)

\* ar_mmz_user_map_add: under the lock
user_map_add(uvaddr, phys) ==
  /\ g_user_maps' = <<[uvaddr |-> uvaddr, phys |-> phys]>> \o g_user_maps
  /\ mmb_list' =
       IF Found(mmb_list, phys)
         THEN [mmb_list EXCEPT ![BlockAt(mmb_list, phys)].user_kref = @ + 1]
         ELSE mmb_list

\* ar_mmz_user_map_del: the newest entry with this address goes
Registered(uvaddr) ==
  {i \in 1..Len(g_user_maps) : g_user_maps[i].uvaddr = uvaddr}

user_map_del(uvaddr) ==
  IF Registered(uvaddr) = {}
    THEN UNCHANGED <<g_user_maps, mmb_list>>
    ELSE LET k == CHOOSE i \in Registered(uvaddr) :
                    \A j \in Registered(uvaddr) : i =< j
             phys == g_user_maps[k].phys
         IN  /\ g_user_maps' = RemoveAt(g_user_maps, k)
             /\ mmb_list' =
                  IF /\ Found(mmb_list, phys)
                     /\ mmb_list[BlockAt(mmb_list, phys)].user_kref > 0
                    THEN [mmb_list EXCEPT
                            ![BlockAt(mmb_list, phys)].user_kref = @ - 1]
                    ELSE mmb_list

Free(mm, uvaddr) ==
  /\ \A v \in vmas : v.mm # mm \/ v.uvaddr # uvaddr
  /\ \A c \in Process : half[c].op = "mmap" => half[c].uvaddr # uvaddr

\* ar_mmz_mmap_wc: a page of a block, anyone's, is mapped ...
MmapPages(c, uvaddr, phys) ==
  /\ half[c] = Through
  /\ Cardinality(vmas) < MaxMaps
  /\ Free(c, uvaddr)
  /\ Found(mmb_list, phys)
  /\ vmas' = vmas \cup {[mm |-> c, uvaddr |-> uvaddr, phys |-> phys]}
  /\ half' = [half EXCEPT ![c] =
                [op |-> "mmap", uvaddr |-> uvaddr, phys |-> phys]]
  /\ UNCHANGED <<mmb_list, g_user_maps>>

\* ... and is entered in the registry after it is; a failed allocation of
\* the entry goes unnoticed.
MmapRegister(c) ==
  /\ half[c].op = "mmap"
  /\ \/ user_map_add(half[c].uvaddr, half[c].phys)
     \/ Fails /\ UNCHANGED <<g_user_maps, mmb_list>>
  /\ half' = [half EXCEPT ![c] = Through]
  /\ UNCHANGED vmas

\* mmz_vma_close: one mapping of a process goes, by munmap or at exit
VmaClose(v) ==
  /\ vmas' = vmas \ {v}
  /\ user_map_del(v.uvaddr)

Munmap(c, v) ==
  /\ half[c] = Through
  /\ v.mm = c
  /\ VmaClose(v)
  /\ UNCHANGED half

\* IOC_MMB_USER_UNMAP: vm_munmap closes the mapping ...
UserUnmap(c, v) ==
  /\ half[c] = Through
  /\ v.mm = c
  /\ VmaClose(v)
  /\ half' = [half EXCEPT ![c] = [op |-> "unmap", uvaddr |-> v.uvaddr]]

\* ... and the ioctl then drops the registry entry itself.
UserUnmapDel(c) ==
  /\ half[c].op = "unmap"
  /\ user_map_del(half[c].uvaddr)
  /\ half' = [half EXCEPT ![c] = Through]
  /\ UNCHANGED vmas

(***************************************************************************)
(* A fork copies the mappings: the area has no open callback, so nothing   *)
(* is registered for the copy.  The child's mappings are closed one by one *)
(* when it exits or executes another program.                              *)
(***************************************************************************)
Child == "child"

Fork(c) ==
  /\ half[c] = Through
  /\ \A v \in vmas : v.mm # Child
  /\ \E v \in vmas : v.mm = c
  /\ vmas' = vmas \cup {[v EXCEPT !.mm = Child] : v \in {w \in vmas : w.mm = c}}
  /\ UNCHANGED <<mmb_list, g_user_maps, half>>

ChildExits(v) ==
  /\ v.mm = Child
  /\ VmaClose(v)
  /\ UNCHANGED half

MemInit ==
  /\ mmb_list = <<>> /\ g_user_maps = <<>>
  /\ vmas = {} /\ half = [c \in Process |-> Through]

MemNext ==
  \/ \E c \in Process :
       \/ MmbAlloc(c) \/ MmapRegister(c) \/ UserUnmapDel(c) \/ Fork(c)
       \/ \E i \in 1..Len(mmb_list) :
            \/ MmbFree(c, mmb_list[i].phys)
            \/ MmbGet(c, mmb_list[i].phys)
            \/ MmbPut(c, mmb_list[i].phys)
       \/ \E uvaddr \in Addr, phys \in Base..(Base + Pages - 1) :
            MmapPages(c, uvaddr, phys)
       \/ \E v \in vmas : Munmap(c, v) \/ UserUnmap(c, v)
  \/ \E v \in vmas : ChildExits(v)

(***************************************************************************)
(* Properties.                                                             *)
(***************************************************************************)

\* Blocks lie in the zone and the list is in address order, so no two
\* blocks share a page.
BlocksApart ==
  /\ \A i \in 1..Len(mmb_list) :
       mmb_list[i].phys >= Base /\ End(mmb_list[i]) =< Base + Pages
  /\ \A i, j \in 1..Len(mmb_list) :
       i < j => End(mmb_list[i]) =< mmb_list[j].phys

\* What the gap walk must find: an aligned range no block touches.
RangeFree(size, a) ==
  \E p \in Base..(Base + Pages - size) :
    /\ p % a = 0
    /\ \A i \in 1..Len(mmb_list) :
         p + size =< mmb_list[i].phys \/ p >= End(mmb_list[i])

\* zone_alloc_locked refuses a request only when no aligned range is free.
FirstFitComplete ==
  \A size \in 1..Pages, a \in {1, 2, 4} :
    a =< Pages => ((FirstFit(mmb_list, size, a) = NoFit) <=> ~RangeFree(size, a))

\* A block is pinned by registered mappings only: once they are closed, it
\* can be freed (the leak ar_sys_vma_close is there to prevent).
PinnedByMaps ==
  \A i \in 1..Len(mmb_list) :
    mmb_list[i].user_kref =<
      Cardinality({k \in 1..Len(g_user_maps) :
                     Holds(mmb_list[i], g_user_maps[k].phys)})

\* The comment on the registry: a block that is still user-mapped has
\* user_kref > 0.
MappedIsPinned ==
  \A v \in vmas, i \in 1..Len(mmb_list) :
    /\ Holds(mmb_list[i], v.phys)
    /\ \A c \in Process : half[c] = Through
    => mmb_list[i].user_kref > 0
=============================================================================
