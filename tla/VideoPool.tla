----------------------------- MODULE VideoPool -----------------------------
(***************************************************************************)
(* The video buffer pools of ar_vb.c, which carve their memory from the    *)
(* MMZ zone: g_pools, the ioctls of /dev/ar_vb, each one step under        *)
(* g_vb_lock, and the self-test block.  A handle is a pool and an index    *)
(* into it; the blocks of a pool are free or handed out.                   *)
(***************************************************************************)
EXTENDS MmzHeap

CONSTANTS
  PoolId,    \* g_pools: 0..MAX_POOLS - 1
  BlkSizes,  \* the block sizes asked for, in pages
  BlkCnts    \* the block counts asked for

ASSUME PoolAssumption ==
  /\ PoolId \subseteq Nat /\ BlkSizes \subseteq Nat /\ BlkCnts \subseteq Nat

VARIABLES g_pools, test

vbVars == <<g_pools, test>>

Unused == [used |-> FALSE]

SelfTest == -2  \* the name of the self-test's block

\* A block's name tells who allocated it.
ASSUME NameAssumption == Process \cap (PoolId \cup {SelfTest}) = {}

\* hil_mmb_free of the block that was allocated at phys
hil_mmb_free(phys) == mmb_list' = Without(mmb_list, phys)

\* VB_CRTPL takes the first unused slot; the bitmap may be refused, and the
\* block is then given back.
vb_crtpl(size, cnt) ==
  /\ size > 0 /\ cnt > 0
  /\ \E p \in PoolId :
       /\ ~g_pools[p].used
       /\ \A q \in PoolId : q < p => g_pools[q].used
       /\ hil_mmb_alloc(size * cnt, 1, p)
       /\ g_pools' = [g_pools EXCEPT ![p] =
            [used |-> TRUE, base |-> FirstFit(mmb_list, size * cnt, 1),
             blk_size |-> size, blk_cnt |-> cnt,
             free_map |-> 0..(cnt - 1)]]
  /\ UNCHANGED <<g_user_maps, vmas, half, test>>

\* VB_DESTPL: the memory goes back whatever is handed out or mapped.
vb_destpl(p) ==
  /\ g_pools[p].used
  /\ hil_mmb_free(g_pools[p].base)
  /\ g_pools' = [g_pools EXCEPT ![p] = Unused]
  /\ UNCHANGED <<g_user_maps, vmas, half, test>>

\* VB_GETBLK from pool p, or from the first with a free block large enough
Fits(p, size) == g_pools[p].used /\ size =< g_pools[p].blk_size

First(S) == CHOOSE n \in S : \A m \in S : n =< m

TakeFrom(p) ==
  /\ g_pools[p].free_map # {}
  /\ g_pools' = [g_pools EXCEPT
                   ![p].free_map = @ \ {First(@)}]

vb_getblk(size) ==
  /\ \/ \E p \in PoolId : Fits(p, size) /\ TakeFrom(p)
     \/ LET able == {p \in PoolId : Fits(p, size) /\ g_pools[p].free_map # {}}
        IN  able # {} /\ TakeFrom(First(able))
  /\ UNCHANGED <<mmb_list, g_user_maps, vmas, half, test>>

\* VB_RLSBLK: any index of the pool, handed out or not
vb_rlsblk(p, idx) ==
  /\ g_pools[p].used
  /\ idx < g_pools[p].blk_cnt
  /\ g_pools' = [g_pools EXCEPT ![p].free_map = @ \cup {idx}]
  /\ UNCHANGED <<mmb_list, g_user_maps, vmas, half, test>>

\* VB_HL2PA and VB_PA2HL
hl2pa(p, idx) == g_pools[p].base + idx * g_pools[p].blk_size

PoolEnd(p) == g_pools[p].base + g_pools[p].blk_size * g_pools[p].blk_cnt

pool_by_phys(phys) ==
  LET holding == {p \in PoolId : g_pools[p].used
                    /\ phys >= g_pools[p].base /\ phys < PoolEnd(p)}
  IN  IF holding = {} THEN NoFit ELSE First(holding)

pa2hl(phys) ==
  LET p == pool_by_phys(phys) IN
  <<p, (phys - g_pools[p].base) \div g_pools[p].blk_size>>

\* The self-test ioctls: a second allocation forgets the first block, and so
\* does one that fails.
TestAlloc ==
  /\ \/ hil_mmb_alloc(1, 1, SelfTest) /\ test' = FirstFit(mmb_list, 1, 1)
     \/ UNCHANGED mmb_list /\ test' = NoFit
  /\ UNCHANGED <<g_user_maps, vmas, half, g_pools>>

TestFree ==
  /\ test # NoFit
  /\ hil_mmb_free(test)
  /\ test' = NoFit
  /\ UNCHANGED <<g_user_maps, vmas, half, g_pools>>

PoolInit ==
  /\ MemInit
  /\ g_pools = [p \in PoolId |-> Unused] /\ test = NoFit

VbIoctl ==
  \/ \E size \in BlkSizes, cnt \in BlkCnts : vb_crtpl(size, cnt)
  \/ \E size \in BlkSizes : vb_getblk(size)
  \/ \E p \in PoolId :
       \/ vb_destpl(p)
       \/ \E idx \in 0..3 : vb_rlsblk(p, idx)
  \/ TestAlloc \/ TestFree

PoolNext == (MemNext /\ UNCHANGED vbVars) \/ VbIoctl

PoolSpec == PoolInit /\ [][PoolNext]_<<memVars, vbVars>>

(***************************************************************************)
(* Properties.                                                             *)
(***************************************************************************)

\* A pool in use has its block in the zone, and the block covers the pool.
PoolBacked ==
  \A p \in PoolId :
    g_pools[p].used =>
      \E i \in 1..Len(mmb_list) :
        /\ mmb_list[i].name = p
        /\ mmb_list[i].phys = g_pools[p].base
        /\ End(mmb_list[i]) >= PoolEnd(p)

\* The memory behind two handles is disjoint, whatever pools were created
\* and destroyed before, and a physical address leads back to its handle.
HandlesApart ==
  /\ BlocksApart /\ PoolBacked
  /\ \A p, q \in {r \in PoolId : g_pools[r].used} :
       \A i \in 0..(g_pools[p].blk_cnt - 1),
          j \in 0..(g_pools[q].blk_cnt - 1) :
         /\ <<p, i>> # <<q, j>> =>
              \/ hl2pa(p, i) + g_pools[p].blk_size =< hl2pa(q, j)
              \/ hl2pa(q, j) + g_pools[q].blk_size =< hl2pa(p, i)
         /\ pa2hl(hl2pa(p, i)) = <<p, i>>

\* What the zone owes its users: memory is given out once, a request that fits is
\* served, and nothing pins a block but a registered mapping.
HeapSound == HandlesApart /\ FirstFitComplete /\ PinnedByMaps
=============================================================================
