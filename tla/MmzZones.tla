------------------------------- MODULE MmzZones -------------------------------
(***************************************************************************)
(* The zones of ar_osal.c: how they come from the module parameter, the    *)
(* device tree or the built-in default, how an address leads to its block, *)
(* and how other modules map blocks into the kernel by address.  MmzHeap   *)
(* is about one zone and its users; this is about the list of zones, the   *)
(* kernel mappings (map_kref), and what is left when the module goes.      *)
(*                                                                         *)
(* Each zone allocates from its own list, and a lookup by address walks    *)
(* the zones in the order of their creation: nothing keeps two zones of    *)
(* the mmz= parameter from covering the same pages.                        *)
(***************************************************************************)
EXTENDS Integers, Sequences, FiniteSets, FiniteSetsExt, Functions

CONSTANTS
  Params,      \* the values of mmz=: sequences of [name, start, size]; a
               \* field that does not parse is 0
  DtNodes,     \* what the device tree may hold: NoZone or [start, size]
  Default,     \* DEF_ANON_BASE and DEF_ANON_SIZE, as [start, size]
  ZoneNames,   \* the names asked for, "" included
  BlockSizes,  \* in pages
  Page,        \* the pages of memory
  NoZone,
  Mapping,     \* the mappings that other modules may hold at a time
  NoPage,
  MaxKref      \* bound: the mappings a block counts, which aliased zones leak

VARIABLES
  phase,     \* "parse" -> "anon" -> "register" -> "ready" -> "gone"
  mmz, dt,   \* the tuples still to be parsed; the node of the device tree
  g_zone_list,  \* [name, base, size, blocks]; blocks: [phys, size, kvirt, map_kref]
  remaps,    \* page -> the live memremaps that begin there
  held,      \* mapping -> the page it was asked for, or NoPage
  aliased    \* two zones were made of the same pages

zoneVars == <<phase, mmz, dt, g_zone_list, remaps, held, aliased>>

ZInit ==
  /\ phase = "parse" /\ mmz \in Params /\ dt \in DtNodes
  /\ remaps = [p \in Page |-> 0] /\ held = [m \in Mapping |-> NoPage]
  /\ g_zone_list = <<>> /\ aliased = FALSE

\* hil_mmz_create; a failed allocation is the caller's to handle.
hil_mmz_create(name, start, size) ==
  /\ g_zone_list' = IF size = 0 THEN g_zone_list
       ELSE Append(g_zone_list, [name |-> name, base |-> start, size |-> size,
                                 blocks |-> {}])
  /\ aliased' = (aliased \/ \E i \in DOMAIN g_zone_list :
                   /\ g_zone_list[i].base < start + size
                   /\ start < g_zone_list[i].base + g_zone_list[i].size)

Named(name) == {i \in DOMAIN g_zone_list : g_zone_list[i].name = name}

\* zone_find_by_name: no name is the anonymous zone, or the first one
zone_find_by_name(name) ==
  LET want == IF name = "" THEN Named("anonymous") ELSE Named(name)
      all  == IF want = {} /\ name = "" THEN DOMAIN g_zone_list ELSE want
  IN IF all = {} THEN 0 ELSE Min(all)

\* parse_mmz_param: one tuple; without a size it makes no zone.
ParseTuple ==
  /\ phase = "parse" /\ mmz # <<>>
  /\ hil_mmz_create(Head(mmz).name, Head(mmz).start, Head(mmz).size)
  /\ mmz' = Tail(mmz)
  /\ UNCHANGED <<phase, dt, remaps, held>>

Parsed ==
  /\ phase = "parse" /\ mmz = <<>>
  /\ phase' = "anon"
  /\ UNCHANGED <<mmz, dt, g_zone_list, remaps, held, aliased>>

\* The anonymous zone, unless the parameter made one: from the device tree,
\* and if there is no such node, or no memory for its zone, the default.
AnonZone ==
  /\ phase = "anon" /\ phase' = "register"
  /\ IF Named("anonymous") # {} THEN UNCHANGED <<g_zone_list, aliased>>
     ELSE \/ dt # NoZone /\ dt.size # 0 /\ hil_mmz_create("anonymous", dt.start, dt.size)
          \/ hil_mmz_create("anonymous", Default.start, Default.size)
  /\ UNCHANGED <<mmz, dt, remaps, held>>

AllBlocks == UNION {g_zone_list[i].blocks : i \in DOMAIN g_zone_list}

\* The zones with a block that is mapped and begins at a page
Live(p) == {i \in DOMAIN g_zone_list :
              \E b \in g_zone_list[i].blocks : b.kvirt /\ b.phys = p}

\* ar_osal_teardown, at exit and when the device cannot be registered
Teardown ==
  /\ g_zone_list' = <<>>
  /\ remaps' = [p \in Page |-> remaps[p] - Cardinality(Live(p))]

MiscRegister ==
  /\ phase = "register"
  /\ \/ phase' = "ready" /\ UNCHANGED <<g_zone_list, remaps>>
     \/ phase' = "gone" /\ Teardown
  /\ UNCHANGED <<mmz, dt, held, aliased>>

\* ar_osal_exit: the modules that use it are gone before it.
ar_osal_exit ==
  /\ phase = "ready" /\ \A m \in Mapping : held[m] = NoPage
  /\ phase' = "gone" /\ Teardown
  /\ UNCHANGED <<mmz, dt, held, aliased>>

Touches(b, p) == b.phys =< p /\ p < b.phys + b.size

\* zone_alloc_locked: the lowest gap of the zone's own list
Gaps(z, size) ==
  {p \in z.base..(z.base + z.size) :
     /\ p + size =< z.base + z.size
     /\ \A b \in z.blocks : p + size =< b.phys \/ b.phys + b.size =< p}

hil_mmb_alloc(name, size) ==
  LET i == zone_find_by_name(name)
  IN /\ phase = "ready" /\ i # 0
     /\ Gaps(g_zone_list[i], size) # {}
     /\ g_zone_list' = [g_zone_list EXCEPT ![i].blocks = @ \cup
          {[phys |-> Min(Gaps(g_zone_list[i], size)), size |-> size,
            kvirt |-> FALSE, map_kref |-> 0]}]
     /\ UNCHANGED <<phase, mmz, dt, remaps, held, aliased>>

\* __getby_phys_2: the first zone with a block there
With(p) == {i \in DOMAIN g_zone_list :
              \E b \in g_zone_list[i].blocks : Touches(b, p)}
BlockAt(i, p) == CHOOSE b \in g_zone_list[i].blocks : Touches(b, p)
Becomes(i, b, c) ==
  g_zone_list' = [g_zone_list EXCEPT ![i].blocks = (@ \ {b}) \cup c]

\* Mutant of the next: also when it is mapped in the kernel
MmbFreeMapped(p) ==
  /\ phase = "ready" /\ With(p) # {}
  /\ LET i == Min(With(p))   b == BlockAt(i, p)
     IN Becomes(i, b, {})
  /\ UNCHANGED <<phase, mmz, dt, remaps, held, aliased>>

\* IOC_MMB_FREE; user mappings are in MmzHeap.
MmbFreeIoctl(p) ==
  /\ phase = "ready" /\ With(p) # {}
  /\ LET i == Min(With(p))   b == BlockAt(i, p)
     IN b.map_kref = 0 /\ Becomes(i, b, {})
  /\ UNCHANGED <<phase, mmz, dt, remaps, held, aliased>>

\* __map_block_locked and __unmap_block_locked
map_block(b) == [b EXCEPT !.kvirt = TRUE, !.map_kref = @ + 1]
unmap_block(b) ==
  IF b.map_kref = 0 THEN b
  ELSE [b EXCEPT !.map_kref = @ - 1, !.kvirt = @ /\ b.map_kref # 1]

\* hil_mmf_map2kern_cache: the block is mapped when it isn't yet, and counted.
hil_mmf_map2kern(m, p) ==
  /\ phase = "ready" /\ held[m] = NoPage /\ With(p) # {}
  /\ LET i == Min(With(p))   b == BlockAt(i, p)
     IN /\ b.map_kref < MaxKref
        /\ Becomes(i, b, {map_block(b)})
        /\ remaps' = IF b.kvirt THEN remaps ELSE [remaps EXCEPT ![b.phys] = @ + 1]
  /\ held' = [held EXCEPT ![m] = p]
  /\ UNCHANGED <<phase, mmz, dt, aliased>>

\* hil_mmf_unmap: whatever block is at the address by now
hil_mmf_unmap(m) ==
  /\ held[m] # NoPage
  /\ held' = [held EXCEPT ![m] = NoPage]
  /\ IF With(held[m]) = {} THEN UNCHANGED <<g_zone_list, remaps>>
     ELSE LET i == Min(With(held[m]))   b == BlockAt(i, held[m])
              last == b.map_kref = 1
          IN /\ Becomes(i, b, {unmap_block(b)})
             /\ remaps' = IF last /\ b.kvirt THEN [remaps EXCEPT ![b.phys] = @ - 1] ELSE remaps
  /\ UNCHANGED <<phase, mmz, dt, aliased>>

\* Refused while the zone has blocks
hil_mmz_destroy(i) ==
  /\ phase = "ready" /\ i \in DOMAIN g_zone_list /\ g_zone_list[i].blocks = {}
  /\ g_zone_list' = [j \in 1..(Len(g_zone_list) - 1) |->
       IF j < i THEN g_zone_list[j] ELSE g_zone_list[j + 1]]
  /\ UNCHANGED <<phase, mmz, dt, remaps, held, aliased>>

\* The number of free pages that /proc/media-mem shows of a zone
media_mem_show(z) ==
  z.size - Cardinality(UNION {{b} \X (0..(b.size - 1)) : b \in z.blocks})

ZNext ==
  \/ ParseTuple \/ Parsed \/ AnonZone \/ MiscRegister \/ ar_osal_exit
  \/ \E n \in ZoneNames, s \in BlockSizes : hil_mmb_alloc(n, s)
  \/ \E p \in Page : MmbFreeIoctl(p)
  \/ \E m \in Mapping : hil_mmf_unmap(m) \/ \E p \in Page : hil_mmf_map2kern(m, p)
  \/ \E i \in DOMAIN g_zone_list : hil_mmz_destroy(i)

ZoneSpec == ZInit /\ [][ZNext]_zoneVars

\* A zone is of pages of memory, or has no size; there is memory for the default.
Tuple == UNION {Range(zones) : zones \in Params}
OfPages(z) ==
  /\ z.start \in Nat /\ z.size \in Nat
  /\ z.start..(z.start + z.size - 1) \subseteq Page
ASSUME ZoneAssumption ==
  /\ Page \subseteq Nat /\ NoPage \notin Page /\ IsFiniteSet(Mapping)
  /\ BlockSizes \subseteq Nat \ {0}
  /\ Params \subseteq Seq(Tuple)
  /\ \A z \in Tuple \cup DtNodes \cup {Default} : OfPages(z)
  /\ Default.size # 0

\* The mappings of a page of the block
Holders(b) == {m \in Mapping : held[m] # NoPage /\ Touches(b, held[m])}

\* While no two zones were made of the same pages, a page another module has
\* mapped by address stays in one block, mapped once and counted for each
\* holder, and is not freed under it (hil_mmf_map2kern_cache, handle_m 12,
\* hil_mmf_unmap); no mapping outlives its block or the module
\* (ar_osal_teardown); with the default of anony a loaded module can serve a
\* request without a zone name; and /proc/media-mem never reports more used
\* than there is.
MapsBalanced ==
  /\ ~aliased =>
       /\ \A m \in Mapping : held[m] # NoPage =>
            \E b \in AllBlocks : Touches(b, held[m]) /\ b.kvirt
       /\ \A b \in AllBlocks : b.map_kref = Cardinality(Holders(b))
  /\ \A p \in Page : remaps[p] = Cardinality(Live(p))
  /\ phase = "register" => zone_find_by_name("") # 0
  /\ \A i \in DOMAIN g_zone_list : media_mem_show(g_zone_list[i]) >= 0
===============================================================================
