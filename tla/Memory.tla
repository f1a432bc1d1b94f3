------------------------------- MODULE Memory -------------------------------
(***************************************************************************)
(* User memory: address spaces (kernel/src/mm/address_space.rs), the page  *)
(* cache of file mappings (mm/page_cache.rs), the swap area (mm/swap.rs)   *)
(* and the surfaces whose frames an owner and the compositor share         *)
(* (kernel/src/wm/surface_table.rs).  All of them take frames from the     *)
(* allocator, used here through what FreeFrames promises: the lowest free  *)
(* frame, or none.                                                         *)
(*                                                                         *)
(* The operations on address spaces run under the task table's lock and    *)
(* those on surfaces under the surface table's, so each is one step;       *)
(* creating a surface takes first the one and then the other.              *)
(*                                                                         *)
(* NFrames are the frames left for pages: the frames of page tables, which *)
(* a space takes as it grows and gives back as a whole, are not counted,   *)
(* and a page whose table does not exist yet may fail to be mapped for     *)
(* want of one.  The three levels below the root are one.  Pages are       *)
(* compared by content: a page is zero, holds what a space wrote to it, or *)
(* holds a page of a file.                                                 *)
(***************************************************************************)
EXTENDS Integers, Sequences, FiniteSetsExt

CONSTANTS
    Spaces,         \* task slots, each with one address space
    NFrames,        \* frames the allocator manages
    NPages,         \* bound: per slot, the pages its space may map
    PagesPerTable,  \* pages under one page table
    Files,          \* pages of files
    MaxRegion,      \* bound: pages in an anonymous mapping or a surface
    MaxVmAreas,     \* MAX_VM_AREAS
    MaxOwned,       \* MAX_USER_PT_FRAMES
    MaxCachePages,  \* MAX_CACHE_PAGES
    MaxSwapSlots,   \* MAX_SWAP_SLOTS
    MaxSurfaces,    \* MAX_SURFACES_GLOBAL
    Zero,           \* the content of a fresh page
    Junk,           \* the content of a free frame, whatever was left there
    NoSpace         \* no address space in the slot

Frames == 1 .. NFrames
Pages == UNION {1 .. NPages[s] : s \in Spaces}
Slots == 1 .. MaxSwapSlots
Surfaces == 1 .. MaxSurfaces
Contents == {Zero, Junk} \cup Spaces \cup Files

(* VmArea, the entries of a page table, and AddressSpace. *)
Areas == [start : Nat, end : Nat, kind : {"Anon", "File", "Surface"},
          write : BOOLEAN, cow : BOOLEAN, file : Files \cup {0}]
Tables == UNION {[D -> [frame : Frames, write : BOOLEAN]] : D \in SUBSET Pages}
Staged == UNION {[D -> Slots] : D \in SUBSET Pages}
AddressSpaces == [owned : SUBSET Frames, tables : SUBSET Nat, regions : SUBSET Areas,
                  pte : Tables, swapped : Staged, next : Nat]

ASSUME MemoryAssumption ==
    /\ IsFiniteSet(Spaces) /\ NoSpace \notin AddressSpaces
    /\ NFrames \in Nat /\ NPages \in [Spaces -> Nat] /\ PagesPerTable \in Nat \ {0}
    /\ MaxRegion \in Nat /\ MaxVmAreas \in Nat /\ MaxOwned \in Nat
    /\ MaxCachePages \in Nat /\ MaxSwapSlots \in Nat /\ MaxSurfaces \in Nat
    /\ Zero # Junk /\ {Zero, Junk} \cap (Spaces \cup Files) = {}
    /\ Spaces \cap Files = {}

VARIABLES
    free,      \* frames the allocator has
    mem,       \* content of every frame
    space,     \* per slot, its address space or NoSpace
    cache,     \* page cache: file page -> frame and references
    swap,      \* swap slots in use -> the content staged there
    surface,   \* live surfaces -> owner and frames
    creating,  \* per slot, the surface sys_surface_create has yet to map, or 0
    readable,  \* file pages vfs::read_at can read
    value,     \* history: what a page was mapped with or last written
    stale,     \* history: was a frame freed while a page mapped it?
    lost       \* history: frames no one holds and the allocator has not

vars == <<free, mem, space, cache, swap, surface, creating, readable, value, stale, lost>>

-----------------------------------------------------------------------------
(* The state the address-space code works on: the allocator, the contents, *)
(* the cache, the swap area and one space.                                 *)
State(s) ==
    [free |-> free, mem |-> mem, cache |-> cache, swap |-> swap, lost |-> lost,
     sp |-> space[s]]

Abandoned(content, frames) == [f \in Frames |-> IF f \in frames THEN Junk ELSE content[f]]

Commit(s, st) ==
    /\ free' = st.free
    /\ mem' = Abandoned(st.mem, st.free)
    /\ cache' = st.cache
    /\ swap' = st.swap
    /\ lost' = st.lost
    /\ space' = [space EXCEPT ![s] = st.sp]

Mapped(sp, p) == p \in DOMAIN sp.pte
Swapped(sp, p) == p \in DOMAIN sp.swapped
InRegion(r, p) == r.start <= p /\ p < r.end
RegionOf(sp, p) == CHOOSE r \in sp.regions : InRegion(r, p)
Without(f, x) == [y \in DOMAIN f \ {x} |-> f[y]]
With(f, x, v) == [y \in DOMAIN f \cup {x} |-> IF y = x THEN v ELSE f[y]]

(* alloc_frame: none, or the lowest, zeroed by whoever takes it. *)
Taken(st) == Min(st.free)
TakeFrame(st) ==
    [st EXCEPT !.free = @ \ {Taken(st)}, !.mem[Taken(st)] = Zero]

(* release_frame, n[f] times for every frame f: with its last reference a  *)
(* cached page goes and its frame is the allocator's again; a frame that   *)
(* is not cached is left alone.                                            *)
DropRefs(st, n) ==
    LET left(x) == st.cache[x].refs - n[st.cache[x].frame]
        kept == {x \in DOMAIN st.cache : left(x) > 0}
    IN  [st EXCEPT !.cache = [x \in kept |-> [frame |-> st.cache[x].frame, refs |-> left(x)]],
                   !.free = @ \cup {st.cache[x].frame : x \in DOMAIN st.cache \ kept}]

ReleaseCached(st, f) == DropRefs(st, [g \in Frames |-> IF g = f THEN 1 ELSE 0])

(* release_owned_frame, or release_frame for a frame the space does not own. *)
ReleaseMapped(st, f) ==
    IF f \in st.sp.owned
    THEN [st EXCEPT !.sp.owned = @ \ {f}, !.free = @ \cup {f}]
    ELSE ReleaseCached(st, f)

(* swap_out_one_page: any resident page of a region whose frame the space  *)
(* owns goes to the lowest unused slot, and its frame to the allocator.    *)
SwapOutOne(st) ==
    {LET slot == Min(Slots \ DOMAIN st.swap)
         f == st.sp.pte[v].frame
     IN  [st EXCEPT !.swap = With(@, slot, st.mem[f]),
                    !.sp.pte = Without(@, v),
                    !.sp.swapped = With(@, v, slot),
                    !.sp.owned = @ \ {f},
                    !.free = @ \cup {f}] :
     v \in {p \in DOMAIN st.sp.pte : /\ \E r \in st.sp.regions : InRegion(r, p)
                                     /\ st.sp.pte[p].frame \in st.sp.owned
                                     /\ Slots \ DOMAIN st.swap # {}}}

MutAllocOwned(st) ==    \* faulty: the owned-frame table is not looked at
    LET able == IF st.free # {} THEN {st} ELSE SwapOutOne(st)
    IN  IF able = {} THEN {[f |-> 0, st |-> st]}
        ELSE {[f |-> Taken(a),
               st |-> [TakeFrame(a) EXCEPT !.sp.owned = @ \cup {Taken(a)}]] : a \in able}

(* alloc_owned_frame: the outcomes, each with the frame or 0. *)
AllocOwned(st) ==
    LET able == IF st.free # {} THEN {st} ELSE SwapOutOne(st)
    IN  IF able = {} THEN {[f |-> 0, st |-> st]}
        ELSE {IF Cardinality(a.sp.owned) >= MaxOwned
              THEN [f |-> 0, st |-> a]
              ELSE [f |-> Taken(a),
                    st |-> [TakeFrame(a) EXCEPT !.sp.owned = @ \cup {Taken(a)}]] :
              a \in able}

(* map_page: a table that is missing is allocated, which may fail; the     *)
(* entry must be empty.                                                    *)
TableOf(p) == (p - 1) \div PagesPerTable
SetEntry(st, p, f, w) ==
    [st EXCEPT !.sp.pte = With(@, p, [frame |-> f, write |-> w]),
               !.sp.tables = @ \cup {TableOf(p)}]

MapPage(st, p, f, w) ==
    (IF Mapped(st.sp, p) THEN {} ELSE {[ok |-> TRUE, st |-> SetEntry(st, p, f, w)]})
    \cup (IF Mapped(st.sp, p) \/ TableOf(p) \notin st.sp.tables
          THEN {[ok |-> FALSE, st |-> st]} ELSE {})

-----------------------------------------------------------------------------
(* handle_page_fault.  Each operator gives the outcomes: whether the fault *)
(* is resolved and the state it leaves.                                    *)
Failed(st) == [ok |-> FALSE, st |-> st]

(* map_zeroed_page: a page whose mapping fails stays owned until the space *)
(* goes.                                                                   *)
MapZeroed(st, p, w) ==
    UNION {IF r.f = 0 THEN {Failed(r.st)} ELSE MapPage(r.st, p, r.f, w) :
           r \in AllocOwned(st)}

(* restore_swapped_page: swap_in empties the slot before the page is       *)
(* mapped, and the record goes last.                                       *)
SwapIn(st, slot, f) ==
    [st EXCEPT !.mem[f] = st.swap[slot], !.swap = Without(@, slot)]

Restore(st, p, w) ==
    LET mapped(r) == MapPage(SwapIn(r.st, st.sp.swapped[p], r.f), p, r.f, w)
    IN  UNION {IF r.f = 0 THEN {Failed(r.st)}
               ELSE {IF q.ok THEN [q EXCEPT !.st.sp.swapped = Without(@, p)]
                     ELSE Failed(ReleaseMapped(q.st, r.f)) : q \in mapped(r)} :
               r \in AllocOwned(st)}

(* page_cache::acquire: a hit counts one more reference; a miss takes a    *)
(* slot and a frame, and when the file cannot be read that frame is lost.  *)
Acquire(st, x) ==
    CASE x \in DOMAIN st.cache ->
             [f |-> st.cache[x].frame, st |-> [st EXCEPT !.cache[x].refs = @ + 1]]
      [] x \notin DOMAIN st.cache /\ (\/ Cardinality(DOMAIN st.cache) >= MaxCachePages
                                      \/ st.free = {}) ->
             [f |-> 0, st |-> st]
      [] OTHER ->
             LET f == Taken(st)
                 t == TakeFrame(st)
             IN  IF x \in readable
                 THEN [f |-> f, st |-> [t EXCEPT !.mem[f] = x,
                                                 !.cache = With(@, x, [frame |-> f, refs |-> 1])]]
                 ELSE [f |-> 0, st |-> [t EXCEPT !.lost = @ \cup {f}]]

(* faulty: the reference stays when the page cannot be mapped *)
MutRefKept(st, p, r) ==
    LET a == Acquire(st, r.file)
    IN  IF a.f = 0 THEN {Failed(a.st)} ELSE MapPage(a.st, p, a.f, r.write /\ ~r.cow)

(* faulty: a copy-on-write page is mapped writable *)
MutWritable(st, p, r) ==
    LET a == Acquire(st, r.file)
    IN  IF a.f = 0 THEN {Failed(a.st)}
        ELSE {IF q.ok THEN q ELSE Failed(ReleaseCached(q.st, a.f)) :
              q \in MapPage(a.st, p, a.f, r.write)}

(* map_file_page: a copy-on-write page is mapped read-only.                *)
MapFile(st, p, r) ==
    LET a == Acquire(st, r.file)
    IN  IF a.f = 0 THEN {Failed(a.st)}
        ELSE {IF q.ok THEN q ELSE Failed(ReleaseCached(q.st, a.f)) :
              q \in MapPage(a.st, p, a.f, r.write /\ ~r.cow)}

(* break_cow_page: a private copy takes the shared frame's place.          *)
BreakCow(st, p) ==
    LET f == st.sp.pte[p].frame
        copy(r) == SetEntry([r.st EXCEPT !.mem[r.f] = r.st.mem[f]], p, r.f, TRUE)
    IN  {IF r.f = 0 THEN Failed(r.st)
         ELSE [ok |-> TRUE, st |-> ReleaseCached(copy(r), f)] : r \in AllocOwned(st)}

Resolve(st, p, write) ==
    LET r == RegionOf(st.sp, p)
    IN  CASE Mapped(st.sp, p) -> IF write /\ r.cow THEN BreakCow(st, p) ELSE {}
          [] ~Mapped(st.sp, p) /\ write /\ ~r.write -> {}
          [] ~Mapped(st.sp, p) /\ (write => r.write) /\ Swapped(st.sp, p) ->
                 Restore(st, p, r.write)
          [] OTHER -> CASE r.kind = "File" -> MapFile(st, p, r)
                        [] r.kind = "Anon" -> MapZeroed(st, p, r.write)
                        [] OTHER -> {}

(* The processor raises a fault for a page without an entry, and for a     *)
(* write to a page mapped read-only.                                       *)
PageFault(s, p, write) ==
    /\ space[s] # NoSpace
    /\ \E r \in space[s].regions : InRegion(r, p)
    /\ Mapped(space[s], p) => write /\ ~space[s].pte[p].write
    /\ \E q \in Resolve(State(s), p, write) : Commit(s, q.st)
    /\ UNCHANGED <<surface, creating, readable, value, stale>>

(* User code writes through a writable entry. *)
Store(s, p) ==
    /\ space[s] # NoSpace
    /\ Mapped(space[s], p) /\ space[s].pte[p].write
    /\ mem' = Abandoned([mem EXCEPT ![space[s].pte[p].frame] = s], free)
    /\ value' = [value EXCEPT ![s][p] = s]
    /\ UNCHANGED <<free, space, cache, swap, surface, creating, readable, stale, lost>>

-----------------------------------------------------------------------------
(* Mappings. *)

Region(start, len, kind, write, cow, file) ==
    [start |-> start, end |-> start + len, kind |-> kind, write |-> write,
     cow |-> cow, file |-> file]

(* AddressSpace::new *)
NewSpace ==
    [owned |-> {}, tables |-> {}, regions |-> {}, pte |-> <<>>, swapped |-> <<>>,
     next |-> 1]

Create(s) ==
    /\ space[s] = NoSpace
    /\ space' = [space EXCEPT ![s] = NewSpace]
    /\ UNCHANGED <<free, mem, cache, swap, surface, creating, readable, value, stale, lost>>

(* find_free_range starts at the hint (its random offset is left out) and  *)
(* leaves the hint behind the range: addresses are not used again.         *)
Ranges(s, len) == {a \in {space[s].next} : a + len - 1 <= NPages[s]}
Reserve(sp, r) == [sp EXCEPT !.next = r.end]
AddRegion(sp, r) == [Reserve(sp, r) EXCEPT !.regions = @ \cup {r}]
Overlapping(sp, r) == \E q \in sp.regions : r.start < q.end /\ r.end > q.start
CanRegister(sp, r) == Cardinality(sp.regions) < MaxVmAreas /\ ~Overlapping(sp, r)

Map(s, r, v) ==
    /\ IF CanRegister(space[s], r)
       THEN /\ space' = [space EXCEPT ![s] = AddRegion(@, r)]
            /\ value' = [value EXCEPT ![s] =
                            [p \in Pages |-> IF InRegion(r, p) THEN v ELSE @[p]]]
       ELSE /\ space' = [space EXCEPT ![s] = Reserve(@, r)]
            /\ UNCHANGED value
    /\ UNCHANGED <<free, mem, cache, swap, surface, creating, readable, stale, lost>>

MmapAnon(s, len) ==
    /\ space[s] # NoSpace
    /\ \E a \in Ranges(s, len) : Map(s, Region(a, len, "Anon", TRUE, FALSE, 0), Zero)

(* A shared mapping is read-only; a private writable one is copied on write. *)
MmapFile(s, x, private) ==
    /\ space[s] # NoSpace
    /\ \E a \in Ranges(s, 1) : Map(s, Region(a, 1, "File", private, private, x), x)

PagesOf(r) == r.start .. r.end - 1
Beyond(f, S) == [x \in DOMAIN f \ S |-> f[x]]

(* How often pages of ps that are resident map a frame. *)
Uses(sp, ps) == [f \in Frames |-> Cardinality({p \in ps \cap DOMAIN sp.pte : sp.pte[p].frame = f})]

MutUnmapAll(st, ps) ==    \* faulty: a staged page keeps its slot
    LET cleared == ps \ DOMAIN st.sp.swapped
        frames == {st.sp.pte[p].frame : p \in cleared \cap DOMAIN st.sp.pte} \cap st.sp.owned
    IN  [DropRefs(st, Uses(st.sp, cleared)) EXCEPT
            !.free = @ \cup frames, !.sp.owned = @ \ frames,
            !.sp.pte = Beyond(@, cleared), !.sp.swapped = Beyond(@, ps)]

(* munmap of the pages ps: the swap slot of a staged page is discarded; of *)
(* the others a resident page's frame is released, the space's own to the  *)
(* allocator and a cached one by a reference.                              *)
UnmapAll(st, ps) ==
    LET cleared == ps \ DOMAIN st.sp.swapped
        frames == {st.sp.pte[p].frame : p \in cleared \cap DOMAIN st.sp.pte} \cap st.sp.owned
        slots == {st.sp.swapped[p] : p \in ps \cap DOMAIN st.sp.swapped}
    IN  [DropRefs(st, Uses(st.sp, cleared)) EXCEPT
            !.free = @ \cup frames, !.sp.owned = @ \ frames,
            !.sp.pte = Beyond(@, cleared), !.sp.swapped = Beyond(@, ps),
            !.swap = Beyond(@, slots)]

(* munmap finds regions of the kind Mmap only; a surface's stays.          *)
Munmap(s) ==
    /\ space[s] # NoSpace
    /\ \E r \in space[s].regions :
          /\ r.kind # "Surface"
          /\ Commit(s, [UnmapAll(State(s), PagesOf(r)) EXCEPT !.sp.regions = @ \ {r}])
    /\ UNCHANGED <<surface, creating, readable, value, stale>>

(* destroy, when the space is dropped: references to cached pages go, then *)
(* the swap slots, then every owned frame.                                 *)
Destroy(s) ==
    /\ space[s] # NoSpace
    /\ creating[s] = 0
    /\ LET registered == {p \in DOMAIN space[s].pte : \E r \in space[s].regions : InRegion(r, p)}
           discarded == {space[s].swapped[p] : p \in DOMAIN space[s].swapped}
       IN  Commit(s, [DropRefs(State(s), Uses(space[s], registered)) EXCEPT
                         !.free = @ \cup space[s].owned,
                         !.swap = Beyond(@, discarded),
                         !.sp = NoSpace])
    /\ value' = [value EXCEPT ![s] = [p \in Pages |-> Zero]]
    /\ UNCHANGED <<surface, creating, readable, stale>>

-----------------------------------------------------------------------------
(* Surfaces. *)

FreeSlots == Surfaces \ DOMAIN surface
SurfaceFrames(i) == {surface[i].frames[k] : k \in DOMAIN surface[i].frames}

(* alloc_surface: n frames or none; those taken first are given back.      *)
Lowest(n) ==
    {fs \in [1 .. n -> free] : /\ \A j, k \in 1 .. n : j < k => fs[j] < fs[k]
                              /\ \A f \in free, k \in 1 .. n : f < fs[k] =>
                                    \E j \in 1 .. n : f = fs[j]}

AllocSurface(s, n) ==
    /\ space[s] # NoSpace
    /\ creating[s] = 0
    /\ FreeSlots # {}
    /\ \E fs \in Lowest(n) :
          LET taken == {fs[k] : k \in 1 .. n}
          IN  /\ surface' = With(surface, Min(FreeSlots), [owner |-> s, frames |-> fs])
              /\ free' = free \ taken
              /\ mem' = [f \in Frames |-> IF f \in taken THEN Zero ELSE mem[f]]
    /\ creating' = [creating EXCEPT ![s] = Min(FreeSlots)]
    /\ UNCHANGED <<space, cache, swap, readable, value, stale, lost>>

(* free_surface returns the frames, mapped or not. *)
FreeSurface(i) == Without(surface, i)

(* map_shared_frames maps one frame after another, without owning them; a  *)
(* failure unmaps the first ones and takes the region out.                 *)
WithFrames(sp, r, frames, ps) ==
    [AddRegion(sp, r) EXCEPT
        !.pte = [p \in DOMAIN sp.pte \cup ps |->
                    IF p \in ps THEN [frame |-> frames[p - r.start + 1], write |-> TRUE]
                    ELSE sp.pte[p]],
        !.tables = @ \cup {TableOf(p) : p \in ps}]

FirstPages(r, k) == {r.start + j - 1 : j \in 1 .. k}

MapShared(st, r, i) ==
    LET frames == surface[i].frames
        n == Len(frames)
        mapped(k) == [st EXCEPT !.sp = WithFrames(@, r, frames, FirstPages(r, k))]
        reached(k) == FirstPages(r, k) \cap DOMAIN st.sp.pte = {}
        fails(k) == /\ reached(k - 1)
                    /\ \/ ~reached(k)
                       \/ TableOf(r.start + k - 1) \notin mapped(k - 1).sp.tables
        undone(k) == [UnmapAll(mapped(k), FirstPages(r, k)) EXCEPT !.sp.regions = @ \ {r}]
    IN  (IF reached(n) THEN {[ok |-> TRUE, st |-> mapped(n)]} ELSE {})
        \cup {Failed(undone(k - 1)) : k \in {j \in 1 .. n : fails(j)}}

(* The second half of sys_surface_create; the surface goes when it cannot  *)
(* be mapped.                                                              *)
Shown(s, i) ==
    LET n == Len(surface[i].frames)
        regions == {Region(a, n, "Surface", TRUE, FALSE, 0) : a \in Ranges(s, n)}
        tried(r) == IF CanRegister(space[s], r)
                    THEN MapShared(State(s), r, i)
                    ELSE {Failed([State(s) EXCEPT !.sp = Reserve(@, r)])}
    IN  IF regions = {} THEN {Failed(State(s))} ELSE UNION {tried(r) : r \in regions}

MapSurface(s) ==
    LET i == creating[s]
        undone(st) == [st EXCEPT !.free = @ \cup SurfaceFrames(i)]
    IN  /\ i # 0
        /\ creating' = [creating EXCEPT ![s] = 0]
        /\ \E q \in Shown(s, i) :
              /\ Commit(s, IF q.ok THEN q.st ELSE undone(q.st))
              /\ surface' = IF q.ok THEN surface ELSE FreeSurface(i)
        /\ UNCHANGED <<readable, value, stale>>

(* sys_surface_destroy: the owner, known by its slot, frees the surface;   *)
(* the mapping is left as it is.                                           *)
FramesMapped == UNION {{space[s].pte[p].frame : p \in DOMAIN space[s].pte} :
                       s \in {t \in Spaces : space[t] # NoSpace}}

SurfaceDestroy(s, i) ==
    /\ space[s] # NoSpace
    /\ creating[s] = 0
    /\ i \in DOMAIN surface /\ surface[i].owner = s
    /\ surface' = FreeSurface(i)
    /\ free' = free \cup SurfaceFrames(i)
    /\ mem' = Abandoned(mem, SurfaceFrames(i))
    /\ stale' = (stale \/ SurfaceFrames(i) \cap FramesMapped # {})
    /\ UNCHANGED <<space, cache, swap, creating, readable, value, lost>>

(* A file goes away under its mappings. *)
Unlink(x) ==
    /\ readable' = readable \ {x}
    /\ UNCHANGED <<free, mem, space, cache, swap, surface, creating, value, stale, lost>>

Init ==
    /\ free = Frames
    /\ mem = [f \in Frames |-> Junk]
    /\ space = [s \in Spaces |-> NoSpace]
    /\ cache = <<>>
    /\ swap = <<>>
    /\ surface = <<>>
    /\ creating = [s \in Spaces |-> 0]
    /\ readable = Files
    /\ value = [s \in Spaces |-> [p \in Pages |-> Zero]]
    /\ stale = FALSE
    /\ lost = {}

(* Bound: once a surface was freed under its mapping, what is mapped is    *)
(* faulted in, unmapped and torn down, but nothing new is mapped.          *)
Next ==
    \/ \E s \in Spaces :
          \/ Create(s)
          \/ Destroy(s)
          \/ Munmap(s)
          \/ MapSurface(s)
          \/ \E p \in Pages, write \in BOOLEAN : PageFault(s, p, write)
          \/ \E i \in Surfaces : SurfaceDestroy(s, i)
          \/ /\ ~stale
             /\ \/ \E n \in 1 .. MaxRegion : MmapAnon(s, n) \/ AllocSurface(s, n)
                \/ \E x \in Files, private \in BOOLEAN : MmapFile(s, x, private)
                \/ \E p \in Pages : Store(s, p)
    \/ \E x \in readable : ~stale /\ Unlink(x)

Spec == Init /\ [][Next]_vars

-----------------------------------------------------------------------------
Live == {s \in Spaces : space[s] # NoSpace}
CacheFrames == {cache[x].frame : x \in DOMAIN cache}
SurfacePages == UNION {SurfaceFrames(i) : i \in DOMAIN surface}
OwnedFrames == UNION {space[s].owned : s \in Live}
Mappers(f) == {a \in Live \X Pages : /\ Mapped(space[a[1]], a[2])
                                     /\ space[a[1]].pte[a[2]].frame = f}

(* The shape of the state: entries name frames, and no table is overfull.  *)
TypeOK ==
    /\ free \subseteq Frames /\ lost \subseteq Frames /\ stale \in BOOLEAN
    /\ mem \in [Frames -> Contents]
    /\ DOMAIN cache \subseteq Files /\ Cardinality(DOMAIN cache) <= MaxCachePages
    /\ DOMAIN surface \subseteq Surfaces
    /\ space \in [Spaces -> AddressSpaces \cup {NoSpace}]
    /\ \A s \in Live : /\ Cardinality(space[s].owned) <= MaxOwned
                      /\ Cardinality(space[s].regions) <= MaxVmAreas
    /\ \A s \in Spaces : creating[s] # 0 => s \in Live /\ creating[s] \in DOMAIN surface

(* Every frame is in exactly one hand: the allocator's, one space's, the   *)
(* page cache's, one surface's, or it was lost to an unreadable file.      *)
(* A swap slot belongs to one page of one space and, until a surface is    *)
(* freed under its mapping, every slot in use does: after that a reference *)
(* may be dropped twice, and break_cow_page may then find that the page it *)
(* is called for was staged by its own allocation.  This is what each      *)
(* rollback of map_page, acquire, alloc_surface and sys_surface_create,    *)
(* each teardown and each swap has to keep.                                *)
Accounted ==
    /\ Frames = free \cup lost \cup CacheFrames \cup SurfacePages \cup OwnedFrames
    /\ free \cap (lost \cup CacheFrames \cup SurfacePages \cup OwnedFrames) = {}
    /\ lost \cap (CacheFrames \cup SurfacePages \cup OwnedFrames) = {}
    /\ CacheFrames \cap (SurfacePages \cup OwnedFrames) = {}
    /\ SurfacePages \cap OwnedFrames = {}
    /\ \A x, y \in DOMAIN cache : cache[x].frame = cache[y].frame => x = y
    /\ \A i, j \in DOMAIN surface :
          \A k \in DOMAIN surface[i].frames, l \in DOMAIN surface[j].frames :
             surface[i].frames[k] = surface[j].frames[l] => i = j /\ k = l
    /\ \A s, t \in Live : s # t => space[s].owned \cap space[t].owned = {}
    /\ ~stale => DOMAIN swap = UNION {{space[s].swapped[p] : p \in DOMAIN space[s].swapped} :
                                      s \in Live}
    /\ \A s, t \in Live :
          \A p \in DOMAIN space[s].swapped, q \in DOMAIN space[t].swapped :
             space[s].swapped[p] = space[t].swapped[q] => s = t /\ p = q

(* Until a surface is destroyed under its mapping, no entry outlives its   *)
(* frame: what a page maps is owned by its space, is a surface of the      *)
(* slot, or is cached, and a cached page counts its mappings exactly, so   *)
(* it goes with the last of them.                                          *)
MappingsBacked ==
    ~stale =>
        /\ \A s \in Live : \A p \in DOMAIN space[s].pte :
              space[s].pte[p].frame \in space[s].owned \cup CacheFrames \cup SurfacePages
        /\ \A x \in DOMAIN cache : cache[x].refs = Cardinality(Mappers(cache[x].frame))

(* Until then, too, a page reads as it was last written, however often it  *)
(* was staged to swap and restored, shared through the cache or copied on  *)
(* the first write; and no write of one space reaches another or a file.   *)
Visible(s, p) ==
    CASE Mapped(space[s], p) -> mem[space[s].pte[p].frame]
      [] ~Mapped(space[s], p) /\ Swapped(space[s], p) -> swap[space[s].swapped[p]]
      [] OTHER -> value[s][p]

ContentKept ==
    ~stale => \A s \in Live, p \in Pages : Visible(s, p) = value[s][p]

(* The precondition of free_surface: "The caller must have already         *)
(* unmapped the surface from all address spaces that imported it".         *)
UnmappedBeforeFree == ~stale

(* The assertion of the file mapping test: no frame is lost on that path.  *)
NoFrameLost == lost = {}
=============================================================================
