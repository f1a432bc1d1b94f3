--------------------------- MODULE Memory_proofs ---------------------------
(***************************************************************************)
(* Theorems about Memory: TypeOK, Accounted, MappingsBacked and            *)
(* ContentKept are invariants.                                             *)
(***************************************************************************)
EXTENDS Memory, FiniteSetTheorems, TLAPS

-----------------------------------------------------------------------------
(* The state as a record, for the lemmas about the steps of an operation:  *)
(* as it is, and with one space, and what it shares, as the record st that *)
(* the operators of Memory work on has them.                               *)
Now ==
    [free |-> free, mem |-> mem, cache |-> cache, swap |-> swap, lost |-> lost,
     space |-> space, surface |-> surface, creating |-> creating, value |-> value,
     stale |-> stale]

World(s, st) ==
    [free |-> st.free, mem |-> st.mem, cache |-> st.cache, swap |-> st.swap,
     lost |-> st.lost, space |-> [space EXCEPT ![s] = st.sp], surface |-> surface,
     creating |-> creating, value |-> value, stale |-> stale]

(* Who has a frame, what a page maps or has staged, and a page of a region *)
(* that was neither mapped nor staged since.                               *)
IsCached(c, f) == \E x \in DOMAIN c : c[x].frame = f
IsOnSurface(u, f) == \E i \in DOMAIN u : \E k \in DOMAIN u[i].frames : u[i].frames[k] = f
IsLive(S, s) == S[s] # NoSpace
Owns(S, s, f) == IsLive(S, s) /\ f \in S[s].owned
IsOwned(S, f) == \E s \in Spaces : Owns(S, s, f)
Maps(S, s, p, f) == IsLive(S, s) /\ p \in DOMAIN S[s].pte /\ S[s].pte[p].frame = f
MappersIn(S, f) == {a \in Spaces \X Pages : Maps(S, a[1], a[2], f)}
Shows(S, s, p, x) == IsLive(S, s) /\ p \in DOMAIN S[s].swapped /\ S[s].swapped[p] = x
Untouched(S, s, p, r) ==
    /\ IsLive(S, s) /\ r \in S[s].regions /\ InRegion(r, p)
    /\ p \notin DOMAIN S[s].pte /\ p \notin DOMAIN S[s].swapped

(* The shape of a region and of an address space: regions lie apart and    *)
(* below the hint, as the pages mapped do, every page staged is in one of  *)
(* them, and the tables of all these pages exist.                          *)
AreaOK(s, r) ==
    /\ r \in Areas /\ 1 <= r.start /\ r.start < r.end /\ r.end - 1 <= NPages[s]
    /\ r.kind = "File" => r.file \in Files /\ r.cow = r.write
    /\ r.kind # "File" => r.write /\ ~r.cow

SpaceOK(s, sp) ==
    /\ sp \in AddressSpaces
    /\ sp.next \in Nat \ {0}
    /\ Cardinality(sp.owned) <= MaxOwned
    /\ IsFiniteSet(sp.regions) /\ Cardinality(sp.regions) <= MaxVmAreas
    /\ \A r \in sp.regions : AreaOK(s, r) /\ r.end <= sp.next
    /\ \A r, q \in sp.regions : \A p \in Pages : InRegion(r, p) /\ InRegion(q, p) => r = q
    /\ \A p \in DOMAIN sp.pte : TableOf(p) \in sp.tables /\ p < sp.next
    /\ \A p \in DOMAIN sp.swapped : /\ TableOf(p) \in sp.tables
                                    /\ \E r \in sp.regions : InRegion(r, p)

SurfaceOK(e) ==
    /\ e = [owner |-> e.owner, frames |-> e.frames]
    /\ e.owner \in Spaces
    /\ \E n \in 1 .. MaxRegion : e.frames \in [1 .. n -> Frames]

(* Every page mapped is in a region, and no page of a region that is not   *)
(* writable is staged or mapped writable.                                  *)
RegionsKept(sp) ==
    /\ \A p \in DOMAIN sp.pte : \E r \in sp.regions : InRegion(r, p)
    /\ \A r \in sp.regions : \A p \in Pages : InRegion(r, p) /\ ~r.write =>
          p \notin DOMAIN sp.swapped /\ (p \in DOMAIN sp.pte => ~sp.pte[p].write)

Typed(w) ==
    /\ w.free \subseteq Frames /\ w.lost \subseteq Frames /\ w.stale \in BOOLEAN
    /\ w.mem \in [Frames -> Contents]
    /\ DOMAIN w.cache \subseteq Files
    /\ IsFiniteSet(DOMAIN w.cache) /\ Cardinality(DOMAIN w.cache) <= MaxCachePages
    /\ \A x \in DOMAIN w.cache : w.cache[x] \in [frame : Frames, refs : Nat \ {0}]
    /\ DOMAIN w.surface \subseteq Surfaces
    /\ \A i \in DOMAIN w.surface : SurfaceOK(w.surface[i])
    /\ w.space = [s \in Spaces |-> w.space[s]]
    /\ \A s \in Spaces : IsLive(w.space, s) => SpaceOK(s, w.space[s])
    /\ w.creating = [s \in Spaces |-> w.creating[s]]
    /\ \A s \in Spaces : w.creating[s] # 0 =>
          /\ IsLive(w.space, s)
          /\ w.creating[s] \in DOMAIN w.surface
          /\ w.surface[w.creating[s]].owner = s
    /\ w.value \in [Spaces -> [Pages -> Contents]]

(* Every frame is in exactly one hand. *)
Hands(w) ==
    /\ \A f \in Frames :
          \/ f \in w.free \/ f \in w.lost \/ IsCached(w.cache, f)
          \/ IsOnSurface(w.surface, f) \/ IsOwned(w.space, f)
    /\ \A f \in Frames :
          /\ f \in w.free => /\ f \notin w.lost /\ ~IsCached(w.cache, f)
                             /\ ~IsOnSurface(w.surface, f) /\ ~IsOwned(w.space, f)
          /\ f \in w.lost => /\ ~IsCached(w.cache, f)
                             /\ ~IsOnSurface(w.surface, f) /\ ~IsOwned(w.space, f)
          /\ IsCached(w.cache, f) => ~IsOnSurface(w.surface, f) /\ ~IsOwned(w.space, f)
          /\ IsOnSurface(w.surface, f) => ~IsOwned(w.space, f)
    /\ \A x, y \in DOMAIN w.cache : w.cache[x].frame = w.cache[y].frame => x = y
    /\ \A i, j \in DOMAIN w.surface :
          \A k \in DOMAIN w.surface[i].frames, l \in DOMAIN w.surface[j].frames :
             w.surface[i].frames[k] = w.surface[j].frames[l] => i = j /\ k = l
    /\ \A s, t \in Spaces, f \in Frames :
          Owns(w.space, s, f) /\ Owns(w.space, t, f) => s = t

(* Every slot in use is shown by at most one staged page, and by one until *)
(* a surface is freed under its mapping.                                   *)
SwapKept(w) ==
    /\ DOMAIN w.swap \subseteq Slots
    /\ \A x \in DOMAIN w.swap : w.swap[x] \in Contents
    /\ ~w.stale => \A x \in DOMAIN w.swap : \E s \in Spaces, p \in Pages : Shows(w.space, s, p, x)
    /\ \A s \in Spaces, p \in Pages, x \in Slots : Shows(w.space, s, p, x) => x \in DOMAIN w.swap
    /\ \A s, t \in Spaces, p, q \in Pages, x \in Slots :
          Shows(w.space, s, p, x) /\ Shows(w.space, t, q, x) => s = t /\ p = q

(* Until a surface is freed under its mapping: what a page maps has a      *)
(* hand other than the allocator's, and the page is not staged; only       *)
(* cached frames are shared, and they are read-only and count their        *)
(* mappings; a surface that is being created is not mapped yet.            *)
Backed(w) ==
    /\ \A s \in Spaces, p \in Pages, f \in Frames : Maps(w.space, s, p, f) =>
          /\ Owns(w.space, s, f) \/ IsCached(w.cache, f) \/ IsOnSurface(w.surface, f)
          /\ w.space[s].pte[p].write <=> ~IsCached(w.cache, f)
    /\ \A s \in Spaces : IsLive(w.space, s) => RegionsKept(w.space[s])
    /\ \A s \in Spaces, p \in Pages, f \in Frames, x \in Slots :
          ~(Maps(w.space, s, p, f) /\ Shows(w.space, s, p, x))
    /\ \A s, t \in Spaces, p, q \in Pages, f \in Frames :
          Maps(w.space, s, p, f) /\ Maps(w.space, t, q, f) /\ ~IsCached(w.cache, f) =>
             s = t /\ p = q
    /\ \A x \in DOMAIN w.cache :
          w.cache[x].refs = Cardinality(MappersIn(w.space, w.cache[x].frame))
    /\ \A s, t \in Spaces, p \in Pages : w.creating[s] # 0 =>
          \A k \in DOMAIN w.surface[w.creating[s]].frames :
             ~Maps(w.space, t, p, w.surface[w.creating[s]].frames[k])

(* Until then, too: a cached frame holds its page of the file, a resident  *)
(* or staged page what was last written to it, and a page not touched yet  *)
(* is to be filled with that.                                              *)
Kept(w) ==
    /\ \A x \in DOMAIN w.cache : w.mem[w.cache[x].frame] = x
    /\ \A s \in Spaces, p \in Pages, f \in Frames :
          Maps(w.space, s, p, f) => w.mem[f] = w.value[s][p]
    /\ \A s \in Spaces, p \in Pages, x \in Slots :
          Shows(w.space, s, p, x) => w.swap[x] = w.value[s][p]
    /\ \A s \in Spaces, p \in Pages : ~IsLive(w.space, s) => w.value[s][p] = Zero
    /\ \A s \in Spaces, p \in Pages :
          IsLive(w.space, s) /\ p >= w.space[s].next => w.value[s][p] = Zero
    /\ \A s \in Spaces, p \in Pages, r \in Areas : Untouched(w.space, s, p, r) =>
          /\ r.kind = "File" => w.value[s][p] = r.file
          /\ r.kind = "Anon" => w.value[s][p] = Zero
    /\ \A s \in Spaces : w.creating[s] # 0 =>
          \A k \in DOMAIN w.surface[w.creating[s]].frames :
             w.mem[w.surface[w.creating[s]].frames[k]] = Zero

Inv(w) == Typed(w) /\ Hands(w) /\ SwapKept(w) /\ (~w.stale => Backed(w) /\ Kept(w))

IInv == Inv(Now)

-----------------------------------------------------------------------------
(* Types and sizes. *)
LEMMA Bounds ==
  /\ IsFiniteSet(Frames) /\ Frames \subseteq Nat
  /\ IsFiniteSet(Pages) /\ Pages \subseteq Nat \ {0}
  /\ \A s \in Spaces : 1 .. NPages[s] \subseteq Pages
  /\ Slots \subseteq Nat \ {0} /\ Surfaces \subseteq Nat \ {0}
<1>1. IsFiniteSet(Frames)
  BY MemoryAssumption, FS_Interval DEF Frames
<1>2. IsFiniteSet(Pages)
  <2> DEFINE T == {1 .. NPages[s] : s \in Spaces}
             g == [s \in Spaces |-> 1 .. NPages[s]]
  <2>1. g \in Surjection(Spaces, T)
    BY DEF Surjection
  <2>2. IsFiniteSet(T)
    BY <2>1, FS_Surjection, MemoryAssumption
  <2>3. \A s \in Spaces : IsFiniteSet(1 .. NPages[s])
    BY FS_Interval, MemoryAssumption
  <2>4. \A S \in T : IsFiniteSet(S)
    BY <2>3
  <2> HIDE DEF T
  <2>5. IsFiniteSet(UNION T)
    BY <2>2, <2>4, FS_UNION
  <2> QED BY <2>5 DEF Pages, T
<1>3. Pages \subseteq Nat \ {0} /\ \A s \in Spaces : 1 .. NPages[s] \subseteq Pages
  BY MemoryAssumption DEF Pages
<1> QED BY <1>1, <1>2, <1>3, MemoryAssumption DEF Frames, Slots, Surfaces

LEMMA OwnedFinite ==
  ASSUME NEW S \in SUBSET Frames
  PROVE  IsFiniteSet(S) /\ Cardinality(S) \in Nat
BY Bounds, FS_Subset, FS_CardinalityType

LEMMA OwnedSizes ==
  ASSUME NEW S \in SUBSET Frames, NEW f
  PROVE  /\ Cardinality(S \ {f}) <= Cardinality(S)
         /\ Cardinality(S \cup {f}) <= Cardinality(S) + 1
         /\ \A T \in SUBSET S : Cardinality(T) <= Cardinality(S)
<1>1. IsFiniteSet(S) /\ Cardinality(S) \in Nat
  BY OwnedFinite
<1>2. \A T \in SUBSET S : Cardinality(T) <= Cardinality(S)
  BY <1>1, FS_Subset
<1>3. S \ {f} \in SUBSET S
  OBVIOUS
<1>4. Cardinality(S \cup {f}) <= Cardinality(S) + 1
  <2>1. Cardinality(S \cup {f}) = IF f \in S THEN Cardinality(S) ELSE Cardinality(S) + 1
    BY <1>1, FS_AddElement
  <2> QED BY <1>1, <2>1
<1> QED BY <1>2, <1>3, <1>4

LEMMA MappersFinite ==
  ASSUME NEW S, NEW f
  PROVE  IsFiniteSet(MappersIn(S, f)) /\ Cardinality(MappersIn(S, f)) \in Nat
<1>1. IsFiniteSet(Spaces \X Pages)
  BY Bounds, MemoryAssumption, FS_Product
<1>2. MappersIn(S, f) \in SUBSET (Spaces \X Pages)
  BY DEF MappersIn
<1> QED BY <1>1, <1>2, FS_Subset, FS_CardinalityType

LEMMA EntryTypes ==
  ASSUME NEW f
  PROVE  /\ f \in Tables <=> /\ f = [p \in DOMAIN f |-> f[p]] /\ DOMAIN f \subseteq Pages
                             /\ \A p \in DOMAIN f : f[p] \in [frame : Frames, write : BOOLEAN]
         /\ f \in Staged <=> /\ f = [p \in DOMAIN f |-> f[p]] /\ DOMAIN f \subseteq Pages
                             /\ \A p \in DOMAIN f : f[p] \in Slots
<1>1. f \in Tables <=> \E D \in SUBSET Pages : f \in [D -> [frame : Frames, write : BOOLEAN]]
  BY DEF Tables
<1>2. f \in Staged <=> \E D \in SUBSET Pages : f \in [D -> Slots]
  BY DEF Staged
<1> QED BY <1>1, <1>2

(* The fields of an address space. *)
LEMMA SpaceFields ==
  ASSUME NEW sp \in AddressSpaces
  PROVE  /\ sp = [owned |-> sp.owned, tables |-> sp.tables, regions |-> sp.regions,
                  pte |-> sp.pte, swapped |-> sp.swapped, next |-> sp.next]
         /\ sp.owned \subseteq Frames /\ sp.tables \subseteq Nat /\ sp.regions \subseteq Areas
         /\ sp.pte = [p \in DOMAIN sp.pte |-> sp.pte[p]] /\ DOMAIN sp.pte \subseteq Pages
         /\ \A p \in DOMAIN sp.pte : sp.pte[p] \in [frame : Frames, write : BOOLEAN]
         /\ sp.swapped = [p \in DOMAIN sp.swapped |-> sp.swapped[p]]
         /\ DOMAIN sp.swapped \subseteq Pages
         /\ \A p \in DOMAIN sp.swapped : sp.swapped[p] \in Slots
         /\ sp.next \in Nat
         /\ sp # NoSpace
<1>1. sp.pte \in Tables /\ sp.swapped \in Staged
  BY DEF AddressSpaces
<1>2. sp # NoSpace
  BY MemoryAssumption
<1>3. sp = [owned |-> sp.owned, tables |-> sp.tables, regions |-> sp.regions,
            pte |-> sp.pte, swapped |-> sp.swapped, next |-> sp.next]
      /\ sp.owned \subseteq Frames /\ sp.tables \subseteq Nat /\ sp.regions \subseteq Areas
      /\ sp.next \in Nat
  BY DEF AddressSpaces
<1> QED BY <1>1, <1>2, <1>3, EntryTypes

(* A page of a region lies below the hint. *)
LEMMA BelowHint ==
  ASSUME NEW s, NEW sp, SpaceOK(s, sp), NEW p \in Pages,
         NEW r \in sp.regions, InRegion(r, p)
  PROVE  p < sp.next
<1>1. r.end \in Nat /\ r.end <= sp.next /\ sp.next \in Nat
  BY DEF SpaceOK, AreaOK, Areas
<1> QED BY <1>1, Bounds DEF InRegion

LEMMA TableOfPage ==
  ASSUME NEW p \in Pages
  PROVE  TableOf(p) \in Nat
BY Bounds, MemoryAssumption DEF TableOf

-----------------------------------------------------------------------------
(* Steps from one record w of the state to another, v.  Most change one    *)
(* space; what the others own, map and have staged stays.                  *)
Rest(w, v) ==
    v.surface = w.surface /\ v.creating = w.creating /\ v.value = w.value /\ v.stale = w.stale

Replaced(w, v, s, n) == v.space = [w.space EXCEPT ![s] = n]

LEMMA Others ==
  ASSUME NEW w, NEW v, NEW s \in Spaces, NEW n, w.space = [t \in Spaces |-> w.space[t]],
         Replaced(w, v, s, n)
  PROVE  /\ v.space = [t \in Spaces |-> v.space[t]]
         /\ v.space[s] = n
         /\ \A t \in Spaces : t # s => v.space[t] = w.space[t]
         /\ \A t \in Spaces : t # s =>
               /\ IsLive(v.space, t) <=> IsLive(w.space, t)
               /\ \A f : Owns(v.space, t, f) <=> Owns(w.space, t, f)
               /\ \A p, f : Maps(v.space, t, p, f) <=> Maps(w.space, t, p, f)
               /\ \A p, x : Shows(v.space, t, p, x) <=> Shows(w.space, t, p, x)
               /\ \A p, r : Untouched(v.space, t, p, r) <=> Untouched(w.space, t, p, r)
<1>1. v.space = [t \in Spaces |-> v.space[t]] /\ v.space[s] = n
  BY DEF Replaced
<1>2. \A t \in Spaces : t # s => v.space[t] = w.space[t]
  BY DEF Replaced
<1> QED BY <1>1, <1>2 DEF IsLive, Owns, Maps, Shows, Untouched

(* The same for the space s itself, which n takes the place of.            *)
LEMMA Renewed ==
  ASSUME NEW w, NEW v, Typed(w), NEW s \in Spaces, NEW n \in AddressSpaces,
         Replaced(w, v, s, n)
  PROVE  /\ v.space = [t \in Spaces |-> v.space[t]]
         /\ v.space[s] = n /\ IsLive(v.space, s)
         /\ \A t \in Spaces : t # s => v.space[t] = w.space[t]
         /\ \A t \in Spaces : t # s =>
               /\ IsLive(v.space, t) <=> IsLive(w.space, t)
               /\ \A f : Owns(v.space, t, f) <=> Owns(w.space, t, f)
               /\ \A p, f : Maps(v.space, t, p, f) <=> Maps(w.space, t, p, f)
               /\ \A p, x : Shows(v.space, t, p, x) <=> Shows(w.space, t, p, x)
               /\ \A p, r : Untouched(v.space, t, p, r) <=> Untouched(w.space, t, p, r)
         /\ \A f : Owns(v.space, s, f) <=> f \in n.owned
         /\ \A p, f : Maps(v.space, s, p, f) <=> p \in DOMAIN n.pte /\ n.pte[p].frame = f
         /\ \A p, x : Shows(v.space, s, p, x) <=> p \in DOMAIN n.swapped /\ n.swapped[p] = x
         /\ \A p, r : Untouched(v.space, s, p, r) <=>
               r \in n.regions /\ InRegion(r, p) /\ p \notin DOMAIN n.pte /\ p \notin DOMAIN n.swapped
<1>1. w.space = [t \in Spaces |-> w.space[t]]
  BY DEF Typed
<1>2. n # NoSpace
  BY MemoryAssumption
<1>3. /\ v.space = [t \in Spaces |-> v.space[t]]
      /\ v.space[s] = n
      /\ \A t \in Spaces : t # s => v.space[t] = w.space[t]
  BY <1>1, Others
<1>4. IsLive(v.space, s)
  BY <1>2, <1>3 DEF IsLive
<1>5. \A t \in Spaces : t # s =>
         /\ IsLive(v.space, t) <=> IsLive(w.space, t)
         /\ \A f : Owns(v.space, t, f) <=> Owns(w.space, t, f)
         /\ \A p, f : Maps(v.space, t, p, f) <=> Maps(w.space, t, p, f)
         /\ \A p, x : Shows(v.space, t, p, x) <=> Shows(w.space, t, p, x)
         /\ \A p, r : Untouched(v.space, t, p, r) <=> Untouched(w.space, t, p, r)
  BY <1>3 DEF IsLive, Owns, Maps, Shows, Untouched
<1>6. /\ \A f : Owns(v.space, s, f) <=> f \in n.owned
      /\ \A p, f : Maps(v.space, s, p, f) <=> p \in DOMAIN n.pte /\ n.pte[p].frame = f
      /\ \A p, x : Shows(v.space, s, p, x) <=> p \in DOMAIN n.swapped /\ n.swapped[p] = x
      /\ \A p, r : Untouched(v.space, s, p, r) <=>
            r \in n.regions /\ InRegion(r, p) /\ p \notin DOMAIN n.pte /\ p \notin DOMAIN n.swapped
  BY <1>3, <1>4 DEF Owns, Maps, Shows, Untouched
<1> QED BY <1>3, <1>4, <1>5, <1>6

(* What of the live space s the relations say. *)
LEMMA Here ==
  ASSUME NEW w, Typed(w), NEW s \in Spaces, IsLive(w.space, s)
  PROVE  /\ SpaceOK(s, w.space[s]) /\ w.space[s] \in AddressSpaces
         /\ \A f : Owns(w.space, s, f) <=> f \in w.space[s].owned
         /\ \A p, f : Maps(w.space, s, p, f) <=>
               p \in DOMAIN w.space[s].pte /\ w.space[s].pte[p].frame = f
         /\ \A p, x : Shows(w.space, s, p, x) <=>
               p \in DOMAIN w.space[s].swapped /\ w.space[s].swapped[p] = x
         /\ \A p, r : Untouched(w.space, s, p, r) <=>
               /\ r \in w.space[s].regions /\ InRegion(r, p)
               /\ p \notin DOMAIN w.space[s].pte /\ p \notin DOMAIN w.space[s].swapped
BY DEF Typed, SpaceOK, IsLive, Owns, Maps, Shows, Untouched

(* A mapped page is a page and its frame a frame. *)
LEMMA MapsTypes ==
  ASSUME NEW w, Typed(w), NEW s \in Spaces
  PROVE  /\ \A p, f : Maps(w.space, s, p, f) => p \in Pages /\ f \in Frames
         /\ \A p, x : Shows(w.space, s, p, x) => p \in Pages /\ x \in Slots
         /\ \A f : Owns(w.space, s, f) => f \in Frames
<1>1. CASE IsLive(w.space, s)
  <2>1. w.space[s] \in AddressSpaces
    BY <1>1, Here
  <2>2. /\ w.space[s].owned \subseteq Frames
        /\ DOMAIN w.space[s].pte \subseteq Pages
        /\ \A p \in DOMAIN w.space[s].pte : w.space[s].pte[p].frame \in Frames
        /\ DOMAIN w.space[s].swapped \subseteq Pages
        /\ \A p \in DOMAIN w.space[s].swapped : w.space[s].swapped[p] \in Slots
    BY <2>1, SpaceFields
  <2> QED BY <2>2 DEF Maps, Shows, Owns
<1>2. CASE ~IsLive(w.space, s)
  BY <1>2 DEF Maps, Shows, Owns
<1> QED BY <1>1, <1>2

LEMMA CacheTypes ==
  ASSUME NEW w, Typed(w)
  PROVE  /\ \A x \in DOMAIN w.cache : /\ w.cache[x].frame \in Frames
                                      /\ w.cache[x].refs \in Nat \ {0}
                                      /\ IsCached(w.cache, w.cache[x].frame)
         /\ \A f : IsCached(w.cache, f) => f \in Frames
BY DEF Typed, IsCached

LEMMA SurfaceTypes ==
  ASSUME NEW w, Typed(w), NEW i \in DOMAIN w.surface
  PROVE  /\ w.surface[i].owner \in Spaces
         /\ Len(w.surface[i].frames) \in 1 .. MaxRegion
         /\ w.surface[i].frames \in [1 .. Len(w.surface[i].frames) -> Frames]
         /\ \A k \in DOMAIN w.surface[i].frames : /\ w.surface[i].frames[k] \in Frames
                                                  /\ IsOnSurface(w.surface, w.surface[i].frames[k])
<1>1. PICK n \in 1 .. MaxRegion : w.surface[i].frames \in [1 .. n -> Frames]
  BY DEF Typed, SurfaceOK
<1>2. w.surface[i].frames \in Seq(Frames) /\ Len(w.surface[i].frames) = n
  BY <1>1, MemoryAssumption
<1> QED BY <1>1, <1>2 DEF Typed, SurfaceOK, IsOnSurface

LEMMA CreatingTypes ==
  ASSUME NEW w, Typed(w), NEW s \in Spaces, w.creating[s] # 0
  PROVE  /\ IsLive(w.space, s) /\ w.creating[s] \in DOMAIN w.surface
         /\ \A k \in DOMAIN w.surface[w.creating[s]].frames :
               /\ w.surface[w.creating[s]].frames[k] \in Frames
               /\ IsOnSurface(w.surface, w.surface[w.creating[s]].frames[k])
<1>1. IsLive(w.space, s) /\ w.creating[s] \in DOMAIN w.surface
  BY DEF Typed
<1> QED BY <1>1, SurfaceTypes

(* The types after a step that replaces one space, the frames and cached   *)
(* pages it shares, and no surface.                                        *)
LEMMA TypedOne ==
  ASSUME NEW w, NEW v, Typed(w), NEW s \in Spaces, IsLive(w.space, s), NEW n,
         SpaceOK(s, n), n \in AddressSpaces, Replaced(w, v, s, n), Rest(w, v),
         v.free \subseteq Frames, v.lost \subseteq Frames, v.mem \in [Frames -> Contents],
         \/ v.cache = w.cache
         \/ /\ DOMAIN v.cache \subseteq Files
            /\ IsFiniteSet(DOMAIN v.cache) /\ Cardinality(DOMAIN v.cache) <= MaxCachePages
            /\ \A x \in DOMAIN v.cache : v.cache[x] \in [frame : Frames, refs : Nat \ {0}]
  PROVE  /\ Typed(v) /\ v.space[s] = n /\ IsLive(v.space, s)
         /\ \A t \in Spaces : t # s => v.space[t] = w.space[t]
<1>1. /\ v.space = [t \in Spaces |-> v.space[t]] /\ v.space[s] = n /\ IsLive(v.space, s)
      /\ \A t \in Spaces : t # s => v.space[t] = w.space[t]
  BY Renewed
<1>2. \A t \in Spaces : IsLive(w.space, t) <=> IsLive(v.space, t)
  BY <1>1 DEF IsLive
<1>3. \A t \in Spaces : IsLive(v.space, t) => SpaceOK(t, v.space[t])
  BY <1>1, <1>2 DEF Typed
<1>4. /\ DOMAIN v.cache \subseteq Files
      /\ IsFiniteSet(DOMAIN v.cache) /\ Cardinality(DOMAIN v.cache) <= MaxCachePages
      /\ \A x \in DOMAIN v.cache : v.cache[x] \in [frame : Frames, refs : Nat \ {0}]
  BY DEF Typed
<1>5. /\ DOMAIN v.surface \subseteq Surfaces
      /\ \A i \in DOMAIN v.surface : SurfaceOK(v.surface[i])
      /\ v.creating = [t \in Spaces |-> v.creating[t]]
      /\ \A t \in Spaces : v.creating[t] # 0 =>
            /\ IsLive(v.space, t)
            /\ v.creating[t] \in DOMAIN v.surface
            /\ v.surface[v.creating[t]].owner = t
      /\ v.value \in [Spaces -> [Pages -> Contents]] /\ v.stale \in BOOLEAN
  BY <1>2 DEF Typed, Rest
<1> QED BY <1>1, <1>3, <1>4, <1>5 DEF Typed

(* What the allocator has, no page maps and no surface holds.              *)
LEMMA FreeUnused ==
  ASSUME NEW w, Typed(w), Hands(w), NEW f \in w.free
  PROVE  /\ f \in Frames
         /\ ~IsCached(w.cache, f) /\ ~IsOnSurface(w.surface, f) /\ f \notin w.lost
         /\ \A s \in Spaces : ~Owns(w.space, s, f)
         /\ Backed(w) => \A s \in Spaces : \A p : ~Maps(w.space, s, p, f)
<1>1. /\ f \in Frames
      /\ ~IsCached(w.cache, f) /\ ~IsOnSurface(w.surface, f) /\ f \notin w.lost
      /\ \A s \in Spaces : ~Owns(w.space, s, f)
  BY DEF Typed, Hands, IsOwned
<1>2. ASSUME Backed(w), NEW s \in Spaces, NEW p, Maps(w.space, s, p, f) PROVE FALSE
  BY <1>1, <1>2, MapsTypes DEF Backed
<1> QED BY <1>1, <1>2

LEMMA OwnedApart ==
  ASSUME NEW w, Typed(w), Hands(w), NEW s \in Spaces, NEW f, Owns(w.space, s, f)
  PROVE  /\ f \in Frames /\ f \notin w.free /\ f \notin w.lost
         /\ ~IsCached(w.cache, f) /\ ~IsOnSurface(w.surface, f)
         /\ \A t \in Spaces : Owns(w.space, t, f) => t = s
         /\ Backed(w) => \A t \in Spaces : \A p : Maps(w.space, t, p, f) => t = s
<1>1. f \in Frames
  BY MapsTypes
<1>2. IsOwned(w.space, f)
  BY DEF IsOwned
<1>3. /\ f \notin w.free /\ f \notin w.lost
      /\ ~IsCached(w.cache, f) /\ ~IsOnSurface(w.surface, f)
      /\ \A t \in Spaces : Owns(w.space, t, f) => t = s
  BY <1>1, <1>2 DEF Hands
<1>4. ASSUME Backed(w), NEW t \in Spaces, NEW p, Maps(w.space, t, p, f) PROVE t = s
  BY <1>1, <1>3, <1>4, MapsTypes DEF Backed
<1> QED BY <1>1, <1>3, <1>4

-----------------------------------------------------------------------------
(* The content of free frames is of no consequence. *)
LEMMA FreeContent ==
  ASSUME NEW w, NEW v, Inv(w), Rest(w, v), v.mem \in [Frames -> Contents],
         \A f \in Frames : f \notin w.free => v.mem[f] = w.mem[f],
         v.free = w.free, v.cache = w.cache, v.swap = w.swap, v.lost = w.lost,
         v.space = w.space
  PROVE  Inv(v)
<1>1. Typed(v) /\ Hands(v) /\ SwapKept(v)
  <2>1. Typed(v)
    BY DEF Inv, Typed, Rest
  <2>2. Hands(v)
    BY DEF Inv, Hands, Rest
  <2>3. SwapKept(v)
    BY DEF Inv, SwapKept, Rest
  <2> QED BY <2>1, <2>2, <2>3
<1>2. ASSUME ~v.stale PROVE Backed(v) /\ Kept(v)
  <2>1. Typed(w) /\ Hands(w) /\ Backed(w) /\ Kept(w)
    BY <1>2 DEF Inv, Rest
  <2>2. Backed(v)
    BY <2>1 DEF Backed, Rest
  <2>3. \A x \in DOMAIN w.cache : v.mem[w.cache[x].frame] = w.mem[w.cache[x].frame]
    BY <2>1, CacheTypes, FreeUnused
  <2>4. \A s \in Spaces, p \in Pages, f \in Frames :
           Maps(w.space, s, p, f) => v.mem[f] = w.mem[f]
    BY <2>1, FreeUnused
  <2>5. \A s \in Spaces : w.creating[s] # 0 =>
          \A k \in DOMAIN w.surface[w.creating[s]].frames :
             v.mem[w.surface[w.creating[s]].frames[k]] = w.mem[w.surface[w.creating[s]].frames[k]]
    <3>1. \A s \in Spaces : w.creating[s] # 0 => w.creating[s] \in DOMAIN w.surface
      BY ZenonT(30), <2>1 DEF Typed
    <3> QED BY SMTT(30), <3>1, <2>1, SurfaceTypes, FreeUnused
  <2>6. Kept(v)
    <3>1. \A x \in DOMAIN w.cache : v.mem[w.cache[x].frame] = x
      BY ONLY <2>1, <2>3 DEF Kept
    <3>2. \A s \in Spaces, p \in Pages, f \in Frames :
             Maps(w.space, s, p, f) => v.mem[f] = w.value[s][p]
      BY ONLY SMTT(30), <2>1, <2>4 DEF Kept
    <3>3. \A s \in Spaces : w.creating[s] # 0 =>
             \A k \in DOMAIN w.surface[w.creating[s]].frames :
                v.mem[w.surface[w.creating[s]].frames[k]] = Zero
      BY ONLY <2>1, <2>5 DEF Kept
    <3>4. /\ v.cache = w.cache /\ v.space = w.space /\ v.swap = w.swap
          /\ v.surface = w.surface /\ v.creating = w.creating /\ v.value = w.value
      BY DEF Rest
    <3> QED BY ONLY <2>1, <3>1, <3>2, <3>3, <3>4 DEF Kept
  <2> QED BY <2>2, <2>6
<1> QED BY <1>1, <1>2 DEF Inv

-----------------------------------------------------------------------------
(* swap_out_one_page. *)
SwappedOut(w, v, s, sp, n, p, f, x) ==
    /\ sp = w.space[s] /\ p \in DOMAIN sp.pte /\ f = sp.pte[p].frame /\ f \in sp.owned
    /\ \E r \in sp.regions : InRegion(r, p)
    /\ x \in Slots \ DOMAIN w.swap
    /\ n = [owned |-> sp.owned \ {f}, tables |-> sp.tables, regions |-> sp.regions,
            pte |-> Without(sp.pte, p), swapped |-> With(sp.swapped, p, x), next |-> sp.next]
    /\ Rest(w, v) /\ Replaced(w, v, s, n)
    /\ v.free = w.free \cup {f} /\ v.mem = w.mem /\ v.cache = w.cache /\ v.lost = w.lost
    /\ v.swap = With(w.swap, x, w.mem[f])

LEMMA SwapOutKeeps ==
  ASSUME NEW w, NEW v, Inv(w), NEW s \in Spaces, IsLive(w.space, s),
         NEW sp, NEW n, NEW p, NEW f, NEW x, SwappedOut(w, v, s, sp, n, p, f, x)
  PROVE  Inv(v)
<1>1. Typed(w) /\ Hands(w) /\ SwapKept(w) /\ (~w.stale => Backed(w) /\ Kept(w))
  BY SMTT(30) DEF Inv
<1>0. sp = w.space[s] /\ p \in DOMAIN sp.pte /\ f = sp.pte[p].frame /\ f \in sp.owned
      /\ (\E r \in sp.regions : InRegion(r, p)) /\ x \in Slots /\ x \notin DOMAIN w.swap
  BY DEF SwappedOut
<1>2. SpaceOK(s, sp) /\ sp \in AddressSpaces
  BY ZenonT(30), <1>0, <1>1, Here
<1>3. /\ n = [owned |-> n.owned, tables |-> n.tables, regions |-> n.regions,
               pte |-> n.pte, swapped |-> n.swapped, next |-> n.next]
      /\ n.owned = sp.owned \ {f} /\ n.tables = sp.tables /\ n.regions = sp.regions
      /\ n.pte = Without(sp.pte, p) /\ n.swapped = With(sp.swapped, p, x) /\ n.next = sp.next
  BY DEF SwappedOut
<1>4. /\ n.pte = [q \in DOMAIN sp.pte \ {p} |-> sp.pte[q]]
      /\ DOMAIN n.pte = DOMAIN sp.pte \ {p} /\ \A q \in DOMAIN n.pte : n.pte[q] = sp.pte[q]
  BY <1>3 DEF Without
<1>5. /\ n.swapped = [q \in DOMAIN n.swapped |-> n.swapped[q]]
      /\ DOMAIN n.swapped = DOMAIN sp.swapped \cup {p} /\ n.swapped[p] = x
      /\ \A q \in DOMAIN sp.swapped \ {p} : n.swapped[q] = sp.swapped[q]
  BY SMTT(30), <1>3 DEF With
<1>55. /\ Replaced(w, v, s, n) /\ Rest(w, v)
       /\ v.free = w.free \cup {f} /\ v.mem = w.mem /\ v.cache = w.cache /\ v.lost = w.lost
       /\ v.swap = With(w.swap, x, w.mem[f])
  BY DEF SwappedOut
<1>6. p \in Pages /\ f \in Frames
  BY <1>0, <1>2, SpaceFields
<1>7. n \in AddressSpaces
  <2>1. n.pte \in Tables
    <3>1. DOMAIN n.pte \subseteq Pages
          /\ \A q \in DOMAIN n.pte : n.pte[q] \in [frame : Frames, write : BOOLEAN]
      BY <1>2, <1>4, SpaceFields
    <3>2. n.pte = [q \in DOMAIN n.pte |-> n.pte[q]]
      BY <1>4
    <3> QED BY <3>1, <3>2, EntryTypes
  <2>2. n.swapped \in Staged
    <3>1. DOMAIN n.swapped \subseteq Pages /\ \A q \in DOMAIN n.swapped : n.swapped[q] \in Slots
      BY <1>0, <1>2, <1>5, <1>6, SpaceFields
    <3> QED BY <1>5, <3>1, EntryTypes
  <2>3. sp.owned \subseteq Frames /\ sp.tables \subseteq Nat /\ sp.regions \subseteq Areas
        /\ sp.next \in Nat
    BY <1>2, SpaceFields
  <2> QED BY <1>3, <2>1, <2>2, <2>3 DEF AddressSpaces
<1>8. SpaceOK(s, n)
  <2>1. Cardinality(n.owned) <= MaxOwned
    <3>1. sp.owned \in SUBSET Frames /\ n.owned \in SUBSET Frames
      BY <1>2, <1>3, SpaceFields
    <3>2. Cardinality(n.owned) <= Cardinality(sp.owned)
      BY <1>3, <3>1, OwnedSizes
    <3>3. Cardinality(sp.owned) \in Nat /\ Cardinality(n.owned) \in Nat
      BY <3>1, OwnedFinite
    <3>4. Cardinality(sp.owned) <= MaxOwned
      BY <1>2 DEF SpaceOK
    <3> QED BY <3>2, <3>3, <3>4, MemoryAssumption
  <2>2. \A q \in DOMAIN n.pte : TableOf(q) \in n.tables /\ q < n.next
    BY <1>2, <1>3, <1>4 DEF SpaceOK
  <2>3. \A q \in DOMAIN n.swapped : /\ TableOf(q) \in n.tables
                                    /\ \E r \in n.regions : InRegion(r, q)
    <3>1. TableOf(p) \in n.tables /\ \E r \in n.regions : InRegion(r, p)
      BY <1>0, <1>2, <1>3 DEF SpaceOK
    <3>2. \A q \in DOMAIN sp.swapped : /\ TableOf(q) \in n.tables
                                        /\ \E r \in n.regions : InRegion(r, q)
      BY <1>2, <1>3 DEF SpaceOK
    <3> QED BY SMTT(30), <1>5, <3>1, <3>2
  <2>4. /\ n.next \in Nat \ {0} /\ IsFiniteSet(n.regions) /\ Cardinality(n.regions) <= MaxVmAreas
        /\ \A r \in n.regions : AreaOK(s, r) /\ r.end <= n.next
        /\ \A r, q \in n.regions : \A y \in Pages : InRegion(r, y) /\ InRegion(q, y) => r = q
    BY <1>2, <1>3 DEF SpaceOK
  <2> QED BY <1>7, <2>1, <2>2, <2>3, <2>4 DEF SpaceOK
<1>9. /\ v.space = [t \in Spaces |-> v.space[t]] /\ v.space[s] = n
      /\ \A t \in Spaces : t # s => v.space[t] = w.space[t]
      /\ \A t \in Spaces : IsLive(v.space, t) <=> IsLive(w.space, t)
  <2>1. /\ v.space = [t \in Spaces |-> v.space[t]] /\ v.space[s] = n /\ IsLive(v.space, s)
        /\ \A t \in Spaces : t # s => v.space[t] = w.space[t]
    BY SMTT(30), <1>1, <1>55, <1>7, Renewed
  <2> QED BY <2>1 DEF IsLive
<1>10. Typed(v)
  <2>1. \A t \in Spaces : IsLive(v.space, t) => SpaceOK(t, v.space[t])
    BY <1>1, <1>8, <1>9 DEF Typed
  <2>2. v.free \subseteq Frames
    BY <1>1, <1>55, <1>6 DEF Typed
  <2> QED BY <1>1, <1>55, <1>9, <2>1, <2>2 DEF Typed, Rest
<1>11. /\ \A t \in Spaces : \A g : Owns(v.space, t, g) <=> Owns(w.space, t, g) /\ ~(t = s /\ g = f)
       /\ \A t \in Spaces : \A q, g : Maps(v.space, t, q, g) <=>
             Maps(w.space, t, q, g) /\ ~(t = s /\ q = p)
       /\ \A t \in Spaces : \A q, y : Shows(v.space, t, q, y) <=>
             (Shows(w.space, t, q, y) /\ ~(t = s /\ q = p)) \/ (t = s /\ q = p /\ y = x)
       /\ \A t \in Spaces : \A q, r : Untouched(v.space, t, q, r) <=> Untouched(w.space, t, q, r)
  <2>1. \A t \in Spaces : t # s =>
            /\ \A g : Owns(v.space, t, g) <=> Owns(w.space, t, g)
            /\ \A q, g : Maps(v.space, t, q, g) <=> Maps(w.space, t, q, g)
            /\ \A q, y : Shows(v.space, t, q, y) <=> Shows(w.space, t, q, y)
            /\ \A q, r : Untouched(v.space, t, q, r) <=> Untouched(w.space, t, q, r)
    BY <1>9 DEF IsLive, Owns, Maps, Shows, Untouched
  <2>2. \A g : Owns(v.space, s, g) <=> Owns(w.space, s, g) /\ g # f
    BY <1>0, <1>3, <1>9 DEF Owns, IsLive
  <2>3. \A q, g : Maps(v.space, s, q, g) <=> Maps(w.space, s, q, g) /\ q # p
    BY <1>0, <1>4, <1>9 DEF Maps, IsLive
  <2>4. \A q, y : Shows(v.space, s, q, y) <=> (Shows(w.space, s, q, y) /\ q # p) \/ (q = p /\ y = x)
    BY SMTT(30), <1>0, <1>5, <1>9 DEF Shows, IsLive
  <2>5. \A q, r : Untouched(v.space, s, q, r) <=> Untouched(w.space, s, q, r)
    BY <1>0, <1>3, <1>4, <1>5, <1>9 DEF Untouched, IsLive
  <2> QED BY <2>1, <2>2, <2>3, <2>4, <2>5
<1>12. Owns(w.space, s, f) /\ Maps(w.space, s, p, f)
  BY <1>0 DEF Owns, Maps
<1>13. /\ f \notin w.free /\ f \notin w.lost
       /\ ~IsCached(w.cache, f) /\ ~IsOnSurface(w.surface, f)
       /\ \A t \in Spaces : Owns(w.space, t, f) => t = s
  BY <1>1, <1>12, OwnedApart
<1>14. /\ DOMAIN v.swap = DOMAIN w.swap \cup {x} /\ v.swap[x] = w.mem[f]
       /\ \A y \in DOMAIN w.swap : v.swap[y] = w.swap[y]
  BY Zenon, <1>0, <1>55 DEF With
<1>15. Hands(v)
  <2>1. \A g : IsOwned(v.space, g) <=> IsOwned(w.space, g) /\ g # f
    BY <1>11, <1>13 DEF IsOwned
  <2> QED BY <1>1, <1>6, <1>11, <1>13, <1>55, <2>1 DEF Hands, Rest
<1>16. SwapKept(v)
  <2>2. w.mem[f] \in Contents
    BY <1>1, <1>6 DEF Typed
  <2>3. \A t \in Spaces, q \in Pages : ~Shows(w.space, t, q, x)
    BY <1>0, <1>1 DEF SwapKept
  <2>4. ASSUME ~v.stale
        PROVE  \A y \in DOMAIN v.swap : \E t \in Spaces, q \in Pages : Shows(v.space, t, q, y)
    <3>1. ~w.stale /\ Backed(w)
      BY <1>1, <1>55, <2>4 DEF Rest
    <3>2. \A y \in Slots : ~Shows(w.space, s, p, y)
      BY <1>6, <1>12, <3>1 DEF Backed
    <3>3. \A y \in DOMAIN w.swap : y \in Slots /\ \E t \in Spaces, q \in Pages : Shows(w.space, t, q, y)
      BY <1>1, <3>1 DEF SwapKept
    <3> QED BY <1>6, <1>11, <1>14, <3>2, <3>3
  <2>5. DOMAIN v.swap \subseteq Slots /\ \A y \in DOMAIN v.swap : v.swap[y] \in Contents
    BY <1>0, <1>1, <1>14, <2>2 DEF SwapKept
  <2>6. \A t \in Spaces, q \in Pages, y \in Slots : Shows(v.space, t, q, y) => y \in DOMAIN v.swap
    BY <1>1, <1>11, <1>14 DEF SwapKept
  <2>7. \A t, u \in Spaces, q, z \in Pages, y \in Slots :
           Shows(v.space, t, q, y) /\ Shows(v.space, u, z, y) => t = u /\ q = z
    BY <1>0, <1>1, <1>6, <1>11, <2>3 DEF SwapKept
  <2> QED BY <2>4, <2>5, <2>6, <2>7 DEF SwapKept
<1>17. ASSUME ~v.stale PROVE Backed(v) /\ Kept(v)
  <2>1. Backed(w) /\ Kept(w)
    BY <1>1, <1>17, <1>55 DEF Rest
  <2>2. \A t \in Spaces, q \in Pages : Maps(w.space, t, q, f) => t = s /\ q = p
    BY <1>6, <1>12, <1>13, <2>1 DEF Backed
  <2>3. \A t \in Spaces, q \in Pages, g \in Frames : Maps(v.space, t, q, g) =>
           v.space[t].pte[q] = w.space[t].pte[q]
    <3>1. ASSUME NEW q, NEW g, Maps(v.space, s, q, g) PROVE v.space[s].pte[q] = w.space[s].pte[q]
      BY <1>0, <1>4, <1>9, <3>1 DEF Maps
    <3> QED BY <1>9, <3>1
  <2>4. \A g : IsCached(w.cache, g) => MappersIn(v.space, g) = MappersIn(w.space, g)
    BY <1>11, <1>12, <1>13 DEF MappersIn, Maps
  <2>5. \A t \in Spaces : IsLive(v.space, t) => RegionsKept(v.space[t])
    <3>1. RegionsKept(n)
      <4>1. RegionsKept(sp) /\ sp.pte[p].write
        <5>1. RegionsKept(sp)
          BY <1>0, <2>1 DEF Backed
        <5>2. sp.pte[p].write
          BY Zenon, <1>0, <1>6, <1>12, <1>13, <2>1 DEF Backed
        <5> QED BY <5>1, <5>2
      <4>2. ASSUME NEW r \in n.regions, NEW q \in Pages, InRegion(r, q), ~r.write
            PROVE  q \notin DOMAIN n.swapped /\ (q \in DOMAIN n.pte => ~n.pte[q].write)
        <5>1. q \notin DOMAIN sp.swapped /\ (q \in DOMAIN sp.pte => ~sp.pte[q].write)
          BY <1>3, <4>1, <4>2 DEF RegionsKept
        <5>2. q # p
          BY <1>0, <4>1, <5>1
        <5> QED BY <1>4, <1>5, <5>1, <5>2
      <4>3. \A q \in DOMAIN n.pte : \E r \in n.regions : InRegion(r, q)
        BY <1>3, <1>4, <4>1 DEF RegionsKept
      <4> QED BY <4>2, <4>3 DEF RegionsKept
    <3> QED BY <1>9, <2>1, <3>1 DEF Backed
  <2>6. \A y \in DOMAIN w.cache : IsCached(w.cache, w.cache[y].frame)
    BY DEF IsCached
  <2>7. Backed(v)
    <3>1. \A t \in Spaces, q \in Pages, g \in Frames : Maps(v.space, t, q, g) =>
              /\ Owns(v.space, t, g) \/ IsCached(v.cache, g) \/ IsOnSurface(v.surface, g)
              /\ v.space[t].pte[q].write <=> ~IsCached(v.cache, g)
      BY <1>11, <1>12, <1>13, <1>55, <2>1, <2>2, <2>3 DEF Backed, Rest
    <3>2. \A y \in DOMAIN v.cache :
             v.cache[y].refs = Cardinality(MappersIn(v.space, v.cache[y].frame))
      BY <1>55, <2>1, <2>4, <2>6 DEF Backed
    <3>3. \A t \in Spaces, q \in Pages, g \in Frames, y \in Slots :
             ~(Maps(v.space, t, q, g) /\ Shows(v.space, t, q, y))
      BY <1>11, <2>1 DEF Backed
    <3>4. \A t, u \in Spaces, q, z \in Pages, g \in Frames :
             Maps(v.space, t, q, g) /\ Maps(v.space, u, z, g) /\ ~IsCached(v.cache, g) =>
                t = u /\ q = z
      BY <1>11, <1>55, <2>1 DEF Backed
    <3>5. \A t, u \in Spaces, q \in Pages : v.creating[t] # 0 =>
             \A k \in DOMAIN v.surface[v.creating[t]].frames :
                ~Maps(v.space, u, q, v.surface[v.creating[t]].frames[k])
      BY SMTT(30), <1>11, <1>55, <2>1 DEF Backed, Rest
    <3> QED BY <2>5, <3>1, <3>2, <3>3, <3>4, <3>5 DEF Backed
  <2>8. Kept(v)
    <3>1. \A t \in Spaces, q \in Pages, y \in Slots :
             Shows(v.space, t, q, y) => v.swap[y] = v.value[t][q]
      <4>1. v.swap[x] = w.value[s][p]
        <5>1. \A t \in Spaces, q \in Pages, g \in Frames :
                Maps(w.space, t, q, g) => w.mem[g] = w.value[t][q]
          BY <2>1 DEF Kept
        <5>2. w.mem[f] = w.value[s][p]
          BY <1>6, <1>12, <5>1
        <5> QED BY <1>14, <5>2
      <4>2. \A y \in DOMAIN w.swap : v.swap[y] = w.swap[y]
        BY SMTT(30), <1>14
      <4>3. \A t \in Spaces, q \in Pages, y \in Slots :
              Shows(w.space, t, q, y) => y \in DOMAIN w.swap /\ w.swap[y] = w.value[t][q]
        BY <1>1, <2>1 DEF Kept, SwapKept
      <4>4. v.value = w.value
        BY <1>55 DEF Rest
      <4> QED BY <1>11, <4>1, <4>2, <4>3, <4>4
    <3>2. \A t \in Spaces : IsLive(v.space, t) => v.space[t].next = w.space[t].next
      BY <1>0, <1>3, <1>9
    <3> QED BY <1>9, <1>11, <1>55, <2>1, <3>1, <3>2 DEF Kept, Rest
  <2> QED BY <2>7, <2>8
<1> QED BY <1>10, <1>15, <1>16, <1>17 DEF Inv

(* alloc_owned_frame, once there is a free frame.                          *)
TakenOwned(w, v, s, sp, n, f) ==
    /\ sp = w.space[s] /\ f \in w.free /\ Cardinality(sp.owned) < MaxOwned
    /\ n = [owned |-> sp.owned \cup {f}, tables |-> sp.tables, regions |-> sp.regions,
            pte |-> sp.pte, swapped |-> sp.swapped, next |-> sp.next]
    /\ Rest(w, v) /\ Replaced(w, v, s, n)
    /\ v.free = w.free \ {f} /\ v.mem = [w.mem EXCEPT ![f] = Zero]
    /\ v.cache = w.cache /\ v.lost = w.lost /\ v.swap = w.swap

LEMMA TakeOwnedKeeps ==
  ASSUME NEW w, NEW v, Inv(w), NEW s \in Spaces, IsLive(w.space, s),
         NEW sp, NEW n, NEW f, TakenOwned(w, v, s, sp, n, f)
  PROVE  /\ Inv(v) /\ IsLive(v.space, s) /\ v.space[s] = n
         /\ ~v.stale => \A p : ~Maps(v.space, s, p, f)
<1>1. Typed(w) /\ Hands(w) /\ SwapKept(w) /\ (~w.stale => Backed(w) /\ Kept(w))
  BY DEF Inv
<1>2. sp = w.space[s] /\ f \in w.free /\ Cardinality(sp.owned) < MaxOwned
  BY DEF TakenOwned
<1>3. SpaceOK(s, sp) /\ sp \in AddressSpaces
  BY <1>1, <1>2, Here
<1>4. /\ n = [owned |-> n.owned, tables |-> n.tables, regions |-> n.regions,
               pte |-> n.pte, swapped |-> n.swapped, next |-> n.next]
      /\ n.owned = sp.owned \cup {f} /\ n.tables = sp.tables /\ n.regions = sp.regions
      /\ n.pte = sp.pte /\ n.swapped = sp.swapped /\ n.next = sp.next
  BY DEF TakenOwned
<1>5. /\ Replaced(w, v, s, n) /\ Rest(w, v)
      /\ v.free = w.free \ {f} /\ v.mem = [w.mem EXCEPT ![f] = Zero]
      /\ v.cache = w.cache /\ v.lost = w.lost /\ v.swap = w.swap
  BY DEF TakenOwned
<1>6. /\ f \in Frames
      /\ ~IsCached(w.cache, f) /\ ~IsOnSurface(w.surface, f) /\ f \notin w.lost
      /\ \A t \in Spaces : ~Owns(w.space, t, f)
      /\ Backed(w) => \A t \in Spaces : \A p : ~Maps(w.space, t, p, f)
  BY <1>1, <1>2, FreeUnused
<1>7. n \in AddressSpaces
  BY <1>3, <1>4, <1>6 DEF AddressSpaces
<1>8. SpaceOK(s, n)
  <2>1. Cardinality(n.owned) <= MaxOwned
    <3>1. sp.owned \in SUBSET Frames /\ n.owned \in SUBSET Frames
      BY <1>3, <1>7 DEF AddressSpaces
    <3>2. Cardinality(n.owned) <= Cardinality(sp.owned) + 1
      BY <1>4, <3>1, OwnedSizes
    <3>3. Cardinality(sp.owned) \in Nat /\ Cardinality(n.owned) \in Nat
      BY <3>1, OwnedFinite
    <3> QED BY <1>2, <3>2, <3>3, MemoryAssumption
  <2> QED BY <1>3, <1>4, <1>7, <2>1 DEF SpaceOK
<1>9. /\ Typed(v) /\ v.space[s] = n /\ IsLive(v.space, s)
      /\ \A t \in Spaces : t # s => v.space[t] = w.space[t]
  <2>1. v.free \subseteq Frames /\ v.lost \subseteq Frames /\ v.mem \in [Frames -> Contents]
    BY ZenonT(30), <1>1, <1>5 DEF Typed, Contents
  <2> QED BY <1>1, <1>5, <1>7, <1>8, <2>1, TypedOne
<1>10. /\ \A t \in Spaces : IsLive(v.space, t) <=> IsLive(w.space, t)
       /\ \A t \in Spaces : IsLive(v.space, t) =>
             /\ v.space[t].pte = w.space[t].pte /\ v.space[t].swapped = w.space[t].swapped
             /\ v.space[t].regions = w.space[t].regions /\ v.space[t].next = w.space[t].next
       /\ \A t \in Spaces : \A g : Owns(v.space, t, g) <=> Owns(w.space, t, g) \/ (t = s /\ g = f)
  BY <1>2, <1>4, <1>9 DEF IsLive, Owns
<1>11. /\ \A t \in Spaces : \A p, g : Maps(v.space, t, p, g) <=> Maps(w.space, t, p, g)
       /\ \A t \in Spaces : \A p, x : Shows(v.space, t, p, x) <=> Shows(w.space, t, p, x)
       /\ \A t \in Spaces : \A p, r : Untouched(v.space, t, p, r) <=> Untouched(w.space, t, p, r)
       /\ \A t \in Spaces : IsLive(v.space, t) =>
             (RegionsKept(v.space[t]) <=> RegionsKept(w.space[t]))
       /\ \A g : MappersIn(v.space, g) = MappersIn(w.space, g)
  <2>1. \A t \in Spaces : \A p, g : Maps(v.space, t, p, g) <=> Maps(w.space, t, p, g)
    BY <1>10 DEF Maps
  <2> QED BY <1>10, <2>1 DEF Shows, Untouched, RegionsKept, MappersIn
<1>12. Hands(v)
  <2>1. \A g : IsOwned(v.space, g) <=> IsOwned(w.space, g) \/ g = f
    BY <1>10 DEF IsOwned
  <2> QED BY <1>1, <1>5, <1>6, <1>10, <2>1 DEF Hands, Rest
<1>13. SwapKept(v)
  BY <1>1, <1>5, <1>11 DEF SwapKept, Rest
<1>14. ASSUME ~v.stale PROVE Backed(v) /\ Kept(v)
  <2>1. Backed(w) /\ Kept(w)
    BY <1>1, <1>5, <1>14 DEF Rest
  <2>2. Backed(v)
    <3>1. \A t \in Spaces, p \in Pages, g \in Frames : Maps(v.space, t, p, g) =>
             v.space[t].pte[p] = w.space[t].pte[p]
      BY <1>10 DEF Maps
    <3>2. \A t \in Spaces, p \in Pages, g \in Frames : Maps(v.space, t, p, g) =>
             /\ Owns(v.space, t, g) \/ IsCached(v.cache, g) \/ IsOnSurface(v.surface, g)
             /\ v.space[t].pte[p].write <=> ~IsCached(v.cache, g)
      BY <1>5, <1>10, <1>11, <2>1, <3>1 DEF Backed, Rest
    <3>3. \A t \in Spaces : IsLive(v.space, t) => RegionsKept(v.space[t])
      BY <1>10, <1>11, <2>1 DEF Backed
    <3>4. \A t \in Spaces, p \in Pages, g \in Frames, x \in Slots :
             ~(Maps(v.space, t, p, g) /\ Shows(v.space, t, p, x))
      BY <1>11, <2>1 DEF Backed
    <3> QED BY <1>5, <1>11, <2>1, <3>2, <3>3, <3>4 DEF Backed, Rest
  <2>3. \A g \in Frames : g # f => v.mem[g] = w.mem[g]
    BY SMTT(30), <1>1, <1>5 DEF Typed
  <2>4. Kept(v)
    <3>1. \A x \in DOMAIN w.cache : v.mem[w.cache[x].frame] = x
      BY <1>1, <1>6, <2>1, <2>3, CacheTypes DEF Kept
    <3>2. \A t \in Spaces, p \in Pages, g \in Frames :
             Maps(v.space, t, p, g) => v.mem[g] = v.value[t][p]
      BY SMTT(30), <1>5, <1>6, <1>11, <2>1, <2>3 DEF Kept, Rest
    <3>3. \A t \in Spaces : w.creating[t] # 0 =>
             \A k \in DOMAIN w.surface[w.creating[t]].frames :
                v.mem[w.surface[w.creating[t]].frames[k]] = Zero
      BY <1>1, <1>6, <2>1, <2>3, CreatingTypes DEF Kept
    <3> QED BY SMTT(30), <1>5, <1>10, <1>11, <2>1, <3>1, <3>2, <3>3 DEF Kept, Rest
  <2> QED BY <2>2, <2>4
<1>15. ~v.stale => \A p : ~Maps(v.space, s, p, f)
  BY <1>1, <1>5, <1>6, <1>11 DEF Rest
<1> QED BY <1>9, <1>12, <1>13, <1>14, <1>15 DEF Inv

(* acquire, when the file cannot be read: the frame it took is lost.       *)
LEMMA LoseKeeps ==
  ASSUME NEW w, NEW v, Inv(w), NEW f \in w.free, Rest(w, v), v.space = w.space,
         v.free = w.free \ {f}, v.lost = w.lost \cup {f}, v.mem = [w.mem EXCEPT ![f] = Zero],
         v.cache = w.cache, v.swap = w.swap
  PROVE  Inv(v)
<1>1. Typed(w) /\ Hands(w) /\ SwapKept(w) /\ (~w.stale => Backed(w) /\ Kept(w))
  BY DEF Inv
<1>2. /\ f \in Frames
      /\ ~IsCached(w.cache, f) /\ ~IsOnSurface(w.surface, f)
      /\ \A t \in Spaces : ~Owns(w.space, t, f)
      /\ Backed(w) => \A t \in Spaces : \A p : ~Maps(w.space, t, p, f)
  BY <1>1, FreeUnused
<1>3. ~IsOwned(w.space, f)
  BY <1>2 DEF IsOwned
<1>4. Typed(v)
  <2>1. v.mem \in [Frames -> Contents] /\ v.free \subseteq Frames /\ v.lost \subseteq Frames
    BY <1>1, <1>2 DEF Typed, Contents
  <2> QED BY ZenonT(30), <1>1, <2>1 DEF Typed, Rest
<1>5. Hands(v)
  BY <1>1, <1>2, <1>3 DEF Hands, Rest
<1>6. SwapKept(v)
  BY <1>1 DEF SwapKept, Rest
<1>7. ASSUME ~v.stale PROVE Backed(v) /\ Kept(v)
  <2>1. Backed(w) /\ Kept(w)
    BY <1>1, <1>7 DEF Rest
  <2>2. Backed(v)
    BY <2>1 DEF Backed, Rest
  <2>3. \A g \in Frames : g # f => v.mem[g] = w.mem[g]
    BY <1>1 DEF Typed
  <2>4. \A x \in DOMAIN w.cache : v.mem[w.cache[x].frame] = x
    BY SMTT(30), <1>1, <1>2, <2>1, <2>3, CacheTypes DEF Kept
  <2>5. \A t \in Spaces, p \in Pages, g \in Frames :
           Maps(w.space, t, p, g) => v.mem[g] = w.value[t][p]
    BY SMTT(30), <1>2, <2>1, <2>3 DEF Kept
  <2>6. \A t \in Spaces : w.creating[t] # 0 =>
           \A k \in DOMAIN w.surface[w.creating[t]].frames :
              v.mem[w.surface[w.creating[t]].frames[k]] = Zero
    BY SMTT(30), <1>1, <1>2, <2>1, <2>3, CreatingTypes DEF Kept
  <2>7. Kept(v)
    BY <2>1, <2>4, <2>5, <2>6 DEF Kept, Rest
  <2> QED BY <2>2, <2>7
<1> QED BY <1>4, <1>5, <1>6, <1>7 DEF Inv

-----------------------------------------------------------------------------
(* A page p gets an entry for a frame of its space's own, and its slot, if *)
(* it was staged, is emptied: map_zeroed_page, restore_swapped_page.       *)
SlotOf(sp, p) == {sp.swapped[q] : q \in {p} \cap DOMAIN sp.swapped}

Entered(w, v, s, sp, n, p, f, r, c) ==
    /\ sp = w.space[s] /\ p \in Pages /\ p \notin DOMAIN sp.pte /\ f \in sp.owned
    /\ r \in sp.regions /\ InRegion(r, p) /\ c \in Contents
    /\ ~w.stale => /\ r.write /\ c = w.value[s][p]
                   /\ \A q : ~Maps(w.space, s, q, f)
    /\ n = [owned |-> sp.owned, tables |-> sp.tables \cup {TableOf(p)}, regions |-> sp.regions,
            pte |-> With(sp.pte, p, [frame |-> f, write |-> r.write]),
            swapped |-> Without(sp.swapped, p), next |-> sp.next]
    /\ Rest(w, v) /\ Replaced(w, v, s, n)
    /\ v.free = w.free /\ v.mem = [w.mem EXCEPT ![f] = c]
    /\ v.cache = w.cache /\ v.lost = w.lost /\ v.swap = Beyond(w.swap, SlotOf(sp, p))

LEMMA EnterKeeps ==
  ASSUME NEW w, NEW v, Inv(w), NEW s \in Spaces, IsLive(w.space, s),
         NEW sp, NEW n, NEW p, NEW f, NEW r, NEW c, Entered(w, v, s, sp, n, p, f, r, c)
  PROVE  Inv(v)
<1>1. Typed(w) /\ Hands(w) /\ SwapKept(w) /\ (~w.stale => Backed(w) /\ Kept(w))
  BY DEF Inv
<1>2. /\ sp = w.space[s] /\ p \in Pages /\ p \notin DOMAIN sp.pte /\ f \in sp.owned
      /\ r \in sp.regions /\ InRegion(r, p) /\ c \in Contents
      /\ ~w.stale => r.write /\ c = w.value[s][p] /\ \A q : ~Maps(w.space, s, q, f)
  BY DEF Entered
<1>3. SpaceOK(s, sp) /\ sp \in AddressSpaces
  BY <1>1, <1>2, Here
<1>4. /\ n = [owned |-> n.owned, tables |-> n.tables, regions |-> n.regions,
               pte |-> n.pte, swapped |-> n.swapped, next |-> n.next]
      /\ n.owned = sp.owned /\ n.tables = sp.tables \cup {TableOf(p)} /\ n.regions = sp.regions
      /\ n.pte = With(sp.pte, p, [frame |-> f, write |-> r.write])
      /\ n.swapped = Without(sp.swapped, p) /\ n.next = sp.next
  BY DEF Entered
<1>5. /\ Replaced(w, v, s, n) /\ Rest(w, v)
      /\ v.free = w.free /\ v.mem = [w.mem EXCEPT ![f] = c]
      /\ v.cache = w.cache /\ v.lost = w.lost /\ v.swap = Beyond(w.swap, SlotOf(sp, p))
  BY DEF Entered
<1>6. /\ n.pte = [q \in DOMAIN n.pte |-> n.pte[q]]
      /\ DOMAIN n.pte = DOMAIN sp.pte \cup {p} /\ n.pte[p] = [frame |-> f, write |-> r.write]
      /\ \A q \in DOMAIN sp.pte : n.pte[q] = sp.pte[q]
  BY <1>2, <1>4 DEF With
<1>7. /\ n.swapped = [q \in DOMAIN n.swapped |-> n.swapped[q]]
      /\ DOMAIN n.swapped = DOMAIN sp.swapped \ {p}
      /\ \A q \in DOMAIN n.swapped : n.swapped[q] = sp.swapped[q]
  BY <1>4 DEF Without
<1>8. /\ f \in Frames /\ f \notin w.free /\ f \notin w.lost
      /\ ~IsCached(w.cache, f) /\ ~IsOnSurface(w.surface, f) /\ Owns(w.space, s, f)
      /\ ~w.stale => \A t \in Spaces : \A q : ~Maps(w.space, t, q, f)
  <2>1. Owns(w.space, s, f)
    BY <1>2 DEF Owns
  <2> QED BY ZenonT(30), <1>1, <1>2, <2>1, OwnedApart
<1>9. n \in AddressSpaces
  <2>1. n.pte \in Tables
    <3>1. r.write \in BOOLEAN
      BY <1>2, <1>3, SpaceFields DEF Areas
    <3>2. n.pte[p] \in [frame : Frames, write : BOOLEAN]
      BY <1>6, <1>8, <3>1
    <3>3. DOMAIN n.pte \subseteq Pages
          /\ \A q \in DOMAIN n.pte : n.pte[q] \in [frame : Frames, write : BOOLEAN]
      BY ZenonT(30), <1>2, <1>3, <1>6, <3>2, SpaceFields
    <3>4. n.pte = [q \in DOMAIN n.pte |-> n.pte[q]]
      BY <1>6
    <3> QED BY <3>3, <3>4, EntryTypes
  <2>2. n.swapped \in Staged
    <3>1. DOMAIN n.swapped \subseteq Pages /\ \A q \in DOMAIN n.swapped : n.swapped[q] \in Slots
      BY <1>3, <1>7, SpaceFields
    <3> QED BY <1>7, <3>1, EntryTypes
  <2>3. sp.owned \subseteq Frames /\ sp.tables \cup {TableOf(p)} \subseteq Nat
        /\ sp.regions \subseteq Areas /\ sp.next \in Nat
    BY <1>2, <1>3, SpaceFields, TableOfPage
  <2> QED BY <1>4, <2>1, <2>2, <2>3 DEF AddressSpaces
<1>10. SpaceOK(s, n)
  <2>1. \A q \in DOMAIN n.pte : TableOf(q) \in n.tables /\ q < n.next
    <3>1. p < sp.next
      BY <1>2, <1>3, BelowHint
    <3> QED BY <1>2, <1>3, <1>4, <1>6, <3>1 DEF SpaceOK
  <2>2. \A q \in DOMAIN n.swapped : /\ TableOf(q) \in n.tables
                                    /\ \E a \in n.regions : InRegion(a, q)
    BY <1>3, <1>4, <1>7 DEF SpaceOK
  <2>3. /\ n.next \in Nat \ {0} /\ IsFiniteSet(n.regions) /\ Cardinality(n.regions) <= MaxVmAreas
        /\ \A a \in n.regions : AreaOK(s, a) /\ a.end <= n.next
        /\ \A a, b \in n.regions : \A y \in Pages : InRegion(a, y) /\ InRegion(b, y) => a = b
        /\ Cardinality(n.owned) <= MaxOwned
    BY <1>3, <1>4 DEF SpaceOK
  <2> QED BY <1>9, <2>1, <2>2, <2>3 DEF SpaceOK
<1>11. /\ Typed(v) /\ v.space[s] = n /\ IsLive(v.space, s)
       /\ \A t \in Spaces : t # s => v.space[t] = w.space[t]
  <2>1. v.free \subseteq Frames /\ v.lost \subseteq Frames /\ v.mem \in [Frames -> Contents]
    BY <1>1, <1>2, <1>5, <1>8 DEF Typed
  <2> QED BY <1>1, <1>5, <1>9, <1>10, <2>1, TypedOne
<1>12. /\ \A t \in Spaces : IsLive(v.space, t) <=> IsLive(w.space, t)
       /\ \A t \in Spaces : IsLive(v.space, t) => v.space[t].next = w.space[t].next
       /\ \A t \in Spaces : \A g : Owns(v.space, t, g) <=> Owns(w.space, t, g)
       /\ \A t \in Spaces : \A q, g : Maps(v.space, t, q, g) <=>
             Maps(w.space, t, q, g) \/ (t = s /\ q = p /\ g = f)
       /\ \A t \in Spaces : \A q, y : Shows(v.space, t, q, y) <=>
             Shows(w.space, t, q, y) /\ ~(t = s /\ q = p)
       /\ \A t \in Spaces : \A q, a : Untouched(v.space, t, q, a) => Untouched(w.space, t, q, a)
  <2>1. /\ \A t \in Spaces : IsLive(v.space, t) <=> IsLive(w.space, t)
        /\ \A t \in Spaces : IsLive(v.space, t) => v.space[t].next = w.space[t].next
        /\ \A t \in Spaces : \A g : Owns(v.space, t, g) <=> Owns(w.space, t, g)
    BY <1>2, <1>4, <1>11 DEF IsLive, Owns
  <2>2. \A t \in Spaces : t # s =>
            /\ \A q, g : Maps(v.space, t, q, g) <=> Maps(w.space, t, q, g)
            /\ \A q, y : Shows(v.space, t, q, y) <=> Shows(w.space, t, q, y)
            /\ \A q, a : Untouched(v.space, t, q, a) <=> Untouched(w.space, t, q, a)
    BY <1>11 DEF IsLive, Maps, Shows, Untouched
  <2>3. \A q, g : Maps(v.space, s, q, g) <=> Maps(w.space, s, q, g) \/ (q = p /\ g = f)
    BY <1>2, <1>6, <1>11 DEF Maps, IsLive
  <2>4. \A q, y : Shows(v.space, s, q, y) <=> Shows(w.space, s, q, y) /\ q # p
    BY <1>2, <1>7, <1>11 DEF Shows, IsLive
  <2>5. \A q, a : Untouched(v.space, s, q, a) => Untouched(w.space, s, q, a)
    BY <1>2, <1>4, <1>6, <1>7, <1>11 DEF Untouched, IsLive
  <2> QED BY <2>1, <2>2, <2>3, <2>4, <2>5
<1>13. Hands(v)
  <2>1. \A g : IsOwned(v.space, g) <=> IsOwned(w.space, g)
    BY <1>12 DEF IsOwned
  <2> QED BY <1>1, <1>5, <1>12, <2>1 DEF Hands, Rest
<1>14. \A y : y \in DOMAIN v.swap <=> y \in DOMAIN w.swap /\ ~Shows(w.space, s, p, y)
  BY <1>2, <1>5 DEF Beyond, SlotOf, Shows
<1>15. \A y \in DOMAIN v.swap : v.swap[y] = w.swap[y]
  BY <1>5 DEF Beyond
<1>16. SwapKept(v)
  <2>1. DOMAIN v.swap \subseteq Slots /\ \A y \in DOMAIN v.swap : v.swap[y] \in Contents
    BY <1>1, <1>14, <1>15 DEF SwapKept
  <2>2. ~v.stale => \A y \in DOMAIN v.swap : \E t \in Spaces, q \in Pages : Shows(v.space, t, q, y)
    BY <1>1, <1>5, <1>12, <1>14 DEF SwapKept, Rest
  <2>3. \A t \in Spaces, q \in Pages, y \in Slots : Shows(v.space, t, q, y) => y \in DOMAIN v.swap
    BY <1>1, <1>2, <1>12, <1>14 DEF SwapKept
  <2> QED BY <1>1, <1>12, <2>1, <2>2, <2>3 DEF SwapKept
<1>17. ASSUME ~v.stale PROVE Backed(v) /\ Kept(v)
  <2>1. ~w.stale /\ Backed(w) /\ Kept(w)
    BY <1>1, <1>5, <1>17 DEF Rest
  <2>2. \A t \in Spaces : \A q : ~Maps(w.space, t, q, f)
    BY <1>8, <2>1
  <2>3. Backed(v)
    <3>1. \A t \in Spaces : \A q, g : Maps(w.space, t, q, g) => v.space[t].pte[q] = w.space[t].pte[q]
      <4>1. \A q, g : Maps(w.space, s, q, g) => v.space[s].pte[q] = w.space[s].pte[q]
        BY <1>2, <1>6, <1>11 DEF Maps
      <4> QED BY <1>11, <4>1
    <3>2. \A t \in Spaces, q \in Pages, g \in Frames : Maps(v.space, t, q, g) =>
             /\ Owns(v.space, t, g) \/ IsCached(v.cache, g) \/ IsOnSurface(v.surface, g)
             /\ v.space[t].pte[q].write <=> ~IsCached(v.cache, g)
      <4>1. v.space[s].pte[p].write
        BY <1>2, <1>6, <1>11, <2>1
      <4> QED BY <1>5, <1>8, <1>12, <2>1, <3>1, <4>1 DEF Backed, Rest
    <3>3. \A t \in Spaces : IsLive(v.space, t) => RegionsKept(v.space[t])
      <4>1. RegionsKept(sp)
        BY <1>2, <2>1 DEF Backed
      <4>2. ASSUME NEW a \in n.regions, NEW q \in Pages, InRegion(a, q), ~a.write
            PROVE  q \notin DOMAIN n.swapped /\ (q \in DOMAIN n.pte => ~n.pte[q].write)
        <5>1. q \notin DOMAIN sp.swapped /\ (q \in DOMAIN sp.pte => ~sp.pte[q].write)
          BY <1>4, <4>1, <4>2 DEF RegionsKept
        <5>2. q # p
          BY <1>2, <1>3, <1>4, <2>1, <4>2 DEF SpaceOK
        <5> QED BY <1>6, <1>7, <5>1, <5>2
      <4>3. RegionsKept(n)
        <5>1. \A q \in DOMAIN n.pte : \E a \in n.regions : InRegion(a, q)
          BY <1>2, <1>4, <1>6, <4>1 DEF RegionsKept
        <5> QED BY <4>2, <5>1 DEF RegionsKept
      <4> QED BY <1>11, <1>12, <2>1, <4>3 DEF Backed
    <3>4. \A y \in DOMAIN v.cache :
             v.cache[y].refs = Cardinality(MappersIn(v.space, v.cache[y].frame))
      <4>1. \A g : IsCached(w.cache, g) => MappersIn(v.space, g) = MappersIn(w.space, g)
        BY <1>8, <1>12 DEF MappersIn
      <4>2. \A y \in DOMAIN w.cache : IsCached(w.cache, w.cache[y].frame)
        BY DEF IsCached
      <4> QED BY <1>5, <2>1, <4>1, <4>2 DEF Backed
    <3>5. \A t, u \in Spaces, q, y \in Pages, g \in Frames :
             Maps(v.space, t, q, g) /\ Maps(v.space, u, y, g) /\ ~IsCached(v.cache, g) =>
                t = u /\ q = y
      BY SMTT(30), <1>5, <1>12, <2>1, <2>2 DEF Backed
    <3>6. \A t, u \in Spaces, q \in Pages : v.creating[t] # 0 =>
             \A k \in DOMAIN v.surface[v.creating[t]].frames :
                ~Maps(v.space, u, q, v.surface[v.creating[t]].frames[k])
      BY <1>1, <1>5, <1>8, <1>12, <2>1, CreatingTypes DEF Backed, Rest
    <3>7. \A t \in Spaces, q \in Pages, g \in Frames, y \in Slots :
             ~(Maps(v.space, t, q, g) /\ Shows(v.space, t, q, y))
      BY <1>12, <2>1 DEF Backed
    <3> QED BY <3>2, <3>3, <3>4, <3>5, <3>6, <3>7 DEF Backed
  <2>4. \A g \in Frames : g # f => v.mem[g] = w.mem[g]
    <3>1. w.mem \in [Frames -> Contents]
      BY Zenon, <1>1 DEF Typed
    <3> QED BY <1>5, <3>1
  <2>5. Kept(v)
    <3>1. \A x \in DOMAIN w.cache : v.mem[w.cache[x].frame] = x
      BY <1>1, <1>8, <2>1, <2>4, CacheTypes DEF Kept
    <3>2. \A t \in Spaces, q \in Pages, g \in Frames :
             Maps(v.space, t, q, g) => v.mem[g] = v.value[t][q]
      <4>1. v.mem[f] = v.value[s][p]
        BY <1>1, <1>2, <1>5, <1>8, <2>1 DEF Typed, Rest
      <4>2. \A t \in Spaces, q \in Pages, g \in Frames :
               Maps(w.space, t, q, g) => w.mem[g] = v.value[t][q]
        BY SMTT(30), <1>5, <2>1 DEF Kept, Rest
      <4> QED BY <1>12, <2>2, <2>4, <4>1, <4>2
    <3>3. \A t \in Spaces : w.creating[t] # 0 =>
             \A k \in DOMAIN w.surface[w.creating[t]].frames :
                v.mem[w.surface[w.creating[t]].frames[k]] = Zero
      BY <1>1, <1>8, <2>1, <2>4, CreatingTypes DEF Kept
    <3>4. \A t \in Spaces, q \in Pages, y \in Slots :
             Shows(v.space, t, q, y) => v.swap[y] = v.value[t][q]
      <4>1. \A t \in Spaces, q \in Pages, y \in Slots :
               Shows(v.space, t, q, y) => v.swap[y] = w.swap[y]
        BY <1>15, <1>16 DEF SwapKept
      <4>2. \A t \in Spaces, q \in Pages, y \in Slots :
               Shows(w.space, t, q, y) => w.swap[y] = v.value[t][q]
        BY <1>5, <2>1 DEF Kept, Rest
      <4> QED BY <1>12, <4>1, <4>2
    <3> QED BY SMTT(30), <1>5, <1>12, <2>1, <3>1, <3>2, <3>3, <3>4 DEF Kept, Rest
  <2> QED BY <2>3, <2>5
<1> QED BY <1>11, <1>13, <1>16, <1>17 DEF Inv

-----------------------------------------------------------------------------
(* A page p of a region of the file page x gets a read-only entry for the  *)
(* cached frame f, which was in the cache or is read into it:              *)
(* map_file_page.                                                          *)
EnteredCached(w, v, s, sp, n, p, f, x, e) ==
    /\ sp = w.space[s] /\ p \in Pages /\ p \notin DOMAIN sp.pte /\ p \notin DOMAIN sp.swapped
    /\ \E r \in sp.regions : InRegion(r, p)
    /\ f \in Frames /\ x \in Files
    /\ \/ /\ f \in w.free /\ x \notin DOMAIN w.cache /\ e = 1
          /\ Cardinality(DOMAIN w.cache) < MaxCachePages
       \/ x \in DOMAIN w.cache /\ f = w.cache[x].frame /\ e = w.cache[x].refs + 1
    /\ ~w.stale => w.value[s][p] = x
    /\ n = [owned |-> sp.owned, tables |-> sp.tables \cup {TableOf(p)}, regions |-> sp.regions,
            pte |-> With(sp.pte, p, [frame |-> f, write |-> FALSE]),
            swapped |-> sp.swapped, next |-> sp.next]
    /\ Rest(w, v) /\ Replaced(w, v, s, n)
    /\ v.free = w.free \ {f} /\ v.mem = [w.mem EXCEPT ![f] = x]
    /\ v.cache = With(w.cache, x, [frame |-> f, refs |-> e])
    /\ v.lost = w.lost /\ v.swap = w.swap

LEMMA EnterCachedKeeps ==
  ASSUME NEW w, NEW v, Inv(w), NEW s \in Spaces, IsLive(w.space, s),
         NEW sp, NEW n, NEW p, NEW f, NEW x, NEW e,
         EnteredCached(w, v, s, sp, n, p, f, x, e)
  PROVE  Inv(v)
<1>1. Typed(w) /\ Hands(w) /\ SwapKept(w) /\ (~w.stale => Backed(w) /\ Kept(w))
  BY DEF Inv
<1>2. /\ sp = w.space[s] /\ p \in Pages /\ p \notin DOMAIN sp.pte /\ p \notin DOMAIN sp.swapped
      /\ \E r \in sp.regions : InRegion(r, p)
      /\ f \in Frames /\ x \in Files
      /\ \/ /\ f \in w.free /\ x \notin DOMAIN w.cache /\ e = 1
            /\ Cardinality(DOMAIN w.cache) < MaxCachePages
         \/ x \in DOMAIN w.cache /\ f = w.cache[x].frame /\ e = w.cache[x].refs + 1
      /\ ~w.stale => w.value[s][p] = x
  BY DEF EnteredCached
<1>3. SpaceOK(s, sp) /\ sp \in AddressSpaces
  BY <1>1, <1>2, Here
<1>4. /\ n = [owned |-> n.owned, tables |-> n.tables, regions |-> n.regions,
               pte |-> n.pte, swapped |-> n.swapped, next |-> n.next]
      /\ n.owned = sp.owned /\ n.tables = sp.tables \cup {TableOf(p)} /\ n.regions = sp.regions
      /\ n.pte = With(sp.pte, p, [frame |-> f, write |-> FALSE])
      /\ n.swapped = sp.swapped /\ n.next = sp.next
  BY DEF EnteredCached
<1>5. /\ Replaced(w, v, s, n) /\ Rest(w, v)
      /\ v.free = w.free \ {f} /\ v.mem = [w.mem EXCEPT ![f] = x]
      /\ v.cache = With(w.cache, x, [frame |-> f, refs |-> e])
      /\ v.lost = w.lost /\ v.swap = w.swap
  BY DEF EnteredCached
<1>6. /\ n.pte = [q \in DOMAIN n.pte |-> n.pte[q]]
      /\ DOMAIN n.pte = DOMAIN sp.pte \cup {p} /\ n.pte[p] = [frame |-> f, write |-> FALSE]
      /\ \A q \in DOMAIN sp.pte : n.pte[q] = sp.pte[q]
  BY <1>2, <1>4 DEF With
<1>7. /\ DOMAIN v.cache = DOMAIN w.cache \cup {x} /\ v.cache[x] = [frame |-> f, refs |-> e]
      /\ \A y \in DOMAIN w.cache : y # x => v.cache[y] = w.cache[y]
      /\ \A y \in DOMAIN w.cache : v.cache[y].frame = w.cache[y].frame
  BY <1>2, <1>5 DEF With
(* f is nobody's but the cache's, where it is that of x. *)
<1>8. /\ f \notin w.lost /\ ~IsOnSurface(w.surface, f) /\ ~IsOwned(w.space, f)
      /\ \A y \in DOMAIN w.cache : w.cache[y].frame = f => y = x
      /\ IsCached(w.cache, f) \/ (~w.stale => \A t \in Spaces : \A q : ~Maps(w.space, t, q, f))
      /\ IsCached(w.cache, f) <=> x \in DOMAIN w.cache
      /\ e \in Nat \ {0}
  <2>1. CASE /\ f \in w.free /\ x \notin DOMAIN w.cache /\ e = 1
    <3>1. /\ f \notin w.lost /\ ~IsOnSurface(w.surface, f) /\ ~IsCached(w.cache, f)
          /\ \A t \in Spaces : ~Owns(w.space, t, f)
          /\ ~w.stale => \A t \in Spaces : \A q : ~Maps(w.space, t, q, f)
      BY <1>1, <2>1, FreeUnused
    <3> QED BY <2>1, <3>1 DEF IsOwned, IsCached
  <2>2. CASE x \in DOMAIN w.cache /\ f = w.cache[x].frame /\ e = w.cache[x].refs + 1
    <3>1. IsCached(w.cache, f) /\ w.cache[x].refs \in Nat \ {0}
      BY <1>1, <2>2, CacheTypes
    <3>2. \A y \in DOMAIN w.cache : w.cache[y].frame = f => y = x
      BY <1>1, <2>2 DEF Hands
    <3>3. f \notin w.lost /\ ~IsOnSurface(w.surface, f) /\ ~IsOwned(w.space, f)
      BY <1>1, <1>2, <3>1 DEF Hands
    <3> QED BY <2>2, <3>1, <3>2, <3>3
  <2> QED BY <1>2, <2>1, <2>2
<1>9. \A g : IsCached(v.cache, g) <=> IsCached(w.cache, g) \/ g = f
  BY <1>7, <1>8 DEF IsCached
<1>10. n \in AddressSpaces
  <2>1. n.pte \in Tables
    <3>1. n.pte[p] \in [frame : Frames, write : BOOLEAN]
      BY <1>2, <1>6
    <3>2. DOMAIN n.pte \subseteq Pages
          /\ \A q \in DOMAIN n.pte : n.pte[q] \in [frame : Frames, write : BOOLEAN]
      BY ZenonT(30), <1>2, <1>3, <1>6, <3>1, SpaceFields
    <3>3. n.pte = [q \in DOMAIN n.pte |-> n.pte[q]]
      BY <1>6
    <3> QED BY <3>2, <3>3, EntryTypes
  <2>2. sp.owned \subseteq Frames /\ sp.tables \cup {TableOf(p)} \subseteq Nat
        /\ sp.regions \subseteq Areas /\ sp.next \in Nat
    BY <1>2, <1>3, SpaceFields, TableOfPage
  <2>3. n.swapped \in Staged
    BY <1>3, <1>4 DEF AddressSpaces
  <2> QED BY <1>4, <2>1, <2>2, <2>3 DEF AddressSpaces
<1>11. SpaceOK(s, n)
  <2>1. \A q \in DOMAIN n.pte : TableOf(q) \in n.tables /\ q < n.next
    <3>1. p < sp.next
      BY <1>2, <1>3, BelowHint
    <3> QED BY <1>2, <1>3, <1>4, <1>6, <3>1 DEF SpaceOK
  <2>2. \A q \in DOMAIN n.swapped : /\ TableOf(q) \in n.tables
                                    /\ \E a \in n.regions : InRegion(a, q)
    BY <1>3, <1>4 DEF SpaceOK
  <2>3. /\ n.next \in Nat \ {0} /\ IsFiniteSet(n.regions) /\ Cardinality(n.regions) <= MaxVmAreas
        /\ \A a \in n.regions : AreaOK(s, a) /\ a.end <= n.next
        /\ \A a, b \in n.regions : \A y \in Pages : InRegion(a, y) /\ InRegion(b, y) => a = b
        /\ Cardinality(n.owned) <= MaxOwned
    BY <1>3, <1>4 DEF SpaceOK
  <2> QED BY <1>10, <2>1, <2>2, <2>3 DEF SpaceOK
<1>12. /\ Typed(v) /\ v.space[s] = n /\ IsLive(v.space, s)
       /\ \A t \in Spaces : t # s => v.space[t] = w.space[t]
  <2>1. v.free \subseteq Frames /\ v.lost \subseteq Frames /\ v.mem \in [Frames -> Contents]
    BY <1>1, <1>2, <1>5 DEF Typed, Contents
  <2>2. /\ DOMAIN v.cache \subseteq Files
        /\ \A y \in DOMAIN v.cache : v.cache[y] \in [frame : Frames, refs : Nat \ {0}]
    BY <1>1, <1>2, <1>7, <1>8 DEF Typed
  <2>3. IsFiniteSet(DOMAIN v.cache) /\ Cardinality(DOMAIN v.cache) <= MaxCachePages
    <3>1. IsFiniteSet(DOMAIN w.cache) /\ Cardinality(DOMAIN w.cache) <= MaxCachePages
      BY <1>1 DEF Typed
    <3>2. Cardinality(DOMAIN w.cache) \in Nat
      BY <3>1, FS_CardinalityType
    <3>3. /\ IsFiniteSet(DOMAIN w.cache \cup {x})
          /\ Cardinality(DOMAIN w.cache \cup {x}) =
               IF x \in DOMAIN w.cache THEN Cardinality(DOMAIN w.cache)
               ELSE Cardinality(DOMAIN w.cache) + 1
      BY <3>1, FS_AddElement
    <3> QED BY <1>2, <1>7, <3>1, <3>2, <3>3, MemoryAssumption
  <2> QED BY <1>1, <1>5, <1>10, <1>11, <2>1, <2>2, <2>3, TypedOne
<1>13. /\ \A t \in Spaces : IsLive(v.space, t) <=> IsLive(w.space, t)
       /\ \A t \in Spaces : IsLive(v.space, t) => v.space[t].next = w.space[t].next
       /\ \A t \in Spaces : \A g : Owns(v.space, t, g) <=> Owns(w.space, t, g)
       /\ \A t \in Spaces : \A q, g : Maps(v.space, t, q, g) <=>
             Maps(w.space, t, q, g) \/ (t = s /\ q = p /\ g = f)
       /\ \A t \in Spaces : \A q, y : Shows(v.space, t, q, y) <=> Shows(w.space, t, q, y)
       /\ \A t \in Spaces : \A q, a : Untouched(v.space, t, q, a) => Untouched(w.space, t, q, a)
  <2>1. /\ \A t \in Spaces : IsLive(v.space, t) <=> IsLive(w.space, t)
        /\ \A t \in Spaces : IsLive(v.space, t) => v.space[t].next = w.space[t].next
        /\ \A t \in Spaces : \A g : Owns(v.space, t, g) <=> Owns(w.space, t, g)
    BY <1>2, <1>4, <1>12 DEF IsLive, Owns
  <2>2. \A t \in Spaces : t # s =>
            /\ \A q, g : Maps(v.space, t, q, g) <=> Maps(w.space, t, q, g)
            /\ \A q, y : Shows(v.space, t, q, y) <=> Shows(w.space, t, q, y)
            /\ \A q, a : Untouched(v.space, t, q, a) <=> Untouched(w.space, t, q, a)
    BY <1>12 DEF IsLive, Maps, Shows, Untouched
  <2>3. \A q, g : Maps(v.space, s, q, g) <=> Maps(w.space, s, q, g) \/ (q = p /\ g = f)
    BY <1>2, <1>6, <1>12 DEF Maps, IsLive
  <2>4. \A q, y : Shows(v.space, s, q, y) <=> Shows(w.space, s, q, y)
    BY <1>2, <1>4, <1>12 DEF Shows, IsLive
  <2>5. \A q, a : Untouched(v.space, s, q, a) => Untouched(w.space, s, q, a)
    BY <1>2, <1>4, <1>6, <1>12 DEF Untouched, IsLive
  <2> QED BY <2>1, <2>2, <2>3, <2>4, <2>5
<1>14. Hands(v)
  <2>1. \A g : IsOwned(v.space, g) <=> IsOwned(w.space, g)
    BY <1>13 DEF IsOwned
  <2>2. \A y, z \in DOMAIN v.cache : v.cache[y].frame = v.cache[z].frame => y = z
    BY <1>1, <1>7, <1>8 DEF Hands
  <2> QED BY <1>1, <1>5, <1>8, <1>9, <1>13, <2>1, <2>2 DEF Hands, Rest
<1>15. SwapKept(v)
  BY <1>1, <1>5, <1>13 DEF SwapKept, Rest
<1>16. ASSUME ~v.stale PROVE Backed(v) /\ Kept(v)
  <2>1. ~w.stale /\ Backed(w) /\ Kept(w)
    BY <1>1, <1>5, <1>16 DEF Rest
  <2>2. Backed(v)
    <3>1. \A t \in Spaces : \A q, g : Maps(w.space, t, q, g) => v.space[t].pte[q] = w.space[t].pte[q]
      <4>1. \A q, g : Maps(w.space, s, q, g) => v.space[s].pte[q] = w.space[s].pte[q]
        BY <1>2, <1>6, <1>12 DEF Maps
      <4> QED BY <1>12, <4>1
    <3>2. \A t \in Spaces, q \in Pages, g \in Frames : Maps(v.space, t, q, g) =>
             /\ Owns(v.space, t, g) \/ IsCached(v.cache, g) \/ IsOnSurface(v.surface, g)
             /\ v.space[t].pte[q].write <=> ~IsCached(v.cache, g)
      <4>1. ~v.space[s].pte[p].write
        BY <1>2, <1>6, <1>12, <2>1
      <4>2. \A t \in Spaces : \A q : Maps(w.space, t, q, f) => IsCached(w.cache, f)
        BY <1>8, <2>1
      <4> QED BY <1>5, <1>9, <1>13, <2>1, <3>1, <4>1, <4>2 DEF Backed, Rest
    <3>3. \A t \in Spaces : IsLive(v.space, t) => RegionsKept(v.space[t])
      <4>1. RegionsKept(sp)
        BY <1>2, <2>1 DEF Backed
      <4>2. RegionsKept(n)
        <5>1. ASSUME NEW a \in n.regions, NEW q \in Pages, InRegion(a, q), ~a.write
              PROVE  q \notin DOMAIN n.swapped /\ (q \in DOMAIN n.pte => ~n.pte[q].write)
          <6>1. q \notin DOMAIN sp.swapped /\ (q \in DOMAIN sp.pte => ~sp.pte[q].write)
            BY <1>4, <4>1, <5>1 DEF RegionsKept
          <6>2. ~n.pte[p].write
            BY <1>6
          <6>3. q \in DOMAIN sp.pte => n.pte[q] = sp.pte[q]
            BY <1>6
          <6> QED BY <1>4, <1>6, <6>1, <6>2, <6>3
        <5>2. \A q \in DOMAIN n.pte : \E a \in n.regions : InRegion(a, q)
          BY <1>2, <1>4, <1>6, <4>1 DEF RegionsKept
        <5> QED BY <5>1, <5>2 DEF RegionsKept
      <4> QED BY <1>12, <1>13, <2>1, <4>2 DEF Backed
    <3>4. \A y \in DOMAIN v.cache :
             v.cache[y].refs = Cardinality(MappersIn(v.space, v.cache[y].frame))
      <4>1. ASSUME NEW y \in DOMAIN v.cache, y # x
            PROVE  v.cache[y].refs = Cardinality(MappersIn(v.space, v.cache[y].frame))
        <5>1. y \in DOMAIN w.cache /\ v.cache[y] = w.cache[y] /\ w.cache[y].frame # f
          BY <1>7, <1>8, <4>1
        <5>2. MappersIn(v.space, w.cache[y].frame) = MappersIn(w.space, w.cache[y].frame)
          BY <1>13, <5>1 DEF MappersIn
        <5> QED BY <2>1, <5>1, <5>2 DEF Backed
      <4>2. v.cache[x].refs = Cardinality(MappersIn(v.space, v.cache[x].frame))
        <5>1. <<s, p>> \notin MappersIn(w.space, f)
          BY <1>2 DEF MappersIn, Maps
        <5>2. MappersIn(v.space, f) = MappersIn(w.space, f) \cup {<<s, p>>}
          BY <1>2, <1>13 DEF MappersIn
        <5>3. IsFiniteSet(MappersIn(w.space, f)) /\ Cardinality(MappersIn(w.space, f)) \in Nat
          BY MappersFinite
        <5>4. Cardinality(MappersIn(v.space, f)) = Cardinality(MappersIn(w.space, f)) + 1
          BY <5>1, <5>2, <5>3, FS_AddElement
        <5>5. e = Cardinality(MappersIn(w.space, f)) + 1
          <6>1. CASE x \in DOMAIN w.cache
            BY <1>2, <2>1, <6>1 DEF Backed
          <6>2. CASE x \notin DOMAIN w.cache
            <7>1. MappersIn(w.space, f) = {} /\ e = 1
              BY <1>2, <1>8, <2>1, <6>2 DEF MappersIn
            <7> QED BY <7>1, FS_EmptySet
          <6> QED BY <6>1, <6>2
        <5> QED BY <1>7, <5>4, <5>5
      <4> QED BY <4>1, <4>2
    <3>5. \A t, u \in Spaces, q, y \in Pages, g \in Frames :
             Maps(v.space, t, q, g) /\ Maps(v.space, u, y, g) /\ ~IsCached(v.cache, g) =>
                t = u /\ q = y
      BY <1>9, <1>13, <2>1 DEF Backed
    <3>6. \A t, u \in Spaces, q \in Pages : v.creating[t] # 0 =>
             \A k \in DOMAIN v.surface[v.creating[t]].frames :
                ~Maps(v.space, u, q, v.surface[v.creating[t]].frames[k])
      BY <1>1, <1>5, <1>8, <1>13, <2>1, CreatingTypes DEF Backed, Rest
    <3>7. \A t \in Spaces, q \in Pages, g \in Frames, y \in Slots :
             ~(Maps(v.space, t, q, g) /\ Shows(v.space, t, q, y))
      <4>1. \A y : ~Shows(w.space, s, p, y)
        BY <1>2 DEF Shows
      <4> QED BY <1>13, <2>1, <4>1 DEF Backed
    <3> QED BY <3>2, <3>3, <3>4, <3>5, <3>6, <3>7 DEF Backed
  <2>3. v.mem[f] = x /\ \A g \in Frames : g # f => v.mem[g] = w.mem[g]
    BY SMTT(30), <1>1, <1>2, <1>5 DEF Typed
  <2>4. Kept(v)
    <3>1. \A y \in DOMAIN v.cache : v.mem[v.cache[y].frame] = y
      <4>1. \A y \in DOMAIN w.cache : y # x =>
               w.cache[y].frame \in Frames /\ w.cache[y].frame # f /\ w.mem[w.cache[y].frame] = y
        BY <1>1, <1>8, <2>1, CacheTypes DEF Kept
      <4> QED BY <1>7, <2>3, <4>1
    <3>2. \A t \in Spaces, q \in Pages, g \in Frames :
             Maps(v.space, t, q, g) => v.mem[g] = v.value[t][q]
      <4>1. v.value = w.value /\ w.value[s][p] = x
        BY <1>2, <1>5, <2>1 DEF Rest
      <4>2. \A t \in Spaces, q \in Pages, g \in Frames :
               Maps(w.space, t, q, g) => w.mem[g] = w.value[t][q]
        BY <2>1 DEF Kept
      <4>3. ASSUME NEW t \in Spaces, NEW q \in Pages, Maps(w.space, t, q, f)
            PROVE  w.mem[f] = x
        <5>1. x \in DOMAIN w.cache /\ f = w.cache[x].frame
          BY SMTT(30), <1>2, <1>8, <2>1, <4>3
        <5> QED BY <2>1, <5>1 DEF Kept
      <4> QED BY <1>13, <2>3, <4>1, <4>2, <4>3
    <3>3. \A t \in Spaces : w.creating[t] # 0 =>
             \A k \in DOMAIN w.surface[w.creating[t]].frames :
                v.mem[w.surface[w.creating[t]].frames[k]] = Zero
      BY <1>1, <1>8, <2>1, <2>3, CreatingTypes DEF Kept
    <3> QED BY <1>5, <1>13, <2>1, <3>1, <3>2, <3>3 DEF Kept, Rest
  <2> QED BY <2>2, <2>4
<1> QED BY <1>12, <1>14, <1>15, <1>16 DEF Inv

-----------------------------------------------------------------------------
(* Dropping references: cnt[f] of those to the frame f go.                 *)
KeptPages(c, cnt) == {x \in DOMAIN c : c[x].refs - cnt[c[x].frame] > 0}
CacheAfter(c, cnt) ==
    [x \in KeptPages(c, cnt) |-> [frame |-> c[x].frame, refs |-> c[x].refs - cnt[c[x].frame]]]
FramesDropped(c, cnt) == {c[x].frame : x \in DOMAIN c \ KeptPages(c, cnt)}

LEMMA Dropping ==
  ASSUME NEW w, Typed(w), Hands(w), NEW cnt \in [Frames -> Nat],
         NEW d, d = CacheAfter(w.cache, cnt), NEW F, F = FramesDropped(w.cache, cnt)
  PROVE  /\ DOMAIN d \subseteq DOMAIN w.cache
         /\ \A x \in DOMAIN d : d[x].frame = w.cache[x].frame
         /\ \A x \in DOMAIN d : d[x].refs = w.cache[x].refs - cnt[w.cache[x].frame]
         /\ DOMAIN d \subseteq Files
         /\ IsFiniteSet(DOMAIN d) /\ Cardinality(DOMAIN d) <= MaxCachePages
         /\ \A x \in DOMAIN d : d[x] \in [frame : Frames, refs : Nat \ {0}]
         /\ F \subseteq Frames /\ \A f \in F : IsCached(w.cache, f)
         /\ \A f : IsCached(d, f) <=> IsCached(w.cache, f) /\ f \notin F
         /\ \A x \in DOMAIN w.cache : w.cache[x].frame \in F =>
               w.cache[x].refs <= cnt[w.cache[x].frame]
<1>1. \A x \in DOMAIN w.cache : w.cache[x].frame \in Frames /\ w.cache[x].refs \in Nat \ {0}
  BY CacheTypes
<1>2. \A x \in DOMAIN w.cache : cnt[w.cache[x].frame] \in Nat
  BY <1>1
<1>3. /\ DOMAIN d = KeptPages(w.cache, cnt) /\ DOMAIN d \subseteq DOMAIN w.cache
      /\ \A x \in DOMAIN d : d[x] = [frame |-> w.cache[x].frame,
                                     refs |-> w.cache[x].refs - cnt[w.cache[x].frame]]
      /\ \A x \in DOMAIN d : w.cache[x].refs - cnt[w.cache[x].frame] > 0
      /\ \A x \in DOMAIN w.cache : x \notin DOMAIN d => w.cache[x].refs <= cnt[w.cache[x].frame]
  BY <1>1, <1>2 DEF CacheAfter, KeptPages
<1>4. \A x \in DOMAIN d : /\ d[x].frame = w.cache[x].frame
                           /\ d[x].refs = w.cache[x].refs - cnt[w.cache[x].frame]
  BY DEF CacheAfter
<1>5. \A f : f \in F <=> \E x \in DOMAIN w.cache : x \notin DOMAIN d /\ w.cache[x].frame = f
  BY <1>3 DEF FramesDropped
<1>6. \A x, y \in DOMAIN w.cache : w.cache[x].frame = w.cache[y].frame => x = y
  BY DEF Hands
<1>7. IsFiniteSet(DOMAIN d) /\ Cardinality(DOMAIN d) <= MaxCachePages
  <2>1. IsFiniteSet(DOMAIN w.cache) /\ Cardinality(DOMAIN w.cache) <= MaxCachePages
    BY DEF Typed
  <2>2. DOMAIN d \in SUBSET DOMAIN w.cache
    BY <1>3
  <2>3. IsFiniteSet(DOMAIN d) /\ Cardinality(DOMAIN d) <= Cardinality(DOMAIN w.cache)
    BY <2>1, <2>2, FS_Subset
  <2>4. Cardinality(DOMAIN d) \in Nat /\ Cardinality(DOMAIN w.cache) \in Nat
    BY <2>1, <2>3, FS_CardinalityType
  <2> QED BY <2>1, <2>3, <2>4, MemoryAssumption
<1>8. \A x \in DOMAIN d : d[x] \in [frame : Frames, refs : Nat \ {0}]
  <2>1. ASSUME NEW x \in DOMAIN d PROVE d[x] \in [frame : Frames, refs : Nat \ {0}]
    <3>1. PICK m : m = w.cache[x].refs - cnt[w.cache[x].frame]
      OBVIOUS
    <3>2. d[x] = [frame |-> w.cache[x].frame, refs |-> m] /\ m \in Nat \ {0}
      BY <1>1, <1>2, <1>3, <3>1
    <3> QED BY <1>1, <1>3, <3>2
  <2> QED BY <2>1
<1>9. DOMAIN w.cache \subseteq Files
  BY DEF Typed
<1>10. F \subseteq Frames /\ \A f \in F : IsCached(w.cache, f)
  BY <1>1, <1>5 DEF IsCached
<1>11. \A f : IsCached(d, f) <=> IsCached(w.cache, f) /\ f \notin F
  <2>1. \A x \in DOMAIN d : x \in DOMAIN w.cache /\ d[x].frame = w.cache[x].frame
    BY <1>3, <1>4
  <2>2. ASSUME NEW f, IsCached(d, f) PROVE IsCached(w.cache, f) /\ f \notin F
    BY <1>5, <1>6, <2>1, <2>2 DEF IsCached
  <2>3. ASSUME NEW f, IsCached(w.cache, f), f \notin F PROVE IsCached(d, f)
    BY <1>5, <2>1, <2>3 DEF IsCached
  <2> QED BY <2>2, <2>3
<1>12. \A x \in DOMAIN w.cache : w.cache[x].frame \in F => x \notin DOMAIN d
  BY <1>5, <1>6
<1>13. \A x \in DOMAIN w.cache : w.cache[x].frame \in F =>
          w.cache[x].refs <= cnt[w.cache[x].frame]
  BY <1>3, <1>12
<1> QED BY <1>3, <1>7, <1>8, <1>9, <1>10, <1>11, <1>4, <1>13

(* When every cached frame loses as many mappings as references, the count *)
(* stays exact, and a frame that is dropped is mapped no longer.           *)
DropsMappings(w, S, cnt) ==
    \A f \in Frames : IsCached(w.cache, f) =>
       /\ MappersIn(S, f) \subseteq MappersIn(w.space, f)
       /\ cnt[f] = Cardinality(MappersIn(w.space, f) \ MappersIn(S, f))

LEMMA DroppedExactly ==
  ASSUME NEW w, Typed(w), Hands(w), Backed(w), NEW cnt \in [Frames -> Nat],
         NEW d, d = CacheAfter(w.cache, cnt), NEW F, F = FramesDropped(w.cache, cnt),
         NEW S, DropsMappings(w, S, cnt)
  PROVE  /\ \A x \in DOMAIN d : d[x].refs = Cardinality(MappersIn(S, d[x].frame))
         /\ \A f \in F : MappersIn(S, f) = {}
<1>1. ASSUME NEW x \in DOMAIN w.cache, NEW f, f = w.cache[x].frame
      PROVE  w.cache[x].refs - cnt[f] = Cardinality(MappersIn(S, f))
  <2>1. f \in Frames /\ IsCached(w.cache, f)
    BY <1>1, CacheTypes
  <2>2. w.cache[x].refs = Cardinality(MappersIn(w.space, f))
    BY <1>1 DEF Backed
  <2>3. DEFINE A == MappersIn(w.space, f)
               B == MappersIn(S, f)
  <2>4. B \subseteq A /\ cnt[f] = Cardinality(A \ B)
    BY <2>1 DEF DropsMappings
  <2>5. IsFiniteSet(A) /\ Cardinality(A) \in Nat /\ Cardinality(B) \in Nat
    BY MappersFinite
  <2> HIDE DEF A, B
  <2>6. A \cap B = B
    BY <2>4
  <2>7. Cardinality(A \ B) = Cardinality(A) - Cardinality(A \cap B)
    BY <2>5, FS_Difference
  <2>8. Cardinality(A) - Cardinality(A \ B) = Cardinality(B)
    <3>1. Cardinality(A \ B) = Cardinality(A) - Cardinality(B)
      BY <2>6, <2>7
    <3> QED BY <2>5, <3>1
  <2> QED BY <2>2, <2>4, <2>8 DEF A, B
<1>2. \A x \in DOMAIN d : d[x].refs = Cardinality(MappersIn(S, d[x].frame))
  BY <1>1, Dropping
<1>3. ASSUME NEW f \in F PROVE MappersIn(S, f) = {}
  <2>1. PICK x \in DOMAIN w.cache : f = w.cache[x].frame
    BY <1>3, Dropping DEF IsCached
  <2>2. w.cache[x].refs <= cnt[f] /\ cnt[f] \in Nat /\ w.cache[x].refs \in Nat
    BY <1>3, <2>1, Dropping, CacheTypes
  <2>3. IsFiniteSet(MappersIn(S, f)) /\ Cardinality(MappersIn(S, f)) \in Nat
    BY MappersFinite
  <2>4. Cardinality(MappersIn(S, f)) = 0
    BY <1>1, <2>1, <2>2, <2>3
  <2> QED BY <2>3, <2>4, FS_EmptySet
<1> QED BY <1>2, <1>3

-----------------------------------------------------------------------------
(* break_cow_page, with the copy's frame g taken: g holds what the shared  *)
(* frame f does and takes its place, and f loses the reference.  Until a   *)
(* surface was freed under its mapping the page still maps f.              *)
CowCopied(w, v, s, sp, n, p, f, g, cnt) ==
    /\ sp = w.space[s] /\ p \in Pages /\ f \in Frames /\ g \in sp.owned
    /\ \E r \in sp.regions : InRegion(r, p) /\ r.write
    /\ ~w.stale => /\ p \in DOMAIN sp.pte /\ f = sp.pte[p].frame
                   /\ IsCached(w.cache, f) /\ \A q : ~Maps(w.space, s, q, g)
    /\ n = [owned |-> sp.owned, tables |-> sp.tables \cup {TableOf(p)}, regions |-> sp.regions,
            pte |-> With(sp.pte, p, [frame |-> g, write |-> TRUE]),
            swapped |-> sp.swapped, next |-> sp.next]
    /\ cnt = [h \in Frames |-> IF h = f THEN 1 ELSE 0]
    /\ Rest(w, v) /\ Replaced(w, v, s, n)
    /\ v.free = w.free \cup FramesDropped(w.cache, cnt)
    /\ v.mem = [w.mem EXCEPT ![g] = w.mem[f]]
    /\ v.cache = CacheAfter(w.cache, cnt)
    /\ v.lost = w.lost /\ v.swap = w.swap

LEMMA CowKeeps ==
  ASSUME NEW w, NEW v, Inv(w), NEW s \in Spaces, IsLive(w.space, s),
         NEW sp, NEW n, NEW p, NEW f, NEW g, NEW cnt,
         CowCopied(w, v, s, sp, n, p, f, g, cnt)
  PROVE  Inv(v)
<1>1. Typed(w) /\ Hands(w) /\ SwapKept(w) /\ (~w.stale => Backed(w) /\ Kept(w))
  BY DEF Inv
<1>2. /\ sp = w.space[s] /\ p \in Pages /\ f \in Frames /\ g \in sp.owned
      /\ \E r \in sp.regions : InRegion(r, p) /\ r.write
      /\ ~w.stale => /\ p \in DOMAIN sp.pte /\ f = sp.pte[p].frame
                     /\ IsCached(w.cache, f) /\ \A q : ~Maps(w.space, s, q, g)
  BY DEF CowCopied
<1>3. SpaceOK(s, sp) /\ sp \in AddressSpaces
  BY <1>1, <1>2, Here
<1>4. /\ n = [owned |-> n.owned, tables |-> n.tables, regions |-> n.regions,
               pte |-> n.pte, swapped |-> n.swapped, next |-> n.next]
      /\ n.owned = sp.owned /\ n.tables = sp.tables \cup {TableOf(p)} /\ n.regions = sp.regions
      /\ n.pte = With(sp.pte, p, [frame |-> g, write |-> TRUE])
      /\ n.swapped = sp.swapped /\ n.next = sp.next
  BY DEF CowCopied
<1>5. /\ Replaced(w, v, s, n) /\ Rest(w, v)
      /\ v.mem = [w.mem EXCEPT ![g] = w.mem[f]]
      /\ v.lost = w.lost /\ v.swap = w.swap
  BY DEF CowCopied
<1>6. PICK F : F = FramesDropped(w.cache, cnt)
  OBVIOUS
<1>7. /\ v.free = w.free \cup F /\ v.cache = CacheAfter(w.cache, cnt)
      /\ cnt = [h \in Frames |-> IF h = f THEN 1 ELSE 0]
  BY <1>6 DEF CowCopied
<1>8. /\ n.pte = [q \in DOMAIN n.pte |-> n.pte[q]]
      /\ DOMAIN n.pte = DOMAIN sp.pte \cup {p} /\ n.pte[p] = [frame |-> g, write |-> TRUE]
      /\ \A q \in DOMAIN sp.pte : q # p => n.pte[q] = sp.pte[q]
  BY <1>2, <1>4 DEF With
<1>9. p \in Pages /\ f \in Frames
  BY <1>2
<1>10. /\ g \in Frames /\ g \notin w.free /\ g \notin w.lost
       /\ ~IsCached(w.cache, g) /\ ~IsOnSurface(w.surface, g) /\ Owns(w.space, s, g)
       /\ ~w.stale => \A t \in Spaces : \A q : ~Maps(w.space, t, q, g)
  <2>1. Owns(w.space, s, g)
    BY <1>2 DEF Owns
  <2>2. /\ g \in Frames /\ g \notin w.free /\ g \notin w.lost
        /\ ~IsCached(w.cache, g) /\ ~IsOnSurface(w.surface, g)
        /\ Backed(w) => \A t \in Spaces : \A q : Maps(w.space, t, q, g) => t = s
    BY <1>1, <2>1, OwnedApart
  <2>3. ~w.stale => \A t \in Spaces : \A q : ~Maps(w.space, t, q, g)
    BY <1>1, <1>2, <2>2
  <2> QED BY <2>1, <2>2, <2>3
<1>11. cnt \in [Frames -> Nat]
  BY <1>7
<1>12. /\ DOMAIN v.cache \subseteq DOMAIN w.cache
       /\ \A x \in DOMAIN v.cache : v.cache[x].frame = w.cache[x].frame
       /\ DOMAIN v.cache \subseteq Files
       /\ IsFiniteSet(DOMAIN v.cache) /\ Cardinality(DOMAIN v.cache) <= MaxCachePages
       /\ \A x \in DOMAIN v.cache : v.cache[x] \in [frame : Frames, refs : Nat \ {0}]
       /\ F \subseteq Frames /\ \A h \in F : IsCached(w.cache, h)
       /\ \A h : IsCached(v.cache, h) <=> IsCached(w.cache, h) /\ h \notin F
  BY <1>1, <1>6, <1>7, <1>11, Dropping
<1>13. n \in AddressSpaces
  <2>1. n.pte \in Tables
    <3>1. n.pte[p] \in [frame : Frames, write : BOOLEAN]
      BY <1>8, <1>10
    <3>2. DOMAIN n.pte \subseteq Pages
          /\ \A q \in DOMAIN n.pte : n.pte[q] \in [frame : Frames, write : BOOLEAN]
      BY <1>2, <1>3, <1>8, <3>1, SpaceFields
    <3>3. n.pte = [q \in DOMAIN n.pte |-> n.pte[q]]
      BY <1>8
    <3> QED BY <3>2, <3>3, EntryTypes
  <2>2. sp.owned \subseteq Frames /\ sp.tables \cup {TableOf(p)} \subseteq Nat
        /\ sp.regions \subseteq Areas /\ sp.next \in Nat
    BY <1>3, <1>9, SpaceFields, TableOfPage
  <2>3. n.swapped \in Staged
    BY <1>3, <1>4 DEF AddressSpaces
  <2> QED BY <1>4, <2>1, <2>2, <2>3 DEF AddressSpaces
<1>14. SpaceOK(s, n)
  <2>1. \A q \in DOMAIN n.pte : TableOf(q) \in n.tables /\ q < n.next
    <3>1. TableOf(p) \in n.tables /\ p < n.next
      BY <1>2, <1>3, <1>4, BelowHint
    <3>2. \A q \in DOMAIN sp.pte : TableOf(q) \in n.tables /\ q < n.next
      BY <1>3, <1>4 DEF SpaceOK
    <3> QED BY <1>8, <3>1, <3>2
  <2>2. \A q \in DOMAIN n.swapped : /\ TableOf(q) \in n.tables
                                    /\ \E a \in n.regions : InRegion(a, q)
    BY <1>3, <1>4 DEF SpaceOK
  <2>3. /\ n.next \in Nat \ {0} /\ IsFiniteSet(n.regions) /\ Cardinality(n.regions) <= MaxVmAreas
        /\ \A a \in n.regions : AreaOK(s, a) /\ a.end <= n.next
        /\ \A a, b \in n.regions : \A y \in Pages : InRegion(a, y) /\ InRegion(b, y) => a = b
        /\ Cardinality(n.owned) <= MaxOwned
    BY <1>3, <1>4 DEF SpaceOK
  <2> QED BY <1>13, <2>1, <2>2, <2>3 DEF SpaceOK
<1>15. /\ Typed(v) /\ v.space[s] = n /\ IsLive(v.space, s)
       /\ \A t \in Spaces : t # s => v.space[t] = w.space[t]
  <2>1. v.free \subseteq Frames /\ v.lost \subseteq Frames /\ v.mem \in [Frames -> Contents]
    <3>1. w.mem[f] \in Contents
      BY <1>1, <1>9 DEF Typed
    <3> QED BY <1>1, <1>5, <1>7, <1>10, <1>12, <3>1 DEF Typed
  <2> QED BY <1>1, <1>5, <1>12, <1>13, <1>14, <2>1, TypedOne
<1>16. /\ \A t \in Spaces : IsLive(v.space, t) <=> IsLive(w.space, t)
       /\ \A t \in Spaces : IsLive(v.space, t) => v.space[t].next = w.space[t].next
       /\ \A t \in Spaces : \A h : Owns(v.space, t, h) <=> Owns(w.space, t, h)
       /\ \A t \in Spaces : \A q, h : Maps(v.space, t, q, h) <=>
             IF t = s /\ q = p THEN h = g ELSE Maps(w.space, t, q, h)
       /\ \A t \in Spaces : \A q, y : Shows(v.space, t, q, y) <=> Shows(w.space, t, q, y)
       /\ \A t \in Spaces : \A q, a : Untouched(v.space, t, q, a) => Untouched(w.space, t, q, a)
  <2>1. /\ \A t \in Spaces : IsLive(v.space, t) <=> IsLive(w.space, t)
        /\ \A t \in Spaces : IsLive(v.space, t) => v.space[t].next = w.space[t].next
        /\ \A t \in Spaces : \A h : Owns(v.space, t, h) <=> Owns(w.space, t, h)
    BY <1>2, <1>4, <1>15 DEF IsLive, Owns
  <2>2. \A t \in Spaces : t # s =>
            /\ \A q, h : Maps(v.space, t, q, h) <=> Maps(w.space, t, q, h)
            /\ \A q, y : Shows(v.space, t, q, y) <=> Shows(w.space, t, q, y)
            /\ \A q, a : Untouched(v.space, t, q, a) <=> Untouched(w.space, t, q, a)
    BY <1>15 DEF IsLive, Maps, Shows, Untouched
  <2>3. \A q, h : Maps(v.space, s, q, h) <=> IF q = p THEN h = g ELSE Maps(w.space, s, q, h)
    BY <1>2, <1>8, <1>15 DEF Maps, IsLive
  <2>4. \A q, y : Shows(v.space, s, q, y) <=> Shows(w.space, s, q, y)
    BY <1>2, <1>4, <1>15 DEF Shows, IsLive
  <2>5. \A q, a : Untouched(v.space, s, q, a) => Untouched(w.space, s, q, a)
    BY <1>2, <1>4, <1>8, <1>15 DEF Untouched, IsLive
  <2> QED BY <2>1, <2>2, <2>3, <2>4, <2>5
<1>17. Hands(v)
  <2>1. \A h : IsOwned(v.space, h) <=> IsOwned(w.space, h)
    BY <1>16 DEF IsOwned
  <2>2. \A y, z \in DOMAIN v.cache : v.cache[y].frame = v.cache[z].frame => y = z
    BY <1>1, <1>12 DEF Hands
  <2> QED BY <1>1, <1>5, <1>7, <1>12, <1>16, <2>1, <2>2 DEF Hands, Rest
<1>18. SwapKept(v)
  BY <1>1, <1>5, <1>16 DEF SwapKept, Rest
<1>19. ASSUME ~v.stale PROVE Backed(v) /\ Kept(v)
  <2>1. ~w.stale /\ Backed(w) /\ Kept(w)
    BY <1>1, <1>5, <1>19 DEF Rest
  <2>2. /\ IsCached(w.cache, f) /\ f # g
        /\ \A t \in Spaces : \A q : ~Maps(w.space, t, q, g)
        /\ p \in DOMAIN sp.pte /\ Maps(w.space, s, p, f)
    BY <1>2, <1>10, <2>1 DEF Maps
  <2>3. /\ MappersIn(v.space, f) = MappersIn(w.space, f) \ {<<s, p>>}
        /\ \A h : IsCached(w.cache, h) /\ h # f => MappersIn(v.space, h) = MappersIn(w.space, h)
    <3>1. MappersIn(v.space, f) = MappersIn(w.space, f) \ {<<s, p>>}
      BY <1>16, <2>2 DEF MappersIn
    <3>2. ASSUME NEW h, IsCached(w.cache, h), h # f
          PROVE  MappersIn(v.space, h) = MappersIn(w.space, h)
      <4>1. h # g /\ ~Maps(w.space, s, p, h)
        BY <1>10, <2>2, <3>2 DEF Maps
      <4>2. \A t \in Spaces : \A q : Maps(v.space, t, q, h) <=> Maps(w.space, t, q, h)
        BY <1>16, <4>1
      <4> QED BY <4>2 DEF MappersIn
    <3> QED BY <3>1, <3>2
  <2>4. /\ \A y \in DOMAIN v.cache :
              v.cache[y].refs = Cardinality(MappersIn(v.space, v.cache[y].frame))
        /\ \A h \in F : MappersIn(v.space, h) = {}
    <3>0. <<s, p>> \in MappersIn(w.space, f)
      BY <1>9, <2>2 DEF MappersIn
    <3>1. MappersIn(w.space, f) \ MappersIn(v.space, f) = {<<s, p>>}
      BY <2>3, <3>0
    <3>2. Cardinality({<<s, p>>}) = 1 /\ Cardinality({}) = 0
      BY FS_Singleton, FS_EmptySet
    <3>3. DropsMappings(w, v.space, cnt)
      <4>1. ASSUME NEW h \in Frames, IsCached(w.cache, h), h # f
            PROVE  MappersIn(w.space, h) \ MappersIn(v.space, h) = {}
        BY <2>3, <4>1
      <4> QED BY <1>7, <2>3, <3>1, <3>2, <4>1 DEF DropsMappings
    <3>4. Typed(w) /\ Hands(w) /\ Backed(w)
      BY <1>1, <2>1
    <3> QED BY <3>4, <1>6, <1>7, <1>11, <3>3, DroppedExactly
  <2>5. \A t \in Spaces, q \in Pages, h \in F : ~Maps(v.space, t, q, h)
    <3>1. ASSUME NEW t \in Spaces, NEW q \in Pages, NEW h \in F, Maps(v.space, t, q, h)
          PROVE  FALSE
      <4>1. <<t, q>> \in MappersIn(v.space, h)
        BY <3>1 DEF MappersIn
      <4> QED BY <2>4, <4>1
    <3> QED BY <3>1
  <2>6. Backed(v)
    <3>1. \A t \in Spaces : \A q, h : Maps(w.space, t, q, h) /\ ~(t = s /\ q = p) =>
              v.space[t].pte[q] = w.space[t].pte[q]
      <4>1. \A q, h : Maps(w.space, s, q, h) /\ q # p => v.space[s].pte[q] = w.space[s].pte[q]
        BY <1>2, <1>8, <1>15 DEF Maps
      <4> QED BY <1>15, <4>1
    <3>2. \A t \in Spaces, q \in Pages, h \in Frames : Maps(v.space, t, q, h) =>
             /\ Owns(v.space, t, h) \/ IsCached(v.cache, h) \/ IsOnSurface(v.surface, h)
             /\ v.space[t].pte[q].write <=> ~IsCached(v.cache, h)
      <4>1. v.space[s].pte[p].write
        BY <1>8, <1>15
      <4> QED BY <1>5, <1>10, <1>12, <1>16, <2>1, <2>5, <3>1, <4>1 DEF Backed, Rest
    <3>3. \A t \in Spaces : IsLive(v.space, t) => RegionsKept(v.space[t])
      <4>1. RegionsKept(sp)
        BY <1>2, <2>1 DEF Backed
      <4>2. ASSUME NEW a \in n.regions, NEW q \in Pages, InRegion(a, q), ~a.write
            PROVE  q \notin DOMAIN n.swapped /\ (q \in DOMAIN n.pte => ~n.pte[q].write)
        <5>1. q \notin DOMAIN sp.swapped /\ (q \in DOMAIN sp.pte => ~sp.pte[q].write)
          BY <1>4, <4>1, <4>2 DEF RegionsKept
        <5>2. q # p
          BY <1>2, <1>3, <1>4, <4>2 DEF SpaceOK
        <5> QED BY <1>4, <1>8, <5>1, <5>2
      <4>3. RegionsKept(n)
        <5>1. \A q \in DOMAIN n.pte : \E a \in n.regions : InRegion(a, q)
          BY <1>2, <1>4, <1>8, <4>1 DEF RegionsKept
        <5> QED BY <4>2, <5>1 DEF RegionsKept
      <4> QED BY <1>15, <1>16, <2>1, <4>3 DEF Backed
    <3>4. \A t, u \in Spaces, q, y \in Pages, h \in Frames :
             Maps(v.space, t, q, h) /\ Maps(v.space, u, y, h) /\ ~IsCached(v.cache, h) =>
                t = u /\ q = y
      BY <1>12, <1>16, <2>1, <2>2, <2>5 DEF Backed
    <3>5. \A t, u \in Spaces, q \in Pages : v.creating[t] # 0 =>
             \A k \in DOMAIN v.surface[v.creating[t]].frames :
                ~Maps(v.space, u, q, v.surface[v.creating[t]].frames[k])
      BY <1>1, <1>5, <1>10, <1>16, <2>1, CreatingTypes DEF Backed, Rest
    <3>6. \A t \in Spaces, q \in Pages, h \in Frames, y \in Slots :
             ~(Maps(v.space, t, q, h) /\ Shows(v.space, t, q, y))
      <4>1. \A y \in Slots : ~Shows(w.space, s, p, y)
        BY <1>9, <2>1, <2>2 DEF Backed
      <4> QED BY <1>16, <2>1, <4>1 DEF Backed
    <3> QED BY <2>4, <3>2, <3>3, <3>4, <3>5, <3>6 DEF Backed
  <2>7. v.mem[g] = w.mem[f] /\ \A h \in Frames : h # g => v.mem[h] = w.mem[h]
    BY SMTT(30), <1>1, <1>5, <1>10 DEF Typed
  <2>8. Kept(v)
    <3>1. \A y \in DOMAIN v.cache : v.mem[v.cache[y].frame] = y
      <4>1. \A y \in DOMAIN w.cache :
               w.cache[y].frame \in Frames /\ w.cache[y].frame # g /\ w.mem[w.cache[y].frame] = y
        BY <1>1, <1>10, <2>1, CacheTypes DEF Kept
      <4> QED BY <1>12, <2>7, <4>1
    <3>2. \A t \in Spaces, q \in Pages, h \in Frames :
             Maps(v.space, t, q, h) => v.mem[h] = v.value[t][q]
      <4>1. \A t \in Spaces, q \in Pages, h \in Frames :
               Maps(w.space, t, q, h) => w.mem[h] = w.value[t][q]
        BY <2>1 DEF Kept
      <4>2. w.mem[f] = w.value[s][p] /\ v.value = w.value
        BY SMTT(30), <1>5, <1>9, <2>2, <4>1 DEF Rest
      <4> QED BY <1>16, <2>2, <2>7, <4>1, <4>2
    <3>3. \A t \in Spaces : w.creating[t] # 0 =>
             \A k \in DOMAIN w.surface[w.creating[t]].frames :
                v.mem[w.surface[w.creating[t]].frames[k]] = Zero
      BY <1>1, <1>10, <2>1, <2>7, CreatingTypes DEF Kept
    <3> QED BY <1>5, <1>16, <2>1, <3>1, <3>2, <3>3 DEF Kept, Rest
  <2> QED BY <2>6, <2>8
<1> QED BY <1>15, <1>17, <1>18, <1>19 DEF Inv

-----------------------------------------------------------------------------
(* The regions R stay and the pages ps of the others go: the frames G of   *)
(* the space's own that pages of qs map and the slots X they are staged in *)
(* are given back, every cached frame loses the references of qs, and the  *)
(* entries of ts are cleared.  Until a surface is freed under its mapping  *)
(* those are all the entries of ps.                                        *)
Unmapped(w, v, s, sp, n, ps, qs, ts, R, cnt, G, X) ==
    /\ sp = w.space[s] /\ ps \subseteq Pages /\ qs \subseteq ps /\ ts \subseteq ps
    /\ ~w.stale => \A p \in ps \cap DOMAIN sp.pte : p \in qs /\ p \in ts
    /\ R \subseteq sp.regions
    /\ \A r \in R, p \in ps : ~InRegion(r, p)
    /\ \A r \in sp.regions \ R, p \in Pages : InRegion(r, p) => p \in ps
    /\ cnt = Uses(sp, qs)
    /\ G = {sp.pte[p].frame : p \in qs \cap DOMAIN sp.pte} \cap sp.owned
    /\ X = {sp.swapped[p] : p \in ps \cap DOMAIN sp.swapped}
    /\ n = [owned |-> sp.owned \ G, tables |-> sp.tables, regions |-> R,
            pte |-> Beyond(sp.pte, ts), swapped |-> Beyond(sp.swapped, ps), next |-> sp.next]
    /\ Rest(w, v) /\ Replaced(w, v, s, n)
    /\ v.free = (w.free \cup FramesDropped(w.cache, cnt)) \cup G
    /\ v.mem = w.mem /\ v.cache = CacheAfter(w.cache, cnt)
    /\ v.lost = w.lost /\ v.swap = Beyond(w.swap, X)

(* The pages of one space that map a frame are finitely many. *)
LEMMA UsesCount ==
  ASSUME NEW s \in Spaces, NEW sp \in AddressSpaces, NEW ps \in SUBSET Pages
  PROVE  /\ Uses(sp, ps) \in [Frames -> Nat]
         /\ \A f \in Frames : Uses(sp, ps)[f] =
               Cardinality({s} \X {p \in ps \cap DOMAIN sp.pte : sp.pte[p].frame = f})
<1>1. ASSUME NEW f \in Frames, NEW P, P = {p \in ps \cap DOMAIN sp.pte : sp.pte[p].frame = f}
      PROVE  Cardinality(P) \in Nat /\ Cardinality({s} \X P) = Cardinality(P)
  <2>1. P \in SUBSET Pages
    BY <1>1
  <2>2. IsFiniteSet(P) /\ Cardinality(P) \in Nat
    BY <2>1, Bounds, FS_Subset, FS_CardinalityType
  <2>3. IsFiniteSet({s}) /\ Cardinality({s}) = 1
    BY FS_Singleton
  <2>4. Cardinality({s} \X P) = Cardinality({s}) * Cardinality(P)
    BY <2>2, <2>3, FS_Product
  <2> QED BY <2>2, <2>3, <2>4
<1>2. \A f \in Frames :
         /\ Cardinality({p \in ps \cap DOMAIN sp.pte : sp.pte[p].frame = f}) \in Nat
         /\ Cardinality({s} \X {p \in ps \cap DOMAIN sp.pte : sp.pte[p].frame = f})
              = Cardinality({p \in ps \cap DOMAIN sp.pte : sp.pte[p].frame = f})
  BY <1>1
<1> QED BY <1>2 DEF Uses

LEMMA UnmapKeeps ==
  ASSUME NEW w, NEW v, Inv(w), NEW s \in Spaces, IsLive(w.space, s),
         NEW sp, NEW n, NEW ps, NEW qs, NEW ts, NEW R, NEW cnt, NEW G, NEW X,
         Unmapped(w, v, s, sp, n, ps, qs, ts, R, cnt, G, X)
  PROVE  /\ Inv(v) /\ v.space[s] = n /\ IsLive(v.space, s) /\ n \in AddressSpaces
         /\ ~v.stale => \A t \in Spaces, q \in Pages, h \in Frames :
               Maps(v.space, t, q, h) <=> Maps(w.space, t, q, h) /\ ~(t = s /\ q \in ps)
<1>1. Typed(w) /\ Hands(w) /\ SwapKept(w) /\ (~w.stale => Backed(w) /\ Kept(w))
  BY SMTT(30) DEF Inv
<1>2. /\ sp = w.space[s] /\ ps \subseteq Pages /\ R \subseteq sp.regions
      /\ qs \subseteq ps /\ ts \subseteq ps /\ qs \subseteq Pages
      /\ \A r \in R, p \in ps : ~InRegion(r, p)
      /\ \A r \in sp.regions \ R, p \in Pages : InRegion(r, p) => p \in ps
      /\ cnt = Uses(sp, qs)
      /\ G = {sp.pte[p].frame : p \in qs \cap DOMAIN sp.pte} \cap sp.owned
      /\ X = {sp.swapped[p] : p \in ps \cap DOMAIN sp.swapped}
  BY SMTT(30) DEF Unmapped
<1>25. ~w.stale => \A p \in ps \cap DOMAIN sp.pte : p \in qs /\ p \in ts
  BY DEF Unmapped
<1>3. SpaceOK(s, sp) /\ sp \in AddressSpaces
  BY Zenon, <1>1, <1>2, Here
<1>4. /\ n = [owned |-> n.owned, tables |-> n.tables, regions |-> n.regions,
               pte |-> n.pte, swapped |-> n.swapped, next |-> n.next]
      /\ n.owned = sp.owned \ G /\ n.tables = sp.tables /\ n.regions = R
      /\ n.pte = Beyond(sp.pte, ts) /\ n.swapped = Beyond(sp.swapped, ps) /\ n.next = sp.next
  BY ZenonT(30) DEF Unmapped
<1>5. /\ Replaced(w, v, s, n) /\ Rest(w, v)
      /\ v.mem = w.mem /\ v.lost = w.lost /\ v.swap = Beyond(w.swap, X)
  BY DEF Unmapped
<1>6. PICK F : F = FramesDropped(w.cache, cnt)
  BY SMTT(30)
<1>7. v.free = (w.free \cup F) \cup G /\ v.cache = CacheAfter(w.cache, cnt)
  BY <1>6 DEF Unmapped
<1>8. /\ n.pte = [q \in DOMAIN n.pte |-> n.pte[q]]
      /\ DOMAIN n.pte = DOMAIN sp.pte \ ts /\ \A q \in DOMAIN n.pte : n.pte[q] = sp.pte[q]
      /\ n.swapped = [q \in DOMAIN n.swapped |-> n.swapped[q]]
      /\ DOMAIN n.swapped = DOMAIN sp.swapped \ ps
      /\ \A q \in DOMAIN n.swapped : n.swapped[q] = sp.swapped[q]
  BY <1>4 DEF Beyond
<1>9. G \subseteq sp.owned /\ G \subseteq Frames /\ sp.owned \subseteq Frames
  BY <1>2, <1>3, SpaceFields
<1>10. \A g \in G : /\ g \in Frames /\ g \notin w.free /\ g \notin w.lost
                    /\ ~IsCached(w.cache, g) /\ ~IsOnSurface(w.surface, g)
                    /\ Owns(w.space, s, g)
                    /\ \A t \in Spaces : Owns(w.space, t, g) => t = s
                    /\ \E p \in qs : Maps(w.space, s, p, g)
                    /\ Backed(w) => \A t \in Spaces : \A q : Maps(w.space, t, q, g) => t = s
  <2>1. ASSUME NEW g \in G PROVE Owns(w.space, s, g) /\ \E p \in qs : Maps(w.space, s, p, g)
    BY <1>2, <2>1 DEF Owns, Maps
  <2>2. ASSUME NEW g \in G
        PROVE  /\ g \in Frames /\ g \notin w.free /\ g \notin w.lost
               /\ ~IsCached(w.cache, g) /\ ~IsOnSurface(w.surface, g)
               /\ \A t \in Spaces : Owns(w.space, t, g) => t = s
               /\ Backed(w) => \A t \in Spaces : \A q : Maps(w.space, t, q, g) => t = s
    BY <1>1, <2>1, <2>2, OwnedApart
  <2> QED BY <2>1, <2>2
<1>11. /\ cnt \in [Frames -> Nat]
       /\ \A f \in Frames : cnt[f] =
             Cardinality({s} \X {p \in qs \cap DOMAIN sp.pte : sp.pte[p].frame = f})
  BY <1>2, <1>3, UsesCount
<1>12. /\ DOMAIN v.cache \subseteq DOMAIN w.cache
       /\ \A x \in DOMAIN v.cache : v.cache[x].frame = w.cache[x].frame
       /\ DOMAIN v.cache \subseteq Files
       /\ IsFiniteSet(DOMAIN v.cache) /\ Cardinality(DOMAIN v.cache) <= MaxCachePages
       /\ \A x \in DOMAIN v.cache : v.cache[x] \in [frame : Frames, refs : Nat \ {0}]
       /\ F \subseteq Frames /\ \A h \in F : IsCached(w.cache, h)
       /\ \A h : IsCached(v.cache, h) <=> IsCached(w.cache, h) /\ h \notin F
  <2>0. PICK d : d = v.cache
    OBVIOUS
  <2>1. /\ Typed(w) /\ Hands(w) /\ cnt \in [Frames -> Nat]
        /\ d = CacheAfter(w.cache, cnt) /\ F = FramesDropped(w.cache, cnt)
    BY <1>1, <1>6, <1>7, <1>11, <2>0
  <2>2. /\ DOMAIN d \subseteq DOMAIN w.cache
        /\ \A x \in DOMAIN d : d[x].frame = w.cache[x].frame
        /\ \A x \in DOMAIN d : d[x].refs = w.cache[x].refs - cnt[w.cache[x].frame]
        /\ DOMAIN d \subseteq Files
        /\ IsFiniteSet(DOMAIN d) /\ Cardinality(DOMAIN d) <= MaxCachePages
        /\ \A x \in DOMAIN d : d[x] \in [frame : Frames, refs : Nat \ {0}]
        /\ F \subseteq Frames /\ \A f \in F : IsCached(w.cache, f)
        /\ \A f : IsCached(d, f) <=> IsCached(w.cache, f) /\ f \notin F
        /\ \A x \in DOMAIN w.cache : w.cache[x].frame \in F =>
              w.cache[x].refs <= cnt[w.cache[x].frame]
    BY ONLY SMTT(60), <2>1, Dropping
  <2> QED BY ONLY <2>0, <2>2
<1>13. n \in AddressSpaces
  <2>1. n.pte \in Tables
    <3>1. DOMAIN n.pte \subseteq Pages
          /\ \A q \in DOMAIN n.pte : n.pte[q] \in [frame : Frames, write : BOOLEAN]
      BY <1>3, <1>8, SpaceFields
    <3> QED BY <1>8, <3>1, EntryTypes
  <2>2. n.swapped \in Staged
    <3>1. DOMAIN n.swapped \subseteq Pages /\ \A q \in DOMAIN n.swapped : n.swapped[q] \in Slots
      BY <1>3, <1>8, SpaceFields
    <3> QED BY <1>8, <3>1, EntryTypes
  <2>3. sp.owned \ G \subseteq Frames /\ sp.tables \subseteq Nat
        /\ R \subseteq Areas /\ sp.next \in Nat
    BY Zenon, <1>2, <1>3, SpaceFields
  <2> QED BY <1>4, <2>1, <2>2, <2>3 DEF AddressSpaces
<1>14. SpaceOK(s, n)
  <2>1. Cardinality(n.owned) <= MaxOwned
    <3>1. n.owned \in SUBSET sp.owned /\ n.owned \in SUBSET Frames
      BY <1>4, <1>9
    <3>2. Cardinality(n.owned) <= Cardinality(sp.owned)
      BY <1>9, <3>1, OwnedSizes
    <3>3. Cardinality(sp.owned) \in Nat /\ Cardinality(n.owned) \in Nat
      BY <1>9, <3>1, OwnedFinite
    <3>4. Cardinality(sp.owned) <= MaxOwned
      BY <1>3 DEF SpaceOK
    <3> QED BY <3>2, <3>3, <3>4, MemoryAssumption
  <2>2. IsFiniteSet(n.regions) /\ Cardinality(n.regions) <= MaxVmAreas
    <3>1. IsFiniteSet(sp.regions) /\ Cardinality(sp.regions) <= MaxVmAreas
      BY <1>3 DEF SpaceOK
    <3>2. n.regions \in SUBSET sp.regions
      BY SMTT(30), <1>2, <1>4
    <3>3. IsFiniteSet(n.regions) /\ Cardinality(n.regions) <= Cardinality(sp.regions)
      BY <3>1, <3>2, FS_Subset
    <3>4. Cardinality(n.regions) \in Nat /\ Cardinality(sp.regions) \in Nat
      BY SMTT(30), <3>1, <3>3, FS_CardinalityType
    <3> QED BY <3>1, <3>3, <3>4, MemoryAssumption
  <2>3. \A q \in Pages : q \notin ps /\ (\E a \in sp.regions : InRegion(a, q)) =>
           \E a \in n.regions : InRegion(a, q)
    BY <1>2, <1>4
  <2>4. DOMAIN n.pte \subseteq Pages /\ DOMAIN n.swapped \subseteq Pages
    BY <1>13, SpaceFields
  <2>5. \A q \in DOMAIN n.pte : TableOf(q) \in n.tables /\ q < n.next
    BY <1>3, <1>4, <1>8 DEF SpaceOK
  <2>6. \A q \in DOMAIN n.swapped : TableOf(q) \in n.tables /\ \E a \in n.regions : InRegion(a, q)
    BY <1>3, <1>4, <1>8, <2>3, <2>4 DEF SpaceOK
  <2>7. /\ n.next \in Nat \ {0}
        /\ \A a \in n.regions : AreaOK(s, a) /\ a.end <= n.next
        /\ \A a, b \in n.regions : \A y \in Pages : InRegion(a, y) /\ InRegion(b, y) => a = b
    BY <1>2, <1>3, <1>4 DEF SpaceOK
  <2> QED BY <1>13, <2>1, <2>2, <2>5, <2>6, <2>7 DEF SpaceOK
<1>15. /\ Typed(v) /\ v.space[s] = n /\ IsLive(v.space, s)
       /\ \A t \in Spaces : t # s => v.space[t] = w.space[t]
  <2>1. v.free \subseteq Frames /\ v.lost \subseteq Frames /\ v.mem \in [Frames -> Contents]
    BY <1>1, <1>5, <1>7, <1>9, <1>12 DEF Typed
  <2> QED BY <1>1, <1>5, <1>12, <1>13, <1>14, <2>1, TypedOne
<1>16. /\ \A t \in Spaces : IsLive(v.space, t) <=> IsLive(w.space, t)
       /\ \A t \in Spaces : IsLive(v.space, t) => v.space[t].next = w.space[t].next
       /\ \A t \in Spaces : \A h : Owns(v.space, t, h) <=> Owns(w.space, t, h) /\ ~(t = s /\ h \in G)
       /\ \A t \in Spaces : \A q, h : Maps(v.space, t, q, h) <=>
             Maps(w.space, t, q, h) /\ ~(t = s /\ q \in ts)
       /\ \A t \in Spaces : \A q, y : Shows(v.space, t, q, y) <=>
             Shows(w.space, t, q, y) /\ ~(t = s /\ q \in ps)
       /\ \A t \in Spaces : \A q, a : Untouched(v.space, t, q, a) => Untouched(w.space, t, q, a)
  <2>1. /\ \A t \in Spaces : IsLive(v.space, t) <=> IsLive(w.space, t)
        /\ \A t \in Spaces : IsLive(v.space, t) => v.space[t].next = w.space[t].next
        /\ \A t \in Spaces : \A h : Owns(v.space, t, h) <=> Owns(w.space, t, h) /\ ~(t = s /\ h \in G)
    BY <1>2, <1>4, <1>15 DEF IsLive, Owns
  <2>2. \A t \in Spaces : t # s =>
            /\ \A q, h : Maps(v.space, t, q, h) <=> Maps(w.space, t, q, h)
            /\ \A q, y : Shows(v.space, t, q, y) <=> Shows(w.space, t, q, y)
            /\ \A q, a : Untouched(v.space, t, q, a) <=> Untouched(w.space, t, q, a)
    BY <1>15 DEF IsLive, Maps, Shows, Untouched
  <2>3. \A q, h : Maps(v.space, s, q, h) <=> Maps(w.space, s, q, h) /\ q \notin ts
    BY Zenon, <1>2, <1>8, <1>15 DEF Maps, IsLive
  <2>4. \A q, y : Shows(v.space, s, q, y) <=> Shows(w.space, s, q, y) /\ q \notin ps
    BY <1>2, <1>8, <1>15 DEF Shows, IsLive
  <2>5. \A q, a : Untouched(v.space, s, q, a) => Untouched(w.space, s, q, a)
    BY Zenon, <1>2, <1>4, <1>8, <1>15 DEF Untouched, IsLive
  <2> QED BY SMTT(30), <2>1, <2>2, <2>3, <2>4, <2>5
<1>17. Hands(v)
  <2>1. \A h : IsOwned(v.space, h) <=> IsOwned(w.space, h) /\ h \notin G
    BY <1>10, <1>16 DEF IsOwned
  <2>2. \A y, z \in DOMAIN v.cache : v.cache[y].frame = v.cache[z].frame => y = z
    BY SMTT(30), <1>1, <1>12 DEF Hands
  <2> QED BY <1>1, <1>5, <1>7, <1>10, <1>12, <1>16, <2>1, <2>2 DEF Hands, Rest
<1>18. /\ \A y : y \in DOMAIN v.swap <=>
             y \in DOMAIN w.swap /\ \A p \in ps : ~Shows(w.space, s, p, y)
       /\ \A y \in DOMAIN v.swap : v.swap[y] = w.swap[y]
  BY <1>2, <1>5 DEF Beyond, Shows
<1>19. SwapKept(v)
  <2>1. DOMAIN v.swap \subseteq Slots /\ \A y \in DOMAIN v.swap : v.swap[y] \in Contents
    BY <1>1, <1>18 DEF SwapKept
  <2>2. ~v.stale => \A y \in DOMAIN v.swap : \E t \in Spaces, q \in Pages : Shows(v.space, t, q, y)
    BY <1>1, <1>5, <1>16, <1>18 DEF SwapKept, Rest
  <2>3. \A t \in Spaces, q \in Pages, y \in Slots : Shows(v.space, t, q, y) => y \in DOMAIN v.swap
    BY <1>1, <1>2, <1>16, <1>18 DEF SwapKept
  <2> QED BY <1>1, <1>16, <2>1, <2>2, <2>3 DEF SwapKept
<1>20. ASSUME ~v.stale PROVE Backed(v) /\ Kept(v)
  <2>1. ~w.stale /\ Backed(w) /\ Kept(w)
    BY <1>1, <1>5, <1>20 DEF Rest
  <2>15. \A q \in DOMAIN sp.pte : (q \in ps <=> q \in ts) /\ (q \in ps <=> q \in qs)
    BY <1>2, <1>25, <2>1
  <2>16. \A q, h : Maps(w.space, s, q, h) => (q \in ps <=> q \in ts)
    BY <1>2, <2>15 DEF Maps
  <2>0. /\ \A t \in Spaces : IsLive(v.space, t) <=> IsLive(w.space, t)
        /\ \A t \in Spaces : IsLive(v.space, t) => v.space[t].next = w.space[t].next
        /\ \A t \in Spaces : \A h : Owns(v.space, t, h) <=> Owns(w.space, t, h) /\ ~(t = s /\ h \in G)
        /\ \A t \in Spaces : \A q, h : Maps(v.space, t, q, h) <=>
              Maps(w.space, t, q, h) /\ ~(t = s /\ q \in ps)
        /\ \A t \in Spaces : \A q, y : Shows(v.space, t, q, y) <=>
              Shows(w.space, t, q, y) /\ ~(t = s /\ q \in ps)
        /\ \A t \in Spaces : \A q, a : Untouched(v.space, t, q, a) => Untouched(w.space, t, q, a)
    BY <1>16, <2>16
  <2>2. /\ \A y \in DOMAIN v.cache :
              v.cache[y].refs = Cardinality(MappersIn(v.space, v.cache[y].frame))
        /\ \A h \in F : MappersIn(v.space, h) = {}
    <3>1. ASSUME NEW h \in Frames, IsCached(w.cache, h)
          PROVE  /\ MappersIn(v.space, h) \subseteq MappersIn(w.space, h)
                 /\ cnt[h] = Cardinality(MappersIn(w.space, h) \ MappersIn(v.space, h))
      <4>1. MappersIn(v.space, h) \subseteq MappersIn(w.space, h)
        BY <2>0 DEF MappersIn
      <4>2. MappersIn(w.space, h) \ MappersIn(v.space, h)
              = {a \in Spaces \X Pages : Maps(w.space, a[1], a[2], h) /\ a[1] = s /\ a[2] \in ps}
        BY SMTT(30), <2>0 DEF MappersIn
      <4>3. @ = {s} \X {p \in qs \cap DOMAIN sp.pte : sp.pte[p].frame = h}
        BY <1>2, <2>15 DEF Maps
      <4> QED BY <1>11, <4>1, <4>2, <4>3
    <3>2. DropsMappings(w, v.space, cnt)
      BY <3>1 DEF DropsMappings
    <3>3. Typed(w) /\ Hands(w) /\ Backed(w)
      BY <1>1, <2>1
    <3>4. cnt \in [Frames -> Nat]
      BY <1>11
    <3> QED BY <1>6, <1>7, <3>2, <3>3, <3>4, DroppedExactly
  <2>3. \A t \in Spaces, q \in Pages, h \in F : ~Maps(v.space, t, q, h)
    <3>1. ASSUME NEW t \in Spaces, NEW q \in Pages, NEW h \in F, Maps(v.space, t, q, h)
          PROVE  FALSE
      <4>1. <<t, q>> \in MappersIn(v.space, h)
        BY <3>1 DEF MappersIn
      <4> QED BY <2>2, <4>1
    <3> QED BY <3>1
  <2>4. \A t \in Spaces, q \in Pages, h \in G : ~Maps(v.space, t, q, h)
    <3>1. ASSUME NEW t \in Spaces, NEW q \in Pages, NEW h \in G, Maps(v.space, t, q, h)
          PROVE  FALSE
      <4>1. Maps(w.space, t, q, h) /\ ~(t = s /\ q \in ps)
        BY <2>0, <3>1
      <4>2. PICK p \in qs : Maps(w.space, s, p, h)
        BY Zenon, <1>10
      <4>3. h \in Frames /\ ~IsCached(w.cache, h) /\ p \in Pages /\ p \in ps
        BY <1>2, <1>10
      <4>4. t = s /\ q = p
        BY <2>1, <4>1, <4>2, <4>3 DEF Backed
      <4> QED BY <4>1, <4>3, <4>4
    <3> QED BY <3>1
  <2>5. Backed(v)
    <3>1. \A t \in Spaces : \A q, h : Maps(v.space, t, q, h) => v.space[t].pte[q] = w.space[t].pte[q]
      <4>1. \A q, h : Maps(v.space, s, q, h) => v.space[s].pte[q] = w.space[s].pte[q]
        BY <1>2, <1>8, <1>15 DEF Maps
      <4> QED BY <1>15, <4>1
    <3>2. \A t \in Spaces, q \in Pages, h \in Frames : Maps(v.space, t, q, h) =>
             /\ Owns(v.space, t, h) \/ IsCached(v.cache, h) \/ IsOnSurface(v.surface, h)
             /\ v.space[t].pte[q].write <=> ~IsCached(v.cache, h)
      <4>1. \A t \in Spaces, q \in Pages, h \in Frames : Maps(v.space, t, q, h) =>
               /\ Maps(w.space, t, q, h) /\ h \notin F /\ h \notin G
               /\ v.space[t].pte[q] = w.space[t].pte[q]
        BY <2>0, <2>3, <2>4, <3>1
      <4> QED BY <1>5, <1>12, <2>0, <2>1, <4>1 DEF Backed, Rest
    <3>3. \A t \in Spaces : IsLive(v.space, t) => RegionsKept(v.space[t])
      <4>1. RegionsKept(sp)
        BY <1>2, <2>1 DEF Backed
      <4>2. RegionsKept(n)
        <5>1. ASSUME NEW a \in n.regions, NEW q \in Pages, InRegion(a, q), ~a.write
              PROVE  q \notin DOMAIN n.swapped /\ (q \in DOMAIN n.pte => ~n.pte[q].write)
          BY Zenon, <1>2, <1>4, <1>8, <4>1, <5>1 DEF RegionsKept
        <5>2. ASSUME NEW q \in DOMAIN n.pte PROVE \E a \in n.regions : InRegion(a, q)
          <6>1. q \in DOMAIN sp.pte /\ q \notin ps /\ q \in Pages
            BY <1>3, <1>8, <2>15, <5>2, SpaceFields
          <6>2. PICK a \in sp.regions : InRegion(a, q)
            BY <4>1, <6>1 DEF RegionsKept
          <6> QED BY <1>2, <1>4, <6>1, <6>2
        <5> QED BY <5>1, <5>2 DEF RegionsKept
      <4> QED BY <1>15, <2>0, <2>1, <4>2 DEF Backed
    <3>4. \A t, u \in Spaces, q, y \in Pages, h \in Frames :
             Maps(v.space, t, q, h) /\ Maps(v.space, u, y, h) /\ ~IsCached(v.cache, h) =>
                t = u /\ q = y
      BY <1>12, <2>0, <2>1, <2>3 DEF Backed
    <3>5. \A t, u \in Spaces, q \in Pages : v.creating[t] # 0 =>
             \A k \in DOMAIN v.surface[v.creating[t]].frames :
                ~Maps(v.space, u, q, v.surface[v.creating[t]].frames[k])
      BY <1>5, <2>0, <2>1 DEF Backed, Rest
    <3>6. \A t \in Spaces, q \in Pages, h \in Frames, y \in Slots :
             ~(Maps(v.space, t, q, h) /\ Shows(v.space, t, q, y))
      BY SMTT(30), <2>0, <2>1 DEF Backed
    <3> QED BY <2>2, <3>2, <3>3, <3>4, <3>5, <3>6 DEF Backed
  <2>6. Kept(v)
    <3>1. \A y \in DOMAIN v.cache : v.mem[v.cache[y].frame] = y
      BY <1>5, <1>12, <2>1 DEF Kept
    <3>2. \A t \in Spaces, q \in Pages, h \in Frames :
             Maps(v.space, t, q, h) => v.mem[h] = v.value[t][q]
      BY <1>5, <2>0, <2>1 DEF Kept, Rest
    <3>3. \A t \in Spaces, q \in Pages, y \in Slots :
             Shows(v.space, t, q, y) => v.swap[y] = v.value[t][q]
      <4>1. \A t \in Spaces, q \in Pages, y \in Slots :
               Shows(v.space, t, q, y) => v.swap[y] = w.swap[y]
        BY <1>18, <1>19 DEF SwapKept
      <4>2. \A t \in Spaces, q \in Pages, y \in Slots :
               Shows(w.space, t, q, y) => w.swap[y] = v.value[t][q]
        BY SMTT(30), <1>5, <2>1 DEF Kept, Rest
      <4> QED BY <2>0, <4>1, <4>2
    <3>4. \A t \in Spaces : v.creating[t] # 0 =>
             \A k \in DOMAIN v.surface[v.creating[t]].frames :
                v.mem[v.surface[v.creating[t]].frames[k]] = Zero
      BY <1>5, <2>1 DEF Kept, Rest
    <3>5. \A t \in Spaces, q \in Pages, a \in Areas : Untouched(v.space, t, q, a) =>
             /\ a.kind = "File" => v.value[t][q] = a.file
             /\ a.kind = "Anon" => v.value[t][q] = Zero
      BY <1>5, <2>0, <2>1 DEF Kept, Rest
    <3> QED BY <1>5, <2>0, <2>1, <3>1, <3>2, <3>3, <3>4, <3>5 DEF Kept, Rest
  <2> QED BY <2>5, <2>6
<1>21. ASSUME ~v.stale
       PROVE  \A t \in Spaces, q \in Pages, h \in Frames :
                 Maps(v.space, t, q, h) <=> Maps(w.space, t, q, h) /\ ~(t = s /\ q \in ps)
  <2>1. \A q, h : Maps(w.space, s, q, h) => (q \in ps <=> q \in ts)
    BY <1>2, <1>5, <1>21, <1>25 DEF Maps, Rest
  <2> QED BY <1>16, <2>1
<1> QED BY <1>13, <1>15, <1>17, <1>19, <1>20, <1>21 DEF Inv

-----------------------------------------------------------------------------
(* The slot s gets an empty space, or a space without mappings goes and    *)
(* the frames O it still owns with it.                                     *)
Bare(sp) == sp.regions = {} /\ DOMAIN sp.pte = {} /\ DOMAIN sp.swapped = {}

Switched(w, v, s, x, O) ==
    /\ x \in {NoSpace, NewSpace}
    /\ \/ w.space[s] = NoSpace /\ O = {}
       \/ IsLive(w.space, s) /\ Bare(w.space[s]) /\ O = w.space[s].owned
    /\ w.creating[s] = 0 /\ v.creating = w.creating
    /\ Replaced(w, v, s, x)
    /\ v.value \in [Spaces -> [Pages -> Contents]]
    /\ \A t \in Spaces : t # s => v.value[t] = w.value[t]
    /\ ~w.stale => \A p \in Pages : v.value[s][p] = Zero
    /\ v.free = w.free \cup O /\ v.mem = w.mem /\ v.cache = w.cache
    /\ v.lost = w.lost /\ v.swap = w.swap /\ v.surface = w.surface /\ v.stale = w.stale

LEMMA NewSpaceOK ==
  ASSUME NEW s \in Spaces
  PROVE  NewSpace \in AddressSpaces /\ SpaceOK(s, NewSpace)
<1>1. <<>> = [p \in {} |-> {}] /\ DOMAIN <<>> = {}
  OBVIOUS
<1>2. <<>> \in Tables /\ <<>> \in Staged
  BY <1>1, EntryTypes
<1>3. NewSpace \in AddressSpaces
  BY <1>2 DEF NewSpace, AddressSpaces
<1>4. /\ NewSpace.owned = {} /\ NewSpace.regions = {} /\ NewSpace.next = 1
      /\ DOMAIN NewSpace.pte = {} /\ DOMAIN NewSpace.swapped = {}
  BY <1>1 DEF NewSpace
<1>5. IsFiniteSet({}) /\ Cardinality({}) = 0
  BY FS_EmptySet
<1> QED BY <1>3, <1>4, <1>5, MemoryAssumption DEF SpaceOK

LEMMA SwitchKeeps ==
  ASSUME NEW w, NEW v, Inv(w), NEW s \in Spaces, NEW x, NEW O, Switched(w, v, s, x, O)
  PROVE  Inv(v)
<1>1. Typed(w) /\ Hands(w) /\ SwapKept(w) /\ (~w.stale => Backed(w) /\ Kept(w))
  BY DEF Inv
<1>2. /\ x \in {NoSpace, NewSpace}
      /\ \/ w.space[s] = NoSpace /\ O = {}
         \/ IsLive(w.space, s) /\ Bare(w.space[s]) /\ O = w.space[s].owned
      /\ w.creating[s] = 0
      /\ v.value \in [Spaces -> [Pages -> Contents]]
      /\ \A t \in Spaces : t # s => v.value[t] = w.value[t]
      /\ ~w.stale => \A p \in Pages : v.value[s][p] = Zero
  BY DEF Switched
<1>3. /\ v.creating = w.creating /\ Replaced(w, v, s, x)
      /\ v.free = w.free \cup O /\ v.mem = w.mem /\ v.cache = w.cache
      /\ v.lost = w.lost /\ v.swap = w.swap /\ v.surface = w.surface /\ v.stale = w.stale
  BY DEF Switched
<1>4. /\ w.space = [t \in Spaces |-> w.space[t]]
      /\ v.space = [t \in Spaces |-> v.space[t]] /\ v.space[s] = x
      /\ \A t \in Spaces : t # s => v.space[t] = w.space[t]
  <2>1. w.space = [t \in Spaces |-> w.space[t]]
    BY <1>1 DEF Typed
  <2> QED BY <1>3, <2>1 DEF Replaced
<1>5. \A t \in Spaces : t # s =>
         /\ IsLive(v.space, t) <=> IsLive(w.space, t)
         /\ \A f : Owns(v.space, t, f) <=> Owns(w.space, t, f)
         /\ \A p, f : Maps(v.space, t, p, f) <=> Maps(w.space, t, p, f)
         /\ \A p, y : Shows(v.space, t, p, y) <=> Shows(w.space, t, p, y)
         /\ \A p, r : Untouched(v.space, t, p, r) <=> Untouched(w.space, t, p, r)
  BY <1>4 DEF IsLive, Owns, Maps, Shows, Untouched
<1>6. /\ NewSpace \in AddressSpaces /\ SpaceOK(s, NewSpace) /\ NewSpace # NoSpace
      /\ NewSpace.owned = {} /\ NewSpace.regions = {} /\ NewSpace.next = 1
      /\ DOMAIN NewSpace.pte = {} /\ DOMAIN NewSpace.swapped = {}
  <2>1. NewSpace \in AddressSpaces /\ SpaceOK(s, NewSpace)
    BY NewSpaceOK
  <2>2. NewSpace # NoSpace
    BY <2>1, MemoryAssumption
  <2> QED BY <2>1, <2>2 DEF NewSpace
<1>7. /\ \A f : ~Owns(v.space, s, f)
      /\ \A p, f : ~Maps(v.space, s, p, f)
      /\ \A p, y : ~Shows(v.space, s, p, y)
      /\ \A p, r : ~Untouched(v.space, s, p, r)
  BY <1>2, <1>4, <1>6 DEF IsLive, Owns, Maps, Shows, Untouched
<1>8. /\ \A f : Owns(w.space, s, f) <=> f \in O
      /\ \A p, f : ~Maps(w.space, s, p, f)
      /\ \A p, y : ~Shows(w.space, s, p, y)
      /\ \A p, r : ~Untouched(w.space, s, p, r)
  <2>1. CASE w.space[s] = NoSpace /\ O = {}
    BY <2>1 DEF IsLive, Owns, Maps, Shows, Untouched
  <2>2. CASE IsLive(w.space, s) /\ Bare(w.space[s]) /\ O = w.space[s].owned
    BY <2>2 DEF Bare, Owns, Maps, Shows, Untouched
  <2> QED BY <1>2, <2>1, <2>2
<1>9. \A f \in O : /\ f \in Frames /\ f \notin w.free /\ f \notin w.lost
                   /\ ~IsCached(w.cache, f) /\ ~IsOnSurface(w.surface, f)
                   /\ \A t \in Spaces : Owns(w.space, t, f) => t = s
  BY <1>1, <1>8, OwnedApart
<1>10. Typed(v)
  <2>1. \A t \in Spaces : IsLive(v.space, t) => SpaceOK(t, v.space[t])
    <3>1. ASSUME NEW t \in Spaces, IsLive(v.space, t) PROVE SpaceOK(t, v.space[t])
      <4>1. CASE t = s
        BY <1>2, <1>4, <1>6, <3>1, <4>1 DEF IsLive
      <4>2. CASE t # s
        BY <1>1, <1>4, <1>5, <3>1, <4>2 DEF Typed
      <4> QED BY <4>1, <4>2
    <3> QED BY <3>1
  <2>2. v.free \subseteq Frames
    BY <1>1, <1>3, <1>9 DEF Typed
  <2>3. v.creating = [t \in Spaces |-> v.creating[t]]
        /\ \A t \in Spaces : v.creating[t] # 0 =>
             /\ IsLive(v.space, t)
             /\ v.creating[t] \in DOMAIN v.surface
             /\ v.surface[v.creating[t]].owner = t
    BY ZenonT(30), <1>1, <1>2, <1>3, <1>5 DEF Typed
  <2> QED BY <1>1, <1>2, <1>3, <1>4, <2>1, <2>2, <2>3 DEF Typed
<1>11. /\ \A t \in Spaces : \A f : Owns(v.space, t, f) <=> Owns(w.space, t, f) /\ t # s
       /\ \A t \in Spaces : \A p, f : Maps(v.space, t, p, f) <=> Maps(w.space, t, p, f)
       /\ \A t \in Spaces : \A p, y : Shows(v.space, t, p, y) <=> Shows(w.space, t, p, y)
       /\ \A t \in Spaces : \A p, r : Untouched(v.space, t, p, r) <=> Untouched(w.space, t, p, r)
       /\ \A f : MappersIn(v.space, f) = MappersIn(w.space, f)
  <2>1. \A t \in Spaces : \A p, f : Maps(v.space, t, p, f) <=> Maps(w.space, t, p, f)
    BY <1>5, <1>7, <1>8
  <2>2. \A f : MappersIn(v.space, f) = MappersIn(w.space, f)
    BY <2>1 DEF MappersIn
  <2> QED BY <1>5, <1>7, <1>8, <2>1, <2>2
<1>12. Hands(v)
  <2>1. \A f : IsOwned(v.space, f) <=> IsOwned(w.space, f) /\ f \notin O
    BY <1>8, <1>9, <1>11 DEF IsOwned
  <2>2. \A f \in O : IsOwned(w.space, f)
    BY <1>8 DEF IsOwned
  <2> QED BY <1>1, <1>3, <1>9, <1>11, <2>1, <2>2 DEF Hands
<1>13. SwapKept(v)
  BY <1>1, <1>3, <1>11 DEF SwapKept
<1>14. ASSUME ~v.stale PROVE Backed(v) /\ Kept(v)
  <2>1. ~w.stale /\ Backed(w) /\ Kept(w)
    BY <1>1, <1>3, <1>14
  <2>2. Backed(v)
    <3>1. \A t \in Spaces, q \in Pages, f \in Frames : Maps(v.space, t, q, f) =>
             /\ Owns(v.space, t, f) \/ IsCached(v.cache, f) \/ IsOnSurface(v.surface, f)
             /\ v.space[t].pte[q].write <=> ~IsCached(v.cache, f)
      <4>1. \A t \in Spaces, q \in Pages, f \in Frames : Maps(v.space, t, q, f) =>
               t # s /\ v.space[t] = w.space[t]
        BY <1>4, <1>7
      <4> QED BY <1>3, <1>11, <2>1, <4>1 DEF Backed
    <3>2. \A t \in Spaces : IsLive(v.space, t) => RegionsKept(v.space[t])
      <4>1. RegionsKept(NewSpace)
        BY <1>6 DEF RegionsKept
      <4>2. ASSUME NEW t \in Spaces, IsLive(v.space, t) PROVE RegionsKept(v.space[t])
        <5>1. CASE t = s
          BY <1>2, <1>4, <4>1, <4>2, <5>1 DEF IsLive
        <5>2. CASE t # s
          BY <1>4, <1>5, <2>1, <4>2, <5>2 DEF Backed
        <5> QED BY <5>1, <5>2
      <4> QED BY <4>2
    <3>3. \A t \in Spaces, q \in Pages, f \in Frames, y \in Slots :
             ~(Maps(v.space, t, q, f) /\ Shows(v.space, t, q, y))
      BY <1>11, <2>1 DEF Backed
    <3>4. \A t, u \in Spaces, q, z \in Pages, f \in Frames :
             Maps(v.space, t, q, f) /\ Maps(v.space, u, z, f) /\ ~IsCached(v.cache, f) =>
                t = u /\ q = z
      BY <1>3, <1>11, <2>1 DEF Backed
    <3>5. /\ \A y \in DOMAIN v.cache :
                v.cache[y].refs = Cardinality(MappersIn(v.space, v.cache[y].frame))
          /\ \A t, u \in Spaces, q \in Pages : v.creating[t] # 0 =>
                \A k \in DOMAIN v.surface[v.creating[t]].frames :
                   ~Maps(v.space, u, q, v.surface[v.creating[t]].frames[k])
      BY SMTT(30), <1>3, <1>11, <2>1 DEF Backed
    <3> QED BY <3>1, <3>2, <3>3, <3>4, <3>5 DEF Backed
  <2>3. Kept(v)
    <3>1. \A t \in Spaces, q \in Pages, f \in Frames :
             Maps(v.space, t, q, f) => v.mem[f] = v.value[t][q]
      BY <1>2, <1>3, <1>7, <1>11, <2>1 DEF Kept
    <3>2. \A t \in Spaces, q \in Pages, y \in Slots :
             Shows(v.space, t, q, y) => v.swap[y] = v.value[t][q]
      BY <1>2, <1>3, <1>7, <1>11, <2>1 DEF Kept
    <3>3. \A t \in Spaces, q \in Pages : ~IsLive(v.space, t) => v.value[t][q] = Zero
      BY SMTT(30), <1>2, <1>5, <2>1 DEF Kept
    <3>4. \A t \in Spaces, q \in Pages :
             IsLive(v.space, t) /\ q >= v.space[t].next => v.value[t][q] = Zero
      BY <1>2, <1>4, <1>5, <2>1 DEF Kept
    <3>5. \A t \in Spaces, q \in Pages, r \in Areas : Untouched(v.space, t, q, r) =>
             /\ r.kind = "File" => v.value[t][q] = r.file
             /\ r.kind = "Anon" => v.value[t][q] = Zero
      BY <1>2, <1>7, <1>11, <2>1 DEF Kept
    <3> QED BY <1>3, <2>1, <3>1, <3>2, <3>3, <3>4, <3>5 DEF Kept
  <2> QED BY <2>2, <2>3
<1> QED BY <1>10, <1>12, <1>13, <1>14 DEF Inv

-----------------------------------------------------------------------------
(* find_free_range and register_region: the hint moves to e, with a region *)
(* r between or without one.                                               *)
Extended(w, v, s, sp, n, R, r, e) ==
    /\ sp = w.space[s] /\ e \in Nat /\ sp.next <= e
    /\ r \in Areas /\ r.start = sp.next
    /\ \/ R = sp.regions
       \/ /\ R = sp.regions \cup {r} /\ AreaOK(s, r) /\ r.end = e
          /\ Cardinality(sp.regions) < MaxVmAreas
          /\ ~w.stale => \A p \in Pages : InRegion(r, p) =>
                /\ r.kind = "File" => v.value[s][p] = r.file
                /\ r.kind = "Anon" => v.value[s][p] = Zero
    /\ v.value \in [Spaces -> [Pages -> Contents]]
    /\ \A t \in Spaces, p \in Pages :
          t # s \/ p < sp.next \/ p >= e => v.value[t][p] = w.value[t][p]
    /\ n = [owned |-> sp.owned, tables |-> sp.tables, regions |-> R,
            pte |-> sp.pte, swapped |-> sp.swapped, next |-> e]
    /\ Replaced(w, v, s, n)
    /\ v.free = w.free /\ v.mem = w.mem /\ v.cache = w.cache /\ v.lost = w.lost
    /\ v.swap = w.swap /\ v.surface = w.surface /\ v.creating = w.creating
    /\ v.stale = w.stale

LEMMA ExtendKeeps ==
  ASSUME NEW w, NEW v, Inv(w), NEW s \in Spaces, IsLive(w.space, s),
         NEW sp, NEW n, NEW R, NEW r, NEW e, Extended(w, v, s, sp, n, R, r, e)
  PROVE  Inv(v) /\ v.space[s] = n /\ IsLive(v.space, s) /\ n \in AddressSpaces
<1>1. Typed(w) /\ Hands(w) /\ SwapKept(w) /\ (~w.stale => Backed(w) /\ Kept(w))
  BY DEF Inv
<1>2. /\ sp = w.space[s] /\ e \in Nat /\ sp.next <= e
      /\ r \in Areas /\ r.start = sp.next
      /\ \/ R = sp.regions
         \/ /\ R = sp.regions \cup {r} /\ AreaOK(s, r) /\ r.end = e
            /\ Cardinality(sp.regions) < MaxVmAreas
            /\ ~w.stale => \A p \in Pages : InRegion(r, p) =>
                  /\ r.kind = "File" => v.value[s][p] = r.file
                  /\ r.kind = "Anon" => v.value[s][p] = Zero
  BY DEF Extended
<1>3. /\ v.value \in [Spaces -> [Pages -> Contents]]
      /\ \A t \in Spaces, p \in Pages :
            t # s \/ p < sp.next \/ p >= e => v.value[t][p] = w.value[t][p]
  BY DEF Extended
<1>4. /\ n = [owned |-> n.owned, tables |-> n.tables, regions |-> n.regions,
               pte |-> n.pte, swapped |-> n.swapped, next |-> n.next]
      /\ n.owned = sp.owned /\ n.tables = sp.tables /\ n.regions = R
      /\ n.pte = sp.pte /\ n.swapped = sp.swapped /\ n.next = e
  BY DEF Extended
<1>5. /\ Replaced(w, v, s, n)
      /\ v.free = w.free /\ v.mem = w.mem /\ v.cache = w.cache /\ v.lost = w.lost
      /\ v.swap = w.swap /\ v.surface = w.surface /\ v.creating = w.creating
      /\ v.stale = w.stale
  BY DEF Extended
<1>6. SpaceOK(s, sp) /\ sp \in AddressSpaces
  BY <1>1, <1>2, Here
<1>7. n \in AddressSpaces
  <2>1. R \subseteq Areas
    <3>1. sp.regions \subseteq Areas
      BY <1>6, SpaceFields
    <3>2. R = sp.regions \/ R = sp.regions \cup {r}
      BY <1>2
    <3> QED BY <1>2, <3>1, <3>2
  <2> QED BY <1>2, <1>4, <1>6, <2>1 DEF AddressSpaces
(* Regions lie below the hint, r at it. *)
<1>8. /\ \A a \in sp.regions : AreaOK(s, a) /\ a.end <= sp.next
      /\ \A a \in sp.regions, p \in Pages : InRegion(a, p) => p < sp.next
      /\ \A p \in Pages : InRegion(r, p) => p >= sp.next
      /\ sp.next \in Nat
  <2>1. (\A a \in sp.regions : AreaOK(s, a) /\ a.end <= sp.next) /\ sp.next \in Nat
    BY <1>6 DEF SpaceOK
  <2>2. ASSUME NEW a \in sp.regions, NEW p \in Pages, InRegion(a, p) PROVE p < sp.next
    <3>1. p \in Nat /\ a.end \in Nat /\ p < a.end /\ a.end <= sp.next
      BY <2>1, <2>2, Bounds DEF InRegion, AreaOK, Areas
    <3> QED BY <2>1, <3>1
  <2>3. \A p \in Pages : InRegion(r, p) => p >= sp.next
    BY <1>2, <2>1, Bounds DEF InRegion
  <2> QED BY <2>1, <2>2, <2>3
<1>9. SpaceOK(s, n)
  <2>1. IsFiniteSet(R) /\ Cardinality(R) <= MaxVmAreas
    <3>1. IsFiniteSet(sp.regions) /\ Cardinality(sp.regions) <= MaxVmAreas
      BY <1>6 DEF SpaceOK
    <3>2. Cardinality(sp.regions) \in Nat
      BY <3>1, FS_CardinalityType
    <3>3. /\ IsFiniteSet(sp.regions \cup {r})
          /\ Cardinality(sp.regions \cup {r}) = IF r \in sp.regions THEN Cardinality(sp.regions)
                                                ELSE Cardinality(sp.regions) + 1
      BY <3>1, FS_AddElement
    <3>4. R = sp.regions \/ (R = sp.regions \cup {r} /\ Cardinality(sp.regions) < MaxVmAreas)
      BY <1>2
    <3>5. CASE R = sp.regions
      BY <3>1, <3>5
    <3>6. CASE R = sp.regions \cup {r} /\ Cardinality(sp.regions) < MaxVmAreas
      <4>1. IsFiniteSet(R) /\ Cardinality(R) <= Cardinality(sp.regions) + 1
        BY <3>2, <3>3, <3>6
      <4>2. Cardinality(R) \in Nat
        BY <4>1, FS_CardinalityType
      <4> QED BY <3>2, <3>6, <4>1, <4>2, MemoryAssumption
    <3> QED BY <3>4, <3>5, <3>6
  <2>2. \A a \in R : AreaOK(s, a) /\ a.end <= e
    <3>1. ASSUME NEW a \in sp.regions PROVE AreaOK(s, a) /\ a.end <= e
      <4>1. AreaOK(s, a) /\ a.end <= sp.next /\ a.end \in Nat
        BY <1>8 DEF AreaOK, Areas
      <4> QED BY <1>2, <1>8, <4>1
    <3>2. e <= e
      BY <1>2
    <3> QED BY <1>2, <3>1, <3>2
  <2>3. \A a, b \in R : \A y \in Pages : InRegion(a, y) /\ InRegion(b, y) => a = b
    <3>1. \A a, b \in sp.regions : \A y \in Pages : InRegion(a, y) /\ InRegion(b, y) => a = b
      BY <1>6 DEF SpaceOK
    <3>2. \A a \in sp.regions, y \in Pages : ~(InRegion(a, y) /\ InRegion(r, y))
      BY <1>8, Bounds
    <3> QED BY <1>2, <3>1, <3>2
  <2>4. e \in Nat \ {0}
    <3>1. sp.next \in Nat \ {0}
      BY <1>6 DEF SpaceOK
    <3> QED BY <1>2, <3>1
  <2>5. /\ \A p \in DOMAIN n.pte : TableOf(p) \in n.tables /\ p < n.next
        /\ \A p \in DOMAIN n.swapped : TableOf(p) \in n.tables /\ \E a \in n.regions : InRegion(a, p)
    <3>1. ASSUME NEW p \in DOMAIN sp.pte PROVE TableOf(p) \in n.tables /\ p < n.next
      <4>1. p \in Nat /\ p < sp.next /\ TableOf(p) \in n.tables
        BY <1>4, <1>6, SpaceFields, Bounds DEF SpaceOK
      <4> QED BY <1>2, <1>4, <1>8, <4>1
    <3>2. \A p \in DOMAIN n.swapped :
             TableOf(p) \in n.tables /\ \E a \in n.regions : InRegion(a, p)
      BY <1>2, <1>4, <1>6 DEF SpaceOK
    <3> QED BY <1>4, <3>1, <3>2
  <2>6. Cardinality(n.owned) <= MaxOwned
    BY <1>4, <1>6 DEF SpaceOK
  <2> QED BY <1>4, <1>7, <2>1, <2>2, <2>3, <2>4, <2>5, <2>6 DEF SpaceOK
<1>10. /\ v.space = [t \in Spaces |-> v.space[t]] /\ v.space[s] = n /\ IsLive(v.space, s)
       /\ \A t \in Spaces : t # s => v.space[t] = w.space[t]
  BY <1>1, <1>5, <1>7, Renewed
<1>11. /\ \A t \in Spaces : IsLive(v.space, t) <=> IsLive(w.space, t)
       /\ \A t \in Spaces : IsLive(v.space, t) =>
             /\ v.space[t].pte = w.space[t].pte /\ v.space[t].swapped = w.space[t].swapped
             /\ v.space[t].owned = w.space[t].owned
  BY <1>2, <1>4, <1>10 DEF IsLive
<1>12. /\ \A t \in Spaces : \A f : Owns(v.space, t, f) <=> Owns(w.space, t, f)
       /\ \A t \in Spaces : \A p, f : Maps(v.space, t, p, f) <=> Maps(w.space, t, p, f)
       /\ \A t \in Spaces : \A p, y : Shows(v.space, t, p, y) <=> Shows(w.space, t, p, y)
       /\ \A f : MappersIn(v.space, f) = MappersIn(w.space, f)
       /\ \A f : IsOwned(v.space, f) <=> IsOwned(w.space, f)
  <2>1. \A t \in Spaces : \A p, f : Maps(v.space, t, p, f) <=> Maps(w.space, t, p, f)
    BY <1>11 DEF Maps
  <2> QED BY <1>11, <2>1 DEF Owns, Shows, MappersIn, IsOwned
<1>13. Typed(v)
  <2>1. \A t \in Spaces : IsLive(v.space, t) => SpaceOK(t, v.space[t])
    BY <1>1, <1>9, <1>10, <1>11 DEF Typed
  <2> QED BY ZenonT(30), <1>1, <1>3, <1>5, <1>10, <1>11, <2>1 DEF Typed
<1>14. Hands(v)
  BY <1>1, <1>5, <1>12 DEF Hands
<1>15. SwapKept(v)
  BY <1>1, <1>5, <1>12 DEF SwapKept
(* No page at or behind the hint is mapped or staged. *)
<1>16. /\ \A p \in Pages : \A f : Maps(w.space, s, p, f) => p < sp.next
       /\ \A p \in Pages : \A y : Shows(w.space, s, p, y) => p < sp.next
  BY <1>2, <1>6, <1>8 DEF SpaceOK, Maps, Shows
<1>17. ASSUME ~v.stale PROVE Backed(v) /\ Kept(v)
  <2>1. ~w.stale /\ Backed(w) /\ Kept(w)
    BY <1>1, <1>5, <1>17
  <2>2. Backed(v)
    <3>1. \A t \in Spaces, q \in Pages, f \in Frames : Maps(v.space, t, q, f) =>
             /\ Owns(v.space, t, f) \/ IsCached(v.cache, f) \/ IsOnSurface(v.surface, f)
             /\ v.space[t].pte[q].write <=> ~IsCached(v.cache, f)
      <4>1. \A t \in Spaces, q \in Pages, f \in Frames : Maps(v.space, t, q, f) =>
               v.space[t].pte = w.space[t].pte
        BY <1>11 DEF Maps
      <4> QED BY <1>5, <1>12, <2>1, <4>1 DEF Backed
    <3>2. \A t \in Spaces : IsLive(v.space, t) => RegionsKept(v.space[t])
      <4>1. RegionsKept(sp)
        BY <1>2, <2>1 DEF Backed
      <4>2. ASSUME NEW a \in n.regions, NEW q \in Pages, InRegion(a, q), ~a.write
            PROVE  q \notin DOMAIN n.swapped /\ (q \in DOMAIN n.pte => ~n.pte[q].write)
        <5>1. CASE a \in sp.regions
          BY <1>4, <4>1, <4>2, <5>1 DEF RegionsKept
        <5>2. CASE a = r
          <6>1. q \notin DOMAIN sp.pte /\ q \notin DOMAIN sp.swapped
            BY <1>6, <1>8, <4>2, <5>2, Bounds DEF SpaceOK
          <6> QED BY <1>4, <6>1
        <5> QED BY <1>2, <1>4, <4>2, <5>1, <5>2
      <4>3. RegionsKept(n)
        <5>1. \A q \in DOMAIN n.pte : \E a \in n.regions : InRegion(a, q)
          BY <1>2, <1>4, <4>1 DEF RegionsKept
        <5> QED BY <4>2, <5>1 DEF RegionsKept
      <4> QED BY <1>10, <1>11, <2>1, <4>3 DEF Backed
    <3>3. \A t \in Spaces, q \in Pages, f \in Frames, y \in Slots :
             ~(Maps(v.space, t, q, f) /\ Shows(v.space, t, q, y))
      BY SMTT(30), <1>12, <2>1 DEF Backed
    <3> QED BY SMTT(30), <1>5, <1>12, <2>1, <3>1, <3>2, <3>3 DEF Backed
  <2>3. Kept(v)
    <3>1. \A t \in Spaces, q \in Pages, f \in Frames :
             Maps(v.space, t, q, f) => v.mem[f] = v.value[t][q]
      BY <1>3, <1>5, <1>12, <1>16, <2>1 DEF Kept
    <3>2. \A t \in Spaces, q \in Pages, y \in Slots :
             Shows(v.space, t, q, y) => v.swap[y] = v.value[t][q]
      BY SMTT(30), <1>3, <1>5, <1>12, <1>16, <2>1 DEF Kept
    <3>3. \A t \in Spaces, q \in Pages : ~IsLive(v.space, t) => v.value[t][q] = Zero
      BY SMTT(30), <1>3, <1>10, <1>11, <2>1 DEF Kept
    <3>4. \A t \in Spaces, q \in Pages :
             IsLive(v.space, t) /\ q >= v.space[t].next => v.value[t][q] = Zero
      <4>1. ASSUME NEW q \in Pages, q >= e PROVE v.value[s][q] = Zero
        <5>1. q >= w.space[s].next /\ v.value[s][q] = w.value[s][q]
          BY <1>2, <1>3, <1>8, <4>1, Bounds
        <5> QED BY <2>1, <5>1 DEF Kept
      <4> QED BY <1>3, <1>4, <1>10, <1>11, <2>1, <4>1 DEF Kept
    <3>5. \A t \in Spaces, q \in Pages, a \in Areas : Untouched(v.space, t, q, a) =>
             /\ a.kind = "File" => v.value[t][q] = a.file
             /\ a.kind = "Anon" => v.value[t][q] = Zero
      <4>1. ASSUME NEW t \in Spaces, NEW q \in Pages, NEW a \in Areas, Untouched(v.space, t, q, a)
            PROVE  /\ a.kind = "File" => v.value[t][q] = a.file
                   /\ a.kind = "Anon" => v.value[t][q] = Zero
        <5>1. CASE t # s
          BY <1>3, <1>10, <2>1, <4>1, <5>1 DEF Kept, Untouched, IsLive
        <5>2. CASE t = s /\ a \in sp.regions
          <6>1. Untouched(w.space, s, q, a) /\ q < sp.next
            BY <1>2, <1>4, <1>8, <1>10, <1>11, <4>1, <5>2 DEF Untouched
          <6>2. v.value[s][q] = w.value[s][q]
            BY <1>3, <6>1
          <6> QED BY <2>1, <5>2, <6>1, <6>2 DEF Kept
        <5>3. CASE t = s /\ a \notin sp.regions
          BY <1>2, <1>4, <1>10, <2>1, <4>1, <5>3 DEF Untouched
        <5> QED BY <5>1, <5>2, <5>3
      <4> QED BY <4>1
    <3> QED BY <1>5, <2>1, <3>1, <3>2, <3>3, <3>4, <3>5 DEF Kept
  <2> QED BY <2>2, <2>3
<1> QED BY <1>7, <1>10, <1>13, <1>14, <1>15, <1>17 DEF Inv

-----------------------------------------------------------------------------
(* map_shared_frames: the pages ps of the region r, none of them touched   *)
(* yet, get entries for the frames fr of the surface that s is creating.   *)
SurfaceEntered(w, v, s, sp, n, r, fs, ps, fr) ==
    /\ sp = w.space[s] /\ w.creating[s] # 0 /\ fs = w.surface[w.creating[s]].frames
    /\ r \in sp.regions /\ r.write /\ ps \subseteq Pages
    /\ \A p \in ps : /\ InRegion(r, p) /\ p - r.start + 1 \in DOMAIN fs
                     /\ p \notin DOMAIN sp.pte /\ p \notin DOMAIN sp.swapped
                     /\ ~w.stale => w.value[s][p] = Zero
    /\ fr = [p \in ps |-> fs[p - r.start + 1]]
    /\ n = [owned |-> sp.owned, tables |-> sp.tables \cup {TableOf(p) : p \in ps},
            regions |-> sp.regions,
            pte |-> [p \in DOMAIN sp.pte \cup ps |->
                        IF p \in ps THEN [frame |-> fr[p], write |-> TRUE] ELSE sp.pte[p]],
            swapped |-> sp.swapped, next |-> sp.next]
    /\ Replaced(w, v, s, n) /\ v.creating = [w.creating EXCEPT ![s] = 0]
    /\ v.free = w.free /\ v.mem = w.mem /\ v.cache = w.cache /\ v.lost = w.lost
    /\ v.swap = w.swap /\ v.surface = w.surface /\ v.value = w.value /\ v.stale = w.stale

LEMMA SurfaceEnterKeeps ==
  ASSUME NEW w, NEW v, Inv(w), NEW s \in Spaces, IsLive(w.space, s),
         NEW sp, NEW n, NEW r, NEW fs, NEW ps, NEW fr,
         SurfaceEntered(w, v, s, sp, n, r, fs, ps, fr)
  PROVE  /\ Inv(v) /\ v.space[s] = n /\ IsLive(v.space, s) /\ n \in AddressSpaces
         /\ ~v.stale => \A t \in Spaces, q \in Pages : \A k \in DOMAIN fs :
               Maps(v.space, t, q, fs[k]) => t = s /\ q \in ps
<1>1. Typed(w) /\ Hands(w) /\ SwapKept(w) /\ (~w.stale => Backed(w) /\ Kept(w))
  BY DEF Inv
<1>2. /\ sp = w.space[s] /\ w.creating[s] # 0 /\ fs = w.surface[w.creating[s]].frames
      /\ r \in sp.regions /\ r.write /\ ps \subseteq Pages
      /\ \A p \in ps : /\ InRegion(r, p) /\ p - r.start + 1 \in DOMAIN fs
                       /\ p \notin DOMAIN sp.pte /\ p \notin DOMAIN sp.swapped
                       /\ ~w.stale => w.value[s][p] = Zero
      /\ fr = [p \in ps |-> fs[p - r.start + 1]]
  BY Zenon DEF SurfaceEntered
<1>3. /\ Replaced(w, v, s, n) /\ v.creating = [w.creating EXCEPT ![s] = 0]
      /\ v.free = w.free /\ v.mem = w.mem /\ v.cache = w.cache /\ v.lost = w.lost
      /\ v.swap = w.swap /\ v.surface = w.surface /\ v.value = w.value /\ v.stale = w.stale
  BY Zenon DEF SurfaceEntered
<1>4. /\ n = [owned |-> n.owned, tables |-> n.tables, regions |-> n.regions,
               pte |-> n.pte, swapped |-> n.swapped, next |-> n.next]
      /\ n.owned = sp.owned /\ n.tables = sp.tables \cup {TableOf(p) : p \in ps}
      /\ n.regions = sp.regions /\ n.swapped = sp.swapped /\ n.next = sp.next
      /\ n.pte = [p \in DOMAIN sp.pte \cup ps |->
                    IF p \in ps THEN [frame |-> fr[p], write |-> TRUE] ELSE sp.pte[p]]
  BY Zenon DEF SurfaceEntered
<1>5. /\ n.pte = [q \in DOMAIN n.pte |-> n.pte[q]] /\ DOMAIN n.pte = DOMAIN sp.pte \cup ps
      /\ \A p \in ps : n.pte[p] = [frame |-> fr[p], write |-> TRUE]
      /\ \A q \in DOMAIN sp.pte : n.pte[q] = sp.pte[q]
  BY Zenon, <1>2, <1>4
<1>55. \A p \in ps : n.pte[p].frame = fr[p] /\ n.pte[p].write
  BY <1>4
<1>6. SpaceOK(s, sp) /\ sp \in AddressSpaces
  BY Zenon, <1>1, <1>2, Here
<1>7. PICK i : i = w.creating[s]
  OBVIOUS
<1>8. /\ i \in DOMAIN w.surface /\ fs = w.surface[i].frames
      /\ \A k \in DOMAIN fs : fs[k] \in Frames /\ IsOnSurface(w.surface, fs[k])
      /\ w.surface[i].owner = s
  <2>1. i \in DOMAIN w.surface /\ fs = w.surface[i].frames /\ w.surface[i].owner = s
    BY Zenon, <1>1, <1>2, <1>7 DEF Typed
  <2> QED BY <1>1, <2>1, SurfaceTypes
<1>9. \A p \in ps : /\ fr[p] \in Frames /\ IsOnSurface(w.surface, fr[p])
                    /\ ~IsCached(w.cache, fr[p])
                    /\ \E k \in DOMAIN fs : fr[p] = fs[k]
  <2>1. \A p \in ps : \E k \in DOMAIN fs : fr[p] = fs[k]
    BY Zenon, <1>2
  <2>2. \A p \in ps : fr[p] \in Frames /\ IsOnSurface(w.surface, fr[p])
    BY <1>8, <2>1
  <2> QED BY <1>1, <2>1, <2>2 DEF Hands
<1>10. \A p, q \in ps : fr[p] = fr[q] => p = q
  <2>1. \A j, k \in DOMAIN fs : fs[j] = fs[k] => j = k
    BY <1>1, <1>8 DEF Hands
  <2>2. r.start \in Nat
    BY ZenonT(30), <1>2, <1>6, SpaceFields DEF Areas
  <2>3. ASSUME NEW p \in ps, NEW q \in ps, fr[p] = fr[q] PROVE p = q
    <3>1. p - r.start + 1 = q - r.start + 1
      BY Zenon, <1>2, <2>1, <2>3
    <3>2. p \in Nat /\ q \in Nat
      BY <1>2, Bounds
    <3> QED BY <2>2, <3>1, <3>2
  <2> QED BY <2>3
<1>11. n \in AddressSpaces
  <2>1. n.pte \in Tables
    <3>1. ASSUME NEW p \in ps PROVE n.pte[p] \in [frame : Frames, write : BOOLEAN]
      <4>1. PICK g : g = fr[p]
        OBVIOUS
      <4>2. g \in Frames /\ n.pte[p] = [frame |-> g, write |-> TRUE]
        BY <1>5, <1>9, <4>1
      <4> QED BY <4>2
    <3>3. /\ DOMAIN sp.pte \subseteq Pages
          /\ \A q \in DOMAIN sp.pte : sp.pte[q] \in [frame : Frames, write : BOOLEAN]
      BY <1>6, SpaceFields
    <3>2. DOMAIN n.pte \subseteq Pages
          /\ \A q \in DOMAIN n.pte : n.pte[q] \in [frame : Frames, write : BOOLEAN]
      BY ZenonT(30), <1>2, <1>5, <3>1, <3>3
    <3> QED BY <1>5, <3>2, EntryTypes
  <2>2. sp.owned \subseteq Frames /\ n.tables \subseteq Nat
        /\ sp.regions \subseteq Areas /\ sp.next \in Nat
    <3>1. \A p \in ps : TableOf(p) \in Nat
      BY <1>2, TableOfPage
    <3>2. sp.owned \subseteq Frames /\ sp.tables \subseteq Nat
          /\ sp.regions \subseteq Areas /\ sp.next \in Nat
      BY <1>6, SpaceFields
    <3>3. {TableOf(p) : p \in ps} \subseteq Nat
      BY <3>1
    <3> QED BY SMTT(30), <1>4, <3>2, <3>3
  <2>3. n.swapped \in Staged
    BY <1>4, <1>6 DEF AddressSpaces
  <2> QED BY <1>4, <2>1, <2>2, <2>3 DEF AddressSpaces
<1>12. SpaceOK(s, n)
  <2>1. \A q \in DOMAIN n.pte : TableOf(q) \in n.tables /\ q < n.next
    <3>1. ASSUME NEW p \in ps PROVE TableOf(p) \in n.tables /\ p < n.next
      <4>1. p \in Pages /\ r \in sp.regions /\ InRegion(r, p)
        BY Zenon, <1>2
      <4>2. p < sp.next
        BY <1>6, <4>1, BelowHint
      <4> QED BY <1>4, <4>2
    <3>2. \A q \in DOMAIN sp.pte : TableOf(q) \in n.tables /\ q < n.next
      BY <1>4, <1>6 DEF SpaceOK
    <3> QED BY <1>5, <3>1, <3>2
  <2>2. \A q \in DOMAIN n.swapped : TableOf(q) \in n.tables /\ \E a \in n.regions : InRegion(a, q)
    BY <1>4, <1>6 DEF SpaceOK
  <2>3. /\ n.next \in Nat \ {0} /\ IsFiniteSet(n.regions) /\ Cardinality(n.regions) <= MaxVmAreas
        /\ \A a \in n.regions : AreaOK(s, a) /\ a.end <= n.next
        /\ \A a, b \in n.regions : \A y \in Pages : InRegion(a, y) /\ InRegion(b, y) => a = b
        /\ Cardinality(n.owned) <= MaxOwned
    BY <1>4, <1>6 DEF SpaceOK
  <2> QED BY <1>11, <2>1, <2>2, <2>3 DEF SpaceOK
<1>13. /\ v.space = [t \in Spaces |-> v.space[t]] /\ v.space[s] = n /\ IsLive(v.space, s)
       /\ \A t \in Spaces : t # s => v.space[t] = w.space[t]
  BY <1>1, <1>3, <1>11, Renewed
<1>14. /\ v.creating = [t \in Spaces |-> v.creating[t]]
       /\ \A t \in Spaces : v.creating[t] # 0 => t # s /\ v.creating[t] = w.creating[t]
  <2>1. w.creating = [t \in Spaces |-> w.creating[t]]
    BY <1>1 DEF Typed
  <2> QED BY <1>3, <2>1
<1>15. /\ \A t \in Spaces : IsLive(v.space, t) <=> IsLive(w.space, t)
       /\ \A t \in Spaces : IsLive(v.space, t) => v.space[t].next = w.space[t].next
       /\ \A t \in Spaces : \A h : Owns(v.space, t, h) <=> Owns(w.space, t, h)
       /\ \A t \in Spaces : \A q, h : Maps(v.space, t, q, h) <=>
             Maps(w.space, t, q, h) \/ (t = s /\ q \in ps /\ h = fr[q])
       /\ \A t \in Spaces : \A q, y : Shows(v.space, t, q, y) <=> Shows(w.space, t, q, y)
       /\ \A t \in Spaces : \A q, a : Untouched(v.space, t, q, a) => Untouched(w.space, t, q, a)
  <2>1. /\ \A t \in Spaces : IsLive(v.space, t) <=> IsLive(w.space, t)
        /\ \A t \in Spaces : IsLive(v.space, t) => v.space[t].next = w.space[t].next
        /\ \A t \in Spaces : \A h : Owns(v.space, t, h) <=> Owns(w.space, t, h)
    BY ZenonT(30), <1>2, <1>4, <1>13 DEF IsLive, Owns
  <2>2. \A t \in Spaces : t # s =>
            /\ \A q, h : Maps(v.space, t, q, h) <=> Maps(w.space, t, q, h)
            /\ \A q, y : Shows(v.space, t, q, y) <=> Shows(w.space, t, q, y)
            /\ \A q, a : Untouched(v.space, t, q, a) <=> Untouched(w.space, t, q, a)
    BY <1>13 DEF IsLive, Maps, Shows, Untouched
  <2>3. \A q, h : Maps(v.space, s, q, h) <=> Maps(w.space, s, q, h) \/ (q \in ps /\ h = fr[q])
    <3>1. \A q, h : Maps(v.space, s, q, h) <=> q \in DOMAIN n.pte /\ n.pte[q].frame = h
      BY <1>13 DEF Maps
    <3>2. \A q, h : Maps(w.space, s, q, h) <=> q \in DOMAIN sp.pte /\ sp.pte[q].frame = h
      BY Zenon, <1>2 DEF Maps
    <3>3. \A q \in ps : q \notin DOMAIN sp.pte
      BY <1>2
    <3>4. \A q \in DOMAIN sp.pte : n.pte[q].frame = sp.pte[q].frame
      BY <1>5
    <3>5. \A q : q \in DOMAIN n.pte <=> q \in DOMAIN sp.pte \/ q \in ps
      BY <1>5
    <3>6. \A q \in ps : n.pte[q].frame = fr[q]
      BY <1>55
    <3>7. ASSUME NEW q, NEW h
          PROVE  Maps(v.space, s, q, h) <=> Maps(w.space, s, q, h) \/ (q \in ps /\ h = fr[q])
      <4>1. CASE q \in ps
        BY <3>1, <3>2, <3>3, <3>5, <3>6, <4>1
      <4>2. CASE q \notin ps
        BY <3>1, <3>2, <3>4, <3>5, <4>2
      <4> QED BY <4>1, <4>2
    <3> QED BY <3>7
  <2>4. \A q, y : Shows(v.space, s, q, y) <=> Shows(w.space, s, q, y)
    BY Zenon, <1>2, <1>4, <1>13 DEF Shows, IsLive
  <2>5. \A q, a : Untouched(v.space, s, q, a) => Untouched(w.space, s, q, a)
    BY Zenon, <1>2, <1>4, <1>5, <1>13 DEF Untouched, IsLive
  <2> QED BY <2>1, <2>2, <2>3, <2>4, <2>5
<1>16. Typed(v)
  <2>1. \A t \in Spaces : IsLive(v.space, t) => SpaceOK(t, v.space[t])
    BY <1>1, <1>12, <1>13, <1>15 DEF Typed
  <2>2. \A t \in Spaces : v.creating[t] # 0 =>
           /\ IsLive(v.space, t)
           /\ v.creating[t] \in DOMAIN v.surface
           /\ v.surface[v.creating[t]].owner = t
    BY ZenonT(30), <1>1, <1>3, <1>14, <1>15 DEF Typed
  <2> QED BY <1>1, <1>3, <1>13, <1>14, <2>1, <2>2 DEF Typed
<1>17. Hands(v)
  <2>1. \A h : IsOwned(v.space, h) <=> IsOwned(w.space, h)
    BY <1>15 DEF IsOwned
  <2> QED BY <1>1, <1>3, <1>15, <2>1 DEF Hands
<1>18. SwapKept(v)
  BY <1>1, <1>3, <1>15 DEF SwapKept
<1>19. ASSUME ~v.stale
       PROVE  \A t \in Spaces, q \in Pages : \A k \in DOMAIN fs : ~Maps(w.space, t, q, fs[k])
  <2>1. Backed(w)
    BY <1>1, <1>3, <1>19
  <2> QED BY Zenon, <1>2, <2>1 DEF Backed
<1>20. ASSUME ~v.stale PROVE Backed(v) /\ Kept(v)
  <2>1. ~w.stale /\ Backed(w) /\ Kept(w)
    BY <1>1, <1>3, <1>20
  <2>2. \A p \in ps, t \in Spaces, q \in Pages : ~Maps(w.space, t, q, fr[p])
    BY <1>9, <1>19, <1>20
  <2>3. Backed(v)
    <3>1. \A t \in Spaces : \A q, g : Maps(w.space, t, q, g) => v.space[t].pte[q] = w.space[t].pte[q]
      <4>1. \A q, g : Maps(w.space, s, q, g) => v.space[s].pte[q] = w.space[s].pte[q]
        BY Zenon, <1>2, <1>5, <1>13 DEF Maps
      <4> QED BY <1>13, <4>1
    <3>2. \A t \in Spaces, q \in Pages, g \in Frames : Maps(v.space, t, q, g) =>
             /\ Owns(v.space, t, g) \/ IsCached(v.cache, g) \/ IsOnSurface(v.surface, g)
             /\ v.space[t].pte[q].write <=> ~IsCached(v.cache, g)
      <4>1. \A q \in ps : v.space[s].pte[q].write
        BY <1>55, <1>13
      <4> QED BY <1>3, <1>9, <1>15, <2>1, <3>1, <4>1 DEF Backed
    <3>3. \A t \in Spaces : IsLive(v.space, t) => RegionsKept(v.space[t])
      <4>1. RegionsKept(sp)
        BY Zenon, <1>2, <2>1 DEF Backed
      <4>2. ASSUME NEW a \in n.regions, NEW q \in Pages, InRegion(a, q), ~a.write
            PROVE  q \notin DOMAIN n.swapped /\ (q \in DOMAIN n.pte => ~n.pte[q].write)
        <5>1. q \notin DOMAIN sp.swapped /\ (q \in DOMAIN sp.pte => ~sp.pte[q].write)
          BY <1>4, <4>1, <4>2 DEF RegionsKept
        <5>2. q \notin ps
          BY Zenon, <1>2, <1>4, <1>6, <4>2 DEF SpaceOK
        <5> QED BY <1>4, <1>5, <5>1, <5>2
      <4>3. RegionsKept(n)
        <5>1. \A q \in DOMAIN sp.pte : \E a \in n.regions : InRegion(a, q)
          BY <1>4, <4>1 DEF RegionsKept
        <5>2. \A q \in ps : \E a \in n.regions : InRegion(a, q)
          BY Zenon, <1>2, <1>4
        <5>3. \A q \in DOMAIN n.pte : \E a \in n.regions : InRegion(a, q)
          BY <1>5, <5>1, <5>2
        <5> QED BY <4>2, <5>3 DEF RegionsKept
      <4> QED BY <1>13, <1>15, <2>1, <4>3 DEF Backed
    <3>4. \A y \in DOMAIN v.cache :
             v.cache[y].refs = Cardinality(MappersIn(v.space, v.cache[y].frame))
      <4>1. \A g : IsCached(w.cache, g) => MappersIn(v.space, g) = MappersIn(w.space, g)
        BY <1>9, <1>15 DEF MappersIn
      <4>2. \A y \in DOMAIN w.cache : IsCached(w.cache, w.cache[y].frame)
        BY DEF IsCached
      <4> QED BY <1>3, <2>1, <4>1, <4>2 DEF Backed
    <3>5. \A t, u \in Spaces, q, y \in Pages, g \in Frames :
             Maps(v.space, t, q, g) /\ Maps(v.space, u, y, g) /\ ~IsCached(v.cache, g) =>
                t = u /\ q = y
      BY <1>3, <1>10, <1>15, <2>1, <2>2 DEF Backed
    <3>6. \A t, u \in Spaces, q \in Pages : v.creating[t] # 0 =>
             \A k \in DOMAIN v.surface[v.creating[t]].frames :
                ~Maps(v.space, u, q, v.surface[v.creating[t]].frames[k])
      <4>1. ASSUME NEW t \in Spaces, NEW u \in Spaces, NEW q \in Pages, v.creating[t] # 0,
                   NEW k \in DOMAIN w.surface[w.creating[t]].frames,
                   Maps(v.space, u, q, w.surface[w.creating[t]].frames[k])
            PROVE  FALSE
        <5>1. /\ w.creating[t] # 0 /\ w.creating[t] \in DOMAIN w.surface
              /\ w.surface[w.creating[t]].owner = t /\ t # s
          BY <1>1, <1>14, <4>1 DEF Typed
        <5>2. w.creating[t] # i
          BY <1>8, <5>1
        <5>3. ~Maps(w.space, u, q, w.surface[w.creating[t]].frames[k])
          BY Zenon, <2>1, <4>1, <5>1 DEF Backed
        <5>4. PICK j \in DOMAIN fs : w.surface[w.creating[t]].frames[k] = fs[j]
          BY <1>9, <1>15, <4>1, <5>3
        <5> QED BY <1>1, <1>8, <4>1, <5>1, <5>2, <5>4 DEF Hands
      <4> QED BY <1>3, <1>14, <4>1
    <3>7. \A t \in Spaces, q \in Pages, g \in Frames, y \in Slots :
             ~(Maps(v.space, t, q, g) /\ Shows(v.space, t, q, y))
      <4>1. \A q \in ps : \A y : ~Shows(w.space, s, q, y)
        BY ZenonT(30), <1>2 DEF Shows
      <4> QED BY <1>15, <2>1, <4>1 DEF Backed
    <3> QED BY <3>2, <3>3, <3>4, <3>5, <3>6, <3>7 DEF Backed
  <2>4. Kept(v)
    <3>1. \A t \in Spaces, q \in Pages, g \in Frames :
             Maps(v.space, t, q, g) => v.mem[g] = v.value[t][q]
      <4>1. \A q \in ps : w.mem[fr[q]] = Zero /\ w.value[s][q] = Zero
        <5>1. \A k \in DOMAIN fs : w.mem[fs[k]] = Zero
          BY Zenon, <1>2, <2>1 DEF Kept
        <5> QED BY ZenonT(30), <1>2, <1>9, <2>1, <5>1
      <4>2. \A t \in Spaces, q \in Pages, g \in Frames :
               Maps(w.space, t, q, g) => w.mem[g] = w.value[t][q]
        BY <2>1 DEF Kept
      <4> QED BY <1>3, <1>15, <4>1, <4>2
    <3>2. \A t \in Spaces : v.creating[t] # 0 =>
             \A k \in DOMAIN v.surface[v.creating[t]].frames :
                v.mem[v.surface[v.creating[t]].frames[k]] = Zero
      BY SMTT(30), <1>3, <1>14, <2>1 DEF Kept
    <3>3. \A t \in Spaces, q \in Pages, a \in Areas : Untouched(v.space, t, q, a) =>
             /\ a.kind = "File" => v.value[t][q] = a.file
             /\ a.kind = "Anon" => v.value[t][q] = Zero
      BY <1>3, <1>15, <2>1 DEF Kept
    <3> QED BY <1>3, <1>15, <2>1, <3>1, <3>2, <3>3 DEF Kept
  <2> QED BY <2>3, <2>4
<1>21. ASSUME ~v.stale
       PROVE  \A t \in Spaces, q \in Pages : \A k \in DOMAIN fs :
                 Maps(v.space, t, q, fs[k]) => t = s /\ q \in ps
  BY <1>15, <1>19, <1>21
<1> QED BY <1>11, <1>13, <1>16, <1>17, <1>18, <1>20, <1>21 DEF Inv

-----------------------------------------------------------------------------
(* free_surface: the frames fr of the surface i are the allocator's again. *)
SurfaceFreed(w, v, s, i, fr) ==
    /\ i \in DOMAIN w.surface
    /\ fr = {w.surface[i].frames[k] : k \in DOMAIN w.surface[i].frames}
    /\ v.surface = Without(w.surface, i) /\ v.free = w.free \cup fr
    /\ v.creating \in {w.creating, [w.creating EXCEPT ![s] = 0]}
    /\ \A t \in Spaces : v.creating[t] # i
    /\ v.stale \in BOOLEAN
    /\ ~v.stale => /\ ~w.stale
                   /\ \A t \in Spaces, q \in Pages, f \in fr : ~Maps(w.space, t, q, f)
    /\ v.mem = w.mem /\ v.cache = w.cache /\ v.lost = w.lost
    /\ v.swap = w.swap /\ v.space = w.space /\ v.value = w.value

LEMMA SurfaceFreeKeeps ==
  ASSUME NEW w, NEW v, Inv(w), NEW s \in Spaces, NEW i, NEW fr, SurfaceFreed(w, v, s, i, fr)
  PROVE  Inv(v)
<1>1. Typed(w) /\ Hands(w) /\ SwapKept(w) /\ (~w.stale => Backed(w) /\ Kept(w))
  BY DEF Inv
<1>2. /\ i \in DOMAIN w.surface
      /\ fr = {w.surface[i].frames[k] : k \in DOMAIN w.surface[i].frames}
      /\ v.creating \in {w.creating, [w.creating EXCEPT ![s] = 0]}
      /\ \A t \in Spaces : v.creating[t] # i
      /\ v.stale \in BOOLEAN
      /\ ~v.stale => /\ ~w.stale
                     /\ \A t \in Spaces, q \in Pages, f \in fr : ~Maps(w.space, t, q, f)
  BY DEF SurfaceFreed
<1>3. /\ v.surface = Without(w.surface, i) /\ v.free = w.free \cup fr
      /\ v.mem = w.mem /\ v.cache = w.cache /\ v.lost = w.lost
      /\ v.swap = w.swap /\ v.space = w.space /\ v.value = w.value
  BY DEF SurfaceFreed
<1>4. DOMAIN v.surface = DOMAIN w.surface \ {i}
      /\ \A j \in DOMAIN v.surface : v.surface[j] = w.surface[j]
  BY <1>3 DEF Without
<1>5. /\ v.creating = [t \in Spaces |-> v.creating[t]]
      /\ \A t \in Spaces : v.creating[t] # 0 => /\ v.creating[t] = w.creating[t]
                                                /\ v.creating[t] \in DOMAIN w.surface
                                                /\ v.creating[t] \in DOMAIN v.surface
  <2>1. w.creating = [t \in Spaces |-> w.creating[t]]
    BY <1>1 DEF Typed
  <2>2. \A t \in Spaces : v.creating[t] # 0 => v.creating[t] = w.creating[t]
    BY <1>2, <2>1
  <2>3. \A t \in Spaces : w.creating[t] # 0 => w.creating[t] \in DOMAIN w.surface
    BY <1>1 DEF Typed
  <2> QED BY <1>2, <1>4, <2>1, <2>2, <2>3
<1>6. \A f \in fr : /\ f \in Frames /\ IsOnSurface(w.surface, f)
                    /\ f \notin w.free /\ f \notin w.lost /\ ~IsCached(w.cache, f)
                    /\ ~IsOwned(w.space, f)
  <2>1. \A f \in fr : f \in Frames /\ IsOnSurface(w.surface, f)
    BY <1>1, <1>2, SurfaceTypes
  <2> QED BY <1>1, <2>1 DEF Hands
<1>7. \A f : IsOnSurface(v.surface, f) <=> IsOnSurface(w.surface, f) /\ f \notin fr
  <2>1. ASSUME NEW f, IsOnSurface(v.surface, f) PROVE IsOnSurface(w.surface, f) /\ f \notin fr
    <3>1. PICK j \in DOMAIN v.surface : \E k \in DOMAIN v.surface[j].frames :
             v.surface[j].frames[k] = f
      BY <2>1 DEF IsOnSurface
    <3>2. j \in DOMAIN w.surface /\ j # i /\ \E k \in DOMAIN w.surface[j].frames :
             w.surface[j].frames[k] = f
      BY <1>4, <3>1
    <3> QED BY <1>1, <1>2, <3>2 DEF Hands, IsOnSurface
  <2>2. ASSUME NEW f, IsOnSurface(w.surface, f), f \notin fr PROVE IsOnSurface(v.surface, f)
    BY <1>2, <1>4, <2>2 DEF IsOnSurface
  <2> QED BY <2>1, <2>2
<1>8. Typed(v)
  <2>1. v.free \subseteq Frames
    BY <1>1, <1>3, <1>6 DEF Typed
  <2>2. /\ DOMAIN v.surface \subseteq Surfaces
        /\ \A j \in DOMAIN v.surface : SurfaceOK(v.surface[j])
    BY <1>1, <1>4 DEF Typed
  <2>3. \A t \in Spaces : v.creating[t] # 0 =>
           /\ IsLive(v.space, t)
           /\ v.creating[t] \in DOMAIN v.surface
           /\ v.surface[v.creating[t]].owner = t
    <3>1. \A t \in Spaces : w.creating[t] # 0 =>
             IsLive(w.space, t) /\ w.surface[w.creating[t]].owner = t
      BY <1>1 DEF Typed
    <3>2. ASSUME NEW t \in Spaces, v.creating[t] # 0
          PROVE  /\ IsLive(v.space, t)
                 /\ v.creating[t] \in DOMAIN v.surface
                 /\ v.surface[v.creating[t]].owner = t
      <4>1. v.creating[t] = w.creating[t] /\ v.creating[t] \in DOMAIN v.surface
        BY <1>5, <3>2
      <4>2. v.surface[v.creating[t]] = w.surface[w.creating[t]]
        BY <1>4, <4>1
      <4> QED BY <1>3, <3>1, <3>2, <4>1, <4>2
    <3> QED BY <3>2
  <2> QED BY <1>1, <1>2, <1>3, <1>5, <2>1, <2>2, <2>3 DEF Typed
<1>9. Hands(v)
  <2>1. \A j, k \in DOMAIN v.surface :
           \A a \in DOMAIN v.surface[j].frames, b \in DOMAIN v.surface[k].frames :
              v.surface[j].frames[a] = v.surface[k].frames[b] => j = k /\ a = b
    BY <1>1, <1>4 DEF Hands
  <2> QED BY <1>1, <1>3, <1>6, <1>7, <2>1 DEF Hands
<1>10. SwapKept(v)
  BY <1>1, <1>2, <1>3 DEF SwapKept
<1>11. ASSUME ~v.stale PROVE Backed(v) /\ Kept(v)
  <2>1. ~w.stale /\ Backed(w) /\ Kept(w)
        /\ \A t \in Spaces, q \in Pages, f \in fr : ~Maps(w.space, t, q, f)
    BY <1>1, <1>2, <1>11
  <2>2. Backed(v)
    <3>1. \A t \in Spaces, q \in Pages, f \in Frames : Maps(v.space, t, q, f) =>
             /\ Owns(v.space, t, f) \/ IsCached(v.cache, f) \/ IsOnSurface(v.surface, f)
             /\ v.space[t].pte[q].write <=> ~IsCached(v.cache, f)
      BY <1>3, <1>7, <2>1 DEF Backed
    <3>2. \A t, u \in Spaces, q \in Pages : v.creating[t] # 0 =>
             \A k \in DOMAIN v.surface[v.creating[t]].frames :
                ~Maps(v.space, u, q, v.surface[v.creating[t]].frames[k])
      BY <1>3, <1>4, <1>5, <2>1 DEF Backed
    <3> QED BY ZenonT(30), <1>3, <2>1, <3>1, <3>2 DEF Backed
  <2>3. Kept(v)
    <3>1. \A t \in Spaces : v.creating[t] # 0 =>
             \A k \in DOMAIN v.surface[v.creating[t]].frames :
                v.mem[v.surface[v.creating[t]].frames[k]] = Zero
      BY <1>3, <1>4, <1>5, <2>1 DEF Kept
    <3> QED BY SMTT(30), <1>3, <2>1, <3>1 DEF Kept
  <2> QED BY <2>2, <2>3
<1> QED BY <1>8, <1>9, <1>10, <1>11 DEF Inv

-----------------------------------------------------------------------------
(* alloc_surface, with the frames fs, which the allocator had.             *)
SurfaceTaken(w, v, s, i, fs, m, taken) ==
    /\ i \in Surfaces \ DOMAIN w.surface /\ m \in 1 .. MaxRegion
    /\ fs \in [1 .. m -> w.free] /\ \A j, k \in 1 .. m : fs[j] = fs[k] => j = k
    /\ taken = {fs[k] : k \in 1 .. m} /\ w.creating[s] = 0
    /\ v.surface = With(w.surface, i, [owner |-> s, frames |-> fs])
    /\ v.free = w.free \ taken /\ v.creating = [w.creating EXCEPT ![s] = i]
    /\ v.mem = [f \in Frames |-> IF f \in taken THEN Zero ELSE w.mem[f]]
    /\ v.cache = w.cache /\ v.lost = w.lost /\ v.swap = w.swap
    /\ v.space = w.space /\ v.value = w.value /\ v.stale = w.stale

LEMMA SurfaceTakeKeeps ==
  ASSUME NEW w, NEW v, Inv(w), NEW s \in Spaces, IsLive(w.space, s),
         NEW i, NEW fs, NEW m, NEW taken, SurfaceTaken(w, v, s, i, fs, m, taken)
  PROVE  Inv(v)
<1>1. Typed(w) /\ Hands(w) /\ SwapKept(w) /\ (~w.stale => Backed(w) /\ Kept(w))
  BY DEF Inv
<1>2. /\ i \in Surfaces \ DOMAIN w.surface /\ m \in 1 .. MaxRegion
      /\ fs \in [1 .. m -> w.free] /\ \A j, k \in 1 .. m : fs[j] = fs[k] => j = k
      /\ taken = {fs[k] : k \in 1 .. m} /\ w.creating[s] = 0
  BY DEF SurfaceTaken
<1>3. /\ v.surface = With(w.surface, i, [owner |-> s, frames |-> fs])
      /\ v.free = w.free \ taken /\ v.creating = [w.creating EXCEPT ![s] = i]
      /\ v.mem = [f \in Frames |-> IF f \in taken THEN Zero ELSE w.mem[f]]
      /\ v.cache = w.cache /\ v.lost = w.lost /\ v.swap = w.swap
      /\ v.space = w.space /\ v.value = w.value /\ v.stale = w.stale
  BY DEF SurfaceTaken
<1>4. /\ DOMAIN v.surface = DOMAIN w.surface \cup {i}
      /\ v.surface[i] = [owner |-> s, frames |-> fs]
      /\ \A j \in DOMAIN w.surface : v.surface[j] = w.surface[j]
  BY <1>2, <1>3 DEF With
<1>5. DOMAIN fs = 1 .. m /\ \A k \in 1 .. m : fs[k] \in w.free
  BY <1>2
<1>6. \A f \in taken : /\ f \in w.free /\ f \in Frames
                       /\ ~IsCached(w.cache, f) /\ ~IsOnSurface(w.surface, f) /\ f \notin w.lost
                       /\ ~IsOwned(w.space, f)
                       /\ ~w.stale => \A t \in Spaces : \A p : ~Maps(w.space, t, p, f)
  <2>1. \A f \in taken : f \in w.free
    BY <1>2, <1>5
  <2> QED BY <1>1, <2>1, FreeUnused DEF IsOwned
<1>7. \A f : IsOnSurface(v.surface, f) <=> IsOnSurface(w.surface, f) \/ f \in taken
  <2>1. ASSUME NEW f, IsOnSurface(v.surface, f) PROVE IsOnSurface(w.surface, f) \/ f \in taken
    <3>1. PICK j \in DOMAIN v.surface : \E k \in DOMAIN v.surface[j].frames :
             v.surface[j].frames[k] = f
      BY <2>1 DEF IsOnSurface
    <3> QED BY <1>2, <1>4, <1>5, <3>1 DEF IsOnSurface
  <2>2. ASSUME NEW f, IsOnSurface(w.surface, f) PROVE IsOnSurface(v.surface, f)
    BY <1>4, <2>2 DEF IsOnSurface
  <2>3. ASSUME NEW f \in taken PROVE IsOnSurface(v.surface, f)
    BY <1>2, <1>4, <1>5, <2>3 DEF IsOnSurface
  <2> QED BY <2>1, <2>2, <2>3
<1>8. /\ v.creating = [t \in Spaces |-> v.creating[t]] /\ v.creating[s] = i
      /\ \A t \in Spaces : t # s => v.creating[t] = w.creating[t]
      /\ \A t \in Spaces : w.creating[t] # 0 => w.creating[t] \in DOMAIN w.surface
  BY <1>1, <1>3 DEF Typed
<1>9. Typed(v)
  <2>1. v.free \subseteq Frames /\ v.mem \in [Frames -> Contents]
    BY <1>1, <1>3 DEF Typed, Contents
  <2>2. \A j \in DOMAIN v.surface : SurfaceOK(v.surface[j])
    <3>1. fs \in [1 .. m -> Frames]
      BY <1>1, <1>2 DEF Typed
    <3>2. SurfaceOK(v.surface[i])
      BY <1>2, <1>4, <3>1 DEF SurfaceOK
    <3> QED BY <1>1, <1>4, <3>2 DEF Typed
  <2>3. \A t \in Spaces : v.creating[t] # 0 =>
           /\ IsLive(v.space, t)
           /\ v.creating[t] \in DOMAIN v.surface
           /\ v.surface[v.creating[t]].owner = t
    <3>1. \A t \in Spaces : w.creating[t] # 0 =>
             IsLive(w.space, t) /\ w.surface[w.creating[t]].owner = t
      BY <1>1 DEF Typed
    <3>2. v.surface[i].owner = s
      BY <1>4
    <3> QED BY <1>3, <1>4, <1>8, <3>1, <3>2
  <2> QED BY <1>1, <1>2, <1>3, <1>4, <1>8, <2>1, <2>2, <2>3 DEF Typed
<1>10. Hands(v)
  <2>1. \A j, k \in DOMAIN v.surface :
           \A a \in DOMAIN v.surface[j].frames, b \in DOMAIN v.surface[k].frames :
              v.surface[j].frames[a] = v.surface[k].frames[b] => j = k /\ a = b
    <3>1. \A j, k \in DOMAIN w.surface :
             \A a \in DOMAIN w.surface[j].frames, b \in DOMAIN w.surface[k].frames :
                w.surface[j].frames[a] = w.surface[k].frames[b] => j = k /\ a = b
      BY <1>1 DEF Hands
    <3>2. \A j \in DOMAIN w.surface, b \in 1 .. m :
             \A a \in DOMAIN w.surface[j].frames : w.surface[j].frames[a] # fs[b]
      BY <1>2, <1>6 DEF IsOnSurface
    <3> QED BY <1>2, <1>4, <1>5, <3>1, <3>2
  <2> QED BY <1>1, <1>3, <1>6, <1>7, <2>1 DEF Hands
<1>11. SwapKept(v)
  BY <1>1, <1>3 DEF SwapKept
<1>12. ASSUME ~v.stale PROVE Backed(v) /\ Kept(v)
  <2>1. ~w.stale /\ Backed(w) /\ Kept(w)
    BY <1>1, <1>3, <1>12
  <2>2. Backed(v)
    <3>1. \A t \in Spaces, q \in Pages, f \in Frames : Maps(v.space, t, q, f) =>
             /\ Owns(v.space, t, f) \/ IsCached(v.cache, f) \/ IsOnSurface(v.surface, f)
             /\ v.space[t].pte[q].write <=> ~IsCached(v.cache, f)
      BY <1>3, <1>7, <2>1 DEF Backed
    <3>2. \A t, u \in Spaces, q \in Pages : v.creating[t] # 0 =>
             \A k \in DOMAIN v.surface[v.creating[t]].frames :
                ~Maps(v.space, u, q, v.surface[v.creating[t]].frames[k])
      <4>1. \A u \in Spaces, q \in Pages : \A k \in DOMAIN v.surface[i].frames :
               ~Maps(w.space, u, q, v.surface[i].frames[k])
        BY <1>2, <1>4, <1>5, <1>6, <2>1
      <4>2. \A t, u \in Spaces, q \in Pages : w.creating[t] # 0 =>
               \A k \in DOMAIN w.surface[w.creating[t]].frames :
                  ~Maps(w.space, u, q, w.surface[w.creating[t]].frames[k])
        BY <2>1 DEF Backed
      <4> QED BY <1>3, <1>4, <1>8, <4>1, <4>2
    <3> QED BY SMTT(30), <1>3, <2>1, <3>1, <3>2 DEF Backed
  <2>3. \A f \in Frames : f \notin taken => v.mem[f] = w.mem[f]
    BY <1>3
  <2>4. Kept(v)
    <3>1. \A y \in DOMAIN v.cache : v.mem[v.cache[y].frame] = y
      BY SMTT(30), <1>1, <1>3, <1>6, <2>1, <2>3, CacheTypes DEF Kept
    <3>2. \A t \in Spaces, q \in Pages, f \in Frames :
             Maps(v.space, t, q, f) => v.mem[f] = v.value[t][q]
      BY SMTT(30), <1>3, <1>6, <2>1, <2>3 DEF Kept
    <3>3. \A t \in Spaces : v.creating[t] # 0 =>
             \A k \in DOMAIN v.surface[v.creating[t]].frames :
                v.mem[v.surface[v.creating[t]].frames[k]] = Zero
      <4>1. \A k \in DOMAIN v.surface[i].frames : v.mem[v.surface[i].frames[k]] = Zero
        BY SMTT(30), <1>2, <1>3, <1>4, <1>5, <1>6
      <4>2. \A t \in Spaces : w.creating[t] # 0 =>
               \A k \in DOMAIN w.surface[w.creating[t]].frames :
                  v.mem[w.surface[w.creating[t]].frames[k]] = Zero
        BY SMTT(30), <1>1, <1>6, <2>1, <2>3, CreatingTypes DEF Kept
      <4> QED BY <1>4, <1>8, <4>1, <4>2
    <3>4. /\ \A t \in Spaces, q \in Pages, y \in Slots :
                Shows(v.space, t, q, y) => v.swap[y] = v.value[t][q]
          /\ \A t \in Spaces, q \in Pages : ~IsLive(v.space, t) => v.value[t][q] = Zero
          /\ \A t \in Spaces, q \in Pages :
                IsLive(v.space, t) /\ q >= v.space[t].next => v.value[t][q] = Zero
          /\ \A t \in Spaces, q \in Pages, r \in Areas : Untouched(v.space, t, q, r) =>
                /\ r.kind = "File" => v.value[t][q] = r.file
                /\ r.kind = "Anon" => v.value[t][q] = Zero
      BY <1>3, <2>1 DEF Kept
    <3> QED BY ZenonT(30), <3>1, <3>2, <3>3, <3>4 DEF Kept
  <2> QED BY <2>2, <2>4
<1> QED BY <1>9, <1>10, <1>11, <1>12 DEF Inv

-----------------------------------------------------------------------------
(* A write of user code to a page it maps writable. *)
Stored(w, v, s, p, f) ==
    /\ ~w.stale /\ p \in Pages /\ Maps(w.space, s, p, f) /\ w.space[s].pte[p].write
    /\ v.mem = [w.mem EXCEPT ![f] = s] /\ v.value = [w.value EXCEPT ![s][p] = s]
    /\ v.free = w.free /\ v.cache = w.cache /\ v.lost = w.lost /\ v.swap = w.swap
    /\ v.space = w.space /\ v.surface = w.surface /\ v.creating = w.creating
    /\ v.stale = w.stale

LEMMA StoreKeeps ==
  ASSUME NEW w, NEW v, Inv(w), NEW s \in Spaces, NEW p, NEW f, Stored(w, v, s, p, f)
  PROVE  Inv(v)
<1>1. Typed(w) /\ Hands(w) /\ SwapKept(w) /\ Backed(w) /\ Kept(w)
  BY DEF Inv, Stored
<1>2. /\ p \in Pages /\ Maps(w.space, s, p, f) /\ w.space[s].pte[p].write
      /\ v.mem = [w.mem EXCEPT ![f] = s] /\ v.value = [w.value EXCEPT ![s][p] = s]
      /\ v.free = w.free /\ v.cache = w.cache /\ v.lost = w.lost /\ v.swap = w.swap
      /\ v.space = w.space /\ v.surface = w.surface /\ v.creating = w.creating
      /\ v.stale = w.stale
  BY DEF Stored
<1>3. f \in Frames
  BY <1>1, <1>2, MapsTypes
<1>4. /\ ~IsCached(w.cache, f)
      /\ \A t \in Spaces, q \in Pages : Maps(w.space, t, q, f) => t = s /\ q = p
  BY <1>1, <1>2, <1>3 DEF Backed
<1>5. /\ v.mem[f] = s /\ v.mem \in [Frames -> Contents]
      /\ \A g \in Frames : g # f => v.mem[g] = w.mem[g]
  BY <1>1, <1>2, <1>3 DEF Typed, Contents
<1>6. /\ v.value \in [Spaces -> [Pages -> Contents]]
      /\ v.value[s][p] = s
      /\ \A t \in Spaces, q \in Pages : ~(t = s /\ q = p) => v.value[t][q] = w.value[t][q]
  BY <1>1, <1>2 DEF Typed, Contents
<1>7. Typed(v) /\ Hands(v) /\ SwapKept(v)
  <2>1. Typed(v)
    <3>1. v.mem \in [Frames -> Contents] /\ v.value \in [Spaces -> [Pages -> Contents]]
      BY <1>5, <1>6
    <3>2. /\ v.free = w.free /\ v.cache = w.cache /\ v.lost = w.lost
          /\ v.space = w.space /\ v.surface = w.surface /\ v.creating = w.creating
          /\ v.stale = w.stale /\ Typed(w)
      BY <1>1, <1>2
    <3> QED BY ONLY <3>1, <3>2 DEF Typed
  <2>2. Hands(v)
    BY <1>1, <1>2 DEF Hands
  <2>3. SwapKept(v)
    BY <1>1, <1>2 DEF SwapKept
  <2> QED BY <2>1, <2>2, <2>3
<1>8. Backed(v)
  BY <1>1, <1>2 DEF Backed
<1>9. Kept(v)
  <2>1. \A y \in DOMAIN v.cache : v.mem[v.cache[y].frame] = y
    BY <1>1, <1>2, <1>4, <1>5, CacheTypes DEF Kept
  <2>2. \A t \in Spaces, q \in Pages, g \in Frames :
           Maps(v.space, t, q, g) => v.mem[g] = v.value[t][q]
    <3>1. ASSUME NEW t \in Spaces, NEW q \in Pages, NEW g \in Frames, Maps(w.space, t, q, g)
          PROVE  v.mem[g] = v.value[t][q]
      <4>1. CASE g = f
        BY <1>4, <1>5, <1>6, <3>1, <4>1
      <4>2. CASE g # f
        <5>1. ~(t = s /\ q = p)
          BY <1>2, <3>1, <4>2 DEF Maps
        <5> QED BY <1>1, <1>5, <1>6, <3>1, <4>2, <5>1 DEF Kept
      <4> QED BY <4>1, <4>2
    <3> QED BY <1>2, <3>1
  <2>3. \A t \in Spaces, q \in Pages, y \in Slots :
           Shows(v.space, t, q, y) => v.swap[y] = v.value[t][q]
    <3>1. \A y \in Slots : ~Shows(w.space, s, p, y)
      BY SMTT(30), <1>1, <1>2, <1>3 DEF Backed
    <3> QED BY <1>1, <1>2, <1>6, <3>1 DEF Kept
  <2>4. \A t \in Spaces, q \in Pages : ~IsLive(v.space, t) => v.value[t][q] = Zero
    BY SMTT(30), <1>1, <1>2, <1>6 DEF Kept, Maps
  <2>5. \A t \in Spaces, q \in Pages :
           IsLive(v.space, t) /\ q >= v.space[t].next => v.value[t][q] = Zero
    <3>1. p < w.space[s].next
      <4>1. SpaceOK(s, w.space[s]) /\ p \in DOMAIN w.space[s].pte
        BY <1>1, <1>2, Here DEF Maps
      <4> QED BY <4>1 DEF SpaceOK
    <3>2. w.space[s].next \in Nat
      BY <1>1, <1>2, Here, SpaceFields DEF Maps
    <3>3. ~(p >= w.space[s].next)
      BY <1>2, <3>1, <3>2, Bounds
    <3> QED BY <1>1, <1>2, <1>6, <3>3 DEF Kept
  <2>6. \A t \in Spaces, q \in Pages, r \in Areas : Untouched(v.space, t, q, r) =>
           /\ r.kind = "File" => v.value[t][q] = r.file
           /\ r.kind = "Anon" => v.value[t][q] = Zero
    <3>1. \A r : ~Untouched(w.space, s, p, r)
      BY SMTT(30), <1>2 DEF Untouched, Maps
    <3> QED BY SMTT(30), <1>1, <1>2, <1>6, <3>1 DEF Kept
  <2>7. \A t \in Spaces : v.creating[t] # 0 =>
           \A k \in DOMAIN v.surface[v.creating[t]].frames :
              v.mem[v.surface[v.creating[t]].frames[k]] = Zero
    <3>1. \A t \in Spaces : w.creating[t] # 0 =>
             \A k \in DOMAIN w.surface[w.creating[t]].frames :
                w.surface[w.creating[t]].frames[k] # f
      BY SMTT(30), <1>1, <1>2 DEF Backed
    <3> QED BY <1>1, <1>2, <1>5, <3>1, CreatingTypes DEF Kept
  <2> QED BY Zenon, <2>1, <2>2, <2>3, <2>4, <2>5, <2>6, <2>7 DEF Kept
<1> QED BY <1>2, <1>7, <1>8, <1>9 DEF Inv

-----------------------------------------------------------------------------
(* The cache and the swap area as functions are of no consequence, only    *)
(* their entries are.                                                      *)
SameEntries(f, g) == DOMAIN f = DOMAIN g /\ \A x \in DOMAIN g : f[x] = g[x]

LEMMA EntriesMatter ==
  ASSUME NEW w, NEW v, Inv(w), Rest(w, v), v.mem = w.mem, v.free = w.free,
         SameEntries(v.cache, w.cache), SameEntries(v.swap, w.swap),
         v.lost = w.lost, v.space = w.space
  PROVE  Inv(v)
<1>1. \A f : IsCached(v.cache, f) <=> IsCached(w.cache, f)
  BY DEF IsCached, SameEntries
<1>2. Typed(v) /\ Hands(v) /\ SwapKept(v)
  <2>1. Typed(v)
    BY ZenonT(30) DEF Inv, Typed, Rest, SameEntries
  <2>2. Hands(v)
    BY <1>1 DEF Inv, Hands, Rest, SameEntries
  <2>3. SwapKept(v)
    BY DEF Inv, SwapKept, Rest, SameEntries
  <2> QED BY <2>1, <2>2, <2>3
<1>3. ASSUME ~v.stale PROVE Backed(v) /\ Kept(v)
  <2>1. Backed(w) /\ Kept(w) /\ SwapKept(w)
    BY <1>3 DEF Inv, Rest
  <2>2. Backed(v)
    BY <2>1, <1>1 DEF Backed, Rest, SameEntries
  <2>3. \A s \in Spaces, p \in Pages, x \in Slots :
           Shows(w.space, s, p, x) => v.swap[x] = w.swap[x]
    BY SMTT(30), <2>1 DEF SwapKept, SameEntries
  <2>4. Kept(v)
    BY <2>1, <2>3 DEF Kept, Rest, SameEntries
  <2> QED BY <2>2, <2>4
<1> QED BY <1>2, <1>3 DEF Inv

(* The record the operators of Memory work on, in a state in which it      *)
(* stands for the space s and what it shares.                              *)
Working(s, st) ==
    /\ s \in Spaces
    /\ space = [t \in Spaces |-> space[t]]
    /\ st = [free |-> st.free, mem |-> st.mem, cache |-> st.cache, swap |-> st.swap,
             lost |-> st.lost, sp |-> st.sp]
    /\ st.sp \in AddressSpaces
    /\ Inv(World(s, st))

LEMMA WorkingFields ==
  ASSUME NEW s, NEW st, Working(s, st), NEW w, w = World(s, st)
  PROVE  /\ Inv(w) /\ Typed(w) /\ Hands(w) /\ SwapKept(w) /\ (~stale => Backed(w) /\ Kept(w))
         /\ s \in Spaces /\ IsLive(w.space, s) /\ w.space[s] = st.sp /\ w.stale = stale
         /\ SpaceOK(s, st.sp) /\ st.sp \in AddressSpaces
         /\ st.free \subseteq Frames /\ st.mem \in [Frames -> Contents]
         /\ \A f : Owns(w.space, s, f) <=> f \in st.sp.owned
         /\ \A p, f : Maps(w.space, s, p, f) <=> p \in DOMAIN st.sp.pte /\ st.sp.pte[p].frame = f
         /\ \A p, x : Shows(w.space, s, p, x) <=> p \in DOMAIN st.sp.swapped /\ st.sp.swapped[p] = x
         /\ \A p, r : Untouched(w.space, s, p, r) <=>
               /\ r \in st.sp.regions /\ InRegion(r, p)
               /\ p \notin DOMAIN st.sp.pte /\ p \notin DOMAIN st.sp.swapped
<1>1. Inv(w) /\ s \in Spaces /\ st.sp \in AddressSpaces /\ space = [t \in Spaces |-> space[t]]
  BY DEF Working
<1>2. w.space = [space EXCEPT ![s] = st.sp] /\ w.stale = stale
  BY DEF World
<1>3. w.space[s] = st.sp
  BY <1>1, <1>2
<1>4. IsLive(w.space, s)
  BY <1>1, <1>3, SpaceFields DEF IsLive
<1>5. Typed(w) /\ Hands(w) /\ SwapKept(w) /\ (~stale => Backed(w) /\ Kept(w))
  BY <1>1, <1>2 DEF Inv
<1>6. st.free \subseteq Frames /\ st.mem \in [Frames -> Contents]
  <2>1. w.free = st.free /\ w.mem = st.mem
    BY DEF World
  <2> QED BY <1>5, <2>1 DEF Typed
<1>7. /\ SpaceOK(s, w.space[s])
      /\ \A f : Owns(w.space, s, f) <=> f \in w.space[s].owned
      /\ \A p, f : Maps(w.space, s, p, f) <=>
               p \in DOMAIN w.space[s].pte /\ w.space[s].pte[p].frame = f
      /\ \A p, x : Shows(w.space, s, p, x) <=>
               p \in DOMAIN w.space[s].swapped /\ w.space[s].swapped[p] = x
      /\ \A p, r : Untouched(w.space, s, p, r) <=>
               /\ r \in w.space[s].regions /\ InRegion(r, p)
               /\ p \notin DOMAIN w.space[s].pte /\ p \notin DOMAIN w.space[s].swapped
  <2>1. Typed(w) /\ s \in Spaces /\ IsLive(w.space, s)
    BY <1>1, <1>4, <1>5
  <2> QED BY ONLY <2>1, Here
<1> QED BY <1>1, <1>2, <1>3, <1>4, <1>5, <1>6, <1>7

(* From one record to the next, only what is in the record changes.        *)
LEMMA WorldStep ==
  ASSUME NEW s, NEW a, NEW b, Working(s, a),
         NEW w, w = World(s, a), NEW v, v = World(s, b)
  PROVE  Rest(w, v) /\ Replaced(w, v, s, b.sp)
<1>1. s \in Spaces /\ space = [t \in Spaces |-> space[t]]
  BY DEF Working
<1>2. /\ w.space = [space EXCEPT ![s] = a.sp] /\ v.space = [space EXCEPT ![s] = b.sp]
      /\ Rest(w, v)
  BY DEF World, Rest
<1>3. v.space = [w.space EXCEPT ![s] = b.sp]
  BY <1>1, <1>2
<1> QED BY <1>2, <1>3 DEF Replaced

LEMMA WorkingNext ==
  ASSUME NEW s, NEW a, NEW b, Working(s, a), Inv(World(s, b)), b.sp \in AddressSpaces,
         b = [free |-> b.free, mem |-> b.mem, cache |-> b.cache, swap |-> b.swap,
              lost |-> b.lost, sp |-> b.sp]
  PROVE  Working(s, b)
BY DEF Working

LEMMA NowTyped ==
  ASSUME IInv
  PROVE  /\ Typed(Now) /\ Hands(Now) /\ SwapKept(Now) /\ (~stale => Backed(Now) /\ Kept(Now))
         /\ space = [t \in Spaces |-> space[t]]
         /\ free \subseteq Frames /\ mem \in [Frames -> Contents]
<1>1. Typed(Now) /\ Hands(Now) /\ SwapKept(Now) /\ (~stale => Backed(Now) /\ Kept(Now))
  BY DEF IInv, Inv, Now
<1>2. Now.space = [t \in Spaces |-> Now.space[t]] /\ Now.free \subseteq Frames
      /\ Now.mem \in [Frames -> Contents]
  BY <1>1 DEF Typed
<1> QED BY <1>1, <1>2 DEF Now

LEMMA StateWorks ==
  ASSUME IInv, NEW s \in Spaces, space[s] # NoSpace
  PROVE  Working(s, State(s)) /\ World(s, State(s)) = Now
<1>1. space = [t \in Spaces |-> space[t]] /\ Typed(Now)
  BY NowTyped
<1>2. World(s, State(s)) = Now
  <2>1. [space EXCEPT ![s] = space[s]] = space
    BY <1>1
  <2> QED BY <2>1 DEF World, State, Now
<1>3. space[s] \in AddressSpaces
  <2>1. IsLive(Now.space, s) /\ Now.space[s] = space[s]
    BY DEF IsLive, Now
  <2> QED BY <1>1, <2>1, Here
<1> QED BY <1>1, <1>2, <1>3 DEF Working, State, IInv

-----------------------------------------------------------------------------
(* Every set of naturals that is not empty has a least element.  The       *)
(* intervals below its elements are ordered by strict inclusion, which is  *)
(* well-founded, as the elements are by <.                                 *)
LEMMA LeastNatural ==
  ASSUME NEW S, S \subseteq Nat, S # {}
  PROVE  \E x \in S : \A y \in S : x <= y
<1> DEFINE Below == {0 .. x : x \in S}
<1>1. Below # {}
  OBVIOUS
<1>2. Below \subseteq FiniteSubsetsOf(Nat)
  <2>1. \A x \in S : IsFiniteSet(0 .. x)
    BY FS_Interval
  <2>2. \A x \in S : 0 .. x \in SUBSET Nat
    OBVIOUS
  <2> QED BY <2>1, <2>2 DEF FiniteSubsetsOf
<1>3. PICK B \in Below : \A C \in Below : <<C, B>> \notin StrictSubsetOrdering(Nat)
  <2> HIDE DEF Below
  <2> QED BY <1>1, <1>2, FS_StrictSubsetOrderingWellFounded, WFMin
<1>4. PICK x \in S : B = 0 .. x
  OBVIOUS
<1>5. ASSUME NEW y \in S, y < x PROVE FALSE
  <2>1. 0 .. y \in Below
    OBVIOUS
  <2>2. 0 .. y \subseteq 0 .. x
    BY <1>5
  <2>3. x \in 0 .. x /\ x \notin 0 .. y
    BY <1>5
  <2>4. 0 .. y \in SUBSET Nat /\ 0 .. x \in SUBSET Nat
    OBVIOUS
  <2>5. <<0 .. y, 0 .. x>> \in StrictSubsetOrdering(Nat)
    BY <2>2, <2>3, <2>4 DEF StrictSubsetOrdering
  <2> QED BY <2>1, <2>5, <1>3, <1>4
<1> QED BY <1>5

(* Min and Max of a set of naturals are what their names say; for Max the  *)
(* set needs a bound.                                                      *)
LEMMA MinIsLeast ==
  ASSUME NEW S, S \subseteq Nat, S # {}
  PROVE  Min(S) \in S /\ \A y \in S : Min(S) <= y
BY LeastNatural DEF Min

-----------------------------------------------------------------------------
(* What the operators make of the record.  A frame that is free can be     *)
(* taken, and of the slots not in use the lowest.                          *)
LEMMA TakenIsFree ==
  ASSUME NEW st, st.free \subseteq Frames, st.free # {}
  PROVE  Taken(st) \in st.free
BY MinIsLeast, Bounds DEF Taken

LEMMA TakeFrameFields ==
  ASSUME NEW s, NEW st, Working(s, st), NEW f, f = Taken(st), NEW a, a = TakeFrame(st)
  PROVE  a =
            [free |-> st.free \ {f}, mem |-> [st.mem EXCEPT ![f] = Zero], cache |-> st.cache,
             swap |-> st.swap, lost |-> st.lost, sp |-> st.sp]
BY DEF Working, TakeFrame

(* swap_out_one_page stages one page that the space owns and nothing else. *)
LEMMA SwapOutFields ==
  ASSUME NEW s, NEW st, Working(s, st), NEW a \in SwapOutOne(st)
  PROVE  \E p \in DOMAIN st.sp.pte, x \in Slots \ DOMAIN st.swap, f \in st.sp.owned :
            /\ f = st.sp.pte[p].frame /\ \E r \in st.sp.regions : InRegion(r, p)
            /\ a = [free |-> st.free \cup {f}, mem |-> st.mem, cache |-> st.cache,
                    swap |-> With(st.swap, x, st.mem[f]), lost |-> st.lost,
                    sp |-> [owned |-> st.sp.owned \ {f}, tables |-> st.sp.tables,
                            regions |-> st.sp.regions, pte |-> Without(st.sp.pte, p),
                            swapped |-> With(st.sp.swapped, p, x), next |-> st.sp.next]]
<1>1. PICK p \in DOMAIN st.sp.pte :
         /\ \E r \in st.sp.regions : InRegion(r, p)
         /\ st.sp.pte[p].frame \in st.sp.owned /\ Slots \ DOMAIN st.swap # {}
         /\ a = [st EXCEPT !.swap = With(@, Min(Slots \ DOMAIN st.swap),
                                         st.mem[st.sp.pte[p].frame]),
                           !.sp.pte = Without(@, p),
                           !.sp.swapped = With(@, p, Min(Slots \ DOMAIN st.swap)),
                           !.sp.owned = @ \ {st.sp.pte[p].frame},
                           !.free = @ \cup {st.sp.pte[p].frame}]
  BY Zenon DEF SwapOutOne
<1>2. PICK x : x = Min(Slots \ DOMAIN st.swap)
  OBVIOUS
<1>3. PICK f : f = st.sp.pte[p].frame
  OBVIOUS
<1>4. x \in Slots \ DOMAIN st.swap
  BY <1>1, <1>2, MinIsLeast, Bounds
<1>5. /\ st = [free |-> st.free, mem |-> st.mem, cache |-> st.cache, swap |-> st.swap,
               lost |-> st.lost, sp |-> st.sp]
      /\ st.sp \in AddressSpaces
  BY DEF Working
<1>6. st.sp = [owned |-> st.sp.owned, tables |-> st.sp.tables, regions |-> st.sp.regions,
               pte |-> st.sp.pte, swapped |-> st.sp.swapped, next |-> st.sp.next]
  BY <1>5, SpaceFields
<1>7. PICK X1, X2, X3 : /\ X1 = With(st.swap, x, st.mem[f]) /\ X2 = Without(st.sp.pte, p)
                        /\ X3 = With(st.sp.swapped, p, x)
  OBVIOUS
<1>8. a = [st EXCEPT !.swap = X1, !.sp.pte = X2, !.sp.swapped = X3, !.sp.owned = @ \ {f},
                     !.free = @ \cup {f}]
  BY Zenon, <1>1, <1>2, <1>3, <1>7
<1>9. a = [free |-> st.free \cup {f}, mem |-> st.mem, cache |-> st.cache,
           swap |-> X1, lost |-> st.lost,
           sp |-> [owned |-> st.sp.owned \ {f}, tables |-> st.sp.tables,
                   regions |-> st.sp.regions, pte |-> X2,
                   swapped |-> X3, next |-> st.sp.next]]
  BY <1>5, <1>6, <1>8
<1>10. a = [free |-> st.free \cup {f}, mem |-> st.mem, cache |-> st.cache,
            swap |-> With(st.swap, x, st.mem[f]), lost |-> st.lost,
            sp |-> [owned |-> st.sp.owned \ {f}, tables |-> st.sp.tables,
                    regions |-> st.sp.regions, pte |-> Without(st.sp.pte, p),
                    swapped |-> With(st.sp.swapped, p, x), next |-> st.sp.next]]
  BY <1>7, <1>9
<1>11. f \in st.sp.owned /\ \E r \in st.sp.regions : InRegion(r, p)
  BY <1>1, <1>3
<1> QED BY ONLY <1>3, <1>4, <1>10, <1>11, Zenon

(* What a page that has no entry, or one for a frame not the space's own,  *)
(* keeps when another space record takes the place of the first.           *)
PageKept(n, o, p) ==
    \/ /\ p \notin DOMAIN o.pte /\ p \notin DOMAIN n.pte
       /\ p \in DOMAIN n.swapped <=> p \in DOMAIN o.swapped
       /\ p \in DOMAIN o.swapped => n.swapped[p] = o.swapped[p]
    \/ p \in DOMAIN o.pte /\ p \in DOMAIN n.pte /\ n.pte[p] = o.pte[p]
    \/ p \in DOMAIN o.pte /\ o.pte[p].frame \in o.owned

Alike(b, a) ==
    /\ b.cache = a.cache /\ b.lost = a.lost
    /\ b.sp.regions = a.sp.regions /\ b.sp.tables = a.sp.tables /\ b.sp.next = a.sp.next
    /\ b.sp.owned \subseteq a.sp.owned
    /\ \A p : PageKept(b.sp, a.sp, p)

LEMMA SwapOutWorks ==
  ASSUME NEW s, NEW st, Working(s, st), NEW a \in SwapOutOne(st)
  PROVE  Working(s, a) /\ Alike(a, st) /\ a.free # {}
<1>1. PICK p \in DOMAIN st.sp.pte, x \in Slots \ DOMAIN st.swap, f \in st.sp.owned :
         /\ f = st.sp.pte[p].frame /\ \E r \in st.sp.regions : InRegion(r, p)
         /\ a = [free |-> st.free \cup {f}, mem |-> st.mem, cache |-> st.cache,
                 swap |-> With(st.swap, x, st.mem[f]), lost |-> st.lost,
                 sp |-> [owned |-> st.sp.owned \ {f}, tables |-> st.sp.tables,
                         regions |-> st.sp.regions, pte |-> Without(st.sp.pte, p),
                         swapped |-> With(st.sp.swapped, p, x), next |-> st.sp.next]]
  BY SwapOutFields
<1>2. PICK w : w = World(s, st)
  OBVIOUS
<1>3. PICK v : v = World(s, a)
  OBVIOUS
<1>4. Inv(w) /\ s \in Spaces /\ IsLive(w.space, s) /\ w.space[s] = st.sp
  BY <1>2, WorkingFields
<1>5. Rest(w, v) /\ Replaced(w, v, s, a.sp)
  BY <1>2, <1>3, WorldStep
<1>6. SwappedOut(w, v, s, st.sp, a.sp, p, f, x)
  BY Zenon, <1>1, <1>2, <1>3, <1>4, <1>5 DEF SwappedOut, World
<1>7. Inv(v)
  BY SMTT(30), <1>4, <1>6, SwapOutKeeps
<1>8. a.sp \in AddressSpaces
  <2>1. st.sp \in AddressSpaces /\ x \in Slots /\ p \in Pages
    BY SpaceFields DEF Working
  <2>2. /\ st.sp.owned \subseteq Frames /\ st.sp.tables \subseteq Nat
        /\ st.sp.regions \subseteq Areas /\ st.sp.next \in Nat
        /\ \A q \in DOMAIN st.sp.pte : q \in Pages /\ st.sp.pte[q] \in [frame : Frames, write : BOOLEAN]
        /\ \A q \in DOMAIN st.sp.swapped : q \in Pages /\ st.sp.swapped[q] \in Slots
    BY <2>1, SpaceFields
  <2>3. Without(st.sp.pte, p) \in Tables
    BY <2>2, EntryTypes DEF Without
  <2>4. With(st.sp.swapped, p, x) \in Staged
    BY SMTT(30), <2>1, <2>2, EntryTypes DEF With
  <2> QED BY <1>1, <2>2, <2>3, <2>4 DEF AddressSpaces
<1>9. Working(s, a)
  BY <1>1, <1>3, <1>7, <1>8, WorkingNext
<1>10. \A q : PageKept(a.sp, st.sp, q)
  BY Zenon, <1>1 DEF PageKept, Without, With
<1> QED BY Zenon, <1>1, <1>9, <1>10 DEF Alike

(* alloc_owned_frame, when a frame is free: nothing else changes.          *)
TakeOwned(a) == [TakeFrame(a) EXCEPT !.sp.owned = @ \cup {Taken(a)}]

LEMMA TakeOwnedWorks ==
  ASSUME NEW s, NEW a, Working(s, a), a.free # {}, Cardinality(a.sp.owned) < MaxOwned,
         NEW b, b = TakeOwned(a)
  PROVE  /\ Working(s, b)
         /\ b.cache = a.cache /\ b.lost = a.lost
         /\ b.sp.regions = a.sp.regions /\ b.sp.tables = a.sp.tables /\ b.sp.next = a.sp.next
         /\ b.sp.pte = a.sp.pte /\ b.sp.swapped = a.sp.swapped
         /\ b.sp.owned = a.sp.owned \cup {Taken(a)} /\ Taken(a) \in a.free
         /\ b.mem[Taken(a)] = Zero
         /\ ~stale => \A q \in DOMAIN b.sp.pte : b.sp.pte[q].frame # Taken(a)
<1>1. PICK f : f = Taken(a)
  OBVIOUS
<1>2. PICK w : w = World(s, a)
  OBVIOUS
<1>3. PICK v : v = World(s, b)
  OBVIOUS
<1>4. /\ Inv(w) /\ s \in Spaces /\ IsLive(w.space, s) /\ w.space[s] = a.sp
      /\ a.free \subseteq Frames
  BY <1>2, WorkingFields
<1>5. f \in a.free
  BY <1>1, <1>4, TakenIsFree
<1>6. PICK c : c = TakeFrame(a)
  OBVIOUS
<1>7. c = [free |-> a.free \ {f}, mem |-> [a.mem EXCEPT ![f] = Zero], cache |-> a.cache,
           swap |-> a.swap, lost |-> a.lost, sp |-> a.sp]
  BY <1>1, <1>6, TakeFrameFields
<1>8. /\ a = [free |-> a.free, mem |-> a.mem, cache |-> a.cache, swap |-> a.swap,
              lost |-> a.lost, sp |-> a.sp]
      /\ a.sp \in AddressSpaces
  BY DEF Working
<1>9. a.sp = [owned |-> a.sp.owned, tables |-> a.sp.tables, regions |-> a.sp.regions,
              pte |-> a.sp.pte, swapped |-> a.sp.swapped, next |-> a.sp.next]
  BY <1>8, SpaceFields
<1>10. b = [c EXCEPT !.sp.owned = @ \cup {f}]
  BY <1>1, <1>6 DEF TakeOwned
<1>11. b = [free |-> a.free \ {f}, mem |-> [a.mem EXCEPT ![f] = Zero], cache |-> a.cache,
            swap |-> a.swap, lost |-> a.lost,
            sp |-> [owned |-> a.sp.owned \cup {f}, tables |-> a.sp.tables,
                    regions |-> a.sp.regions, pte |-> a.sp.pte,
                    swapped |-> a.sp.swapped, next |-> a.sp.next]]
  BY <1>7, <1>9, <1>10
<1>12. Rest(w, v) /\ Replaced(w, v, s, b.sp)
  BY <1>2, <1>3, WorldStep
<1>13. TakenOwned(w, v, s, a.sp, b.sp, f)
  BY <1>2, <1>3, <1>4, <1>5, <1>11, <1>12 DEF TakenOwned, World
<1>14. Inv(v) /\ (~v.stale => \A p : ~Maps(v.space, s, p, f))
  BY <1>4, <1>13, TakeOwnedKeeps
<1>15. b.sp \in AddressSpaces
  BY <1>4, <1>5, <1>8, <1>11 DEF AddressSpaces
<1>16. Working(s, b)
  BY <1>3, <1>11, <1>14, <1>15, WorkingNext
<1>17. ~stale => \A q \in DOMAIN b.sp.pte : b.sp.pte[q].frame # f
  <2>1. \A p : Maps(v.space, s, p, f) <=> p \in DOMAIN b.sp.pte /\ b.sp.pte[p].frame = f
    BY ONLY <1>3, <1>16, WorkingFields
  <2>2. v.stale = stale
    BY <1>3 DEF World
  <2> QED BY <1>14, <2>1, <2>2
<1>18. b.mem[f] = Zero
  <2>1. a.mem \in [Frames -> Contents]
    BY <1>2, WorkingFields
  <2> QED BY <2>1, <1>4, <1>5, <1>11
<1> QED BY <1>1, <1>5, <1>11, <1>16, <1>17, <1>18

LEMMA AllocOwnedWorks ==
  ASSUME NEW s, NEW st, Working(s, st), NEW r \in AllocOwned(st)
  PROVE  /\ Working(s, r.st)
         /\ r.st.cache = st.cache /\ r.st.lost = st.lost
         /\ r.st.sp.regions = st.sp.regions /\ r.st.sp.tables = st.sp.tables
         /\ r.st.sp.next = st.sp.next
         /\ \A p : PageKept(r.st.sp, st.sp, p)
         /\ r.f # 0 => /\ r.f \in r.st.sp.owned /\ r.st.mem[r.f] = Zero
                       /\ ~stale => \A q \in DOMAIN r.st.sp.pte : r.st.sp.pte[q].frame # r.f
<1>1. PICK able : able = IF st.free # {} THEN {st} ELSE SwapOutOne(st)
  OBVIOUS
<1>2. CASE able = {}
  <2>1. r = [f |-> 0, st |-> st]
    BY <1>1, <1>2 DEF AllocOwned
  <2>2. \A p : PageKept(st.sp, st.sp, p)
    BY DEF PageKept
  <2> QED BY <2>1, <2>2
<1>3. CASE able # {}
  <2>1. PICK a \in able :
           r = IF Cardinality(a.sp.owned) >= MaxOwned
               THEN [f |-> 0, st |-> a]
               ELSE [f |-> Taken(a),
                     st |-> TakeOwned(a)]
    BY <1>1, <1>3 DEF AllocOwned, TakeOwned
  <2>2. Working(s, a) /\ Alike(a, st) /\ a.free # {}
    <3>1. CASE st.free # {}
      BY <1>1, <2>1, <3>1 DEF Alike, PageKept
    <3>2. CASE st.free = {}
      BY <1>1, <2>1, <3>2, SwapOutWorks
    <3> QED BY <3>1, <3>2
  <2>3. CASE Cardinality(a.sp.owned) >= MaxOwned
    <3>1. r = [f |-> 0, st |-> a]
      BY <2>1, <2>3
    <3> QED BY <2>2, <3>1 DEF Alike
  <2>4. CASE ~(Cardinality(a.sp.owned) >= MaxOwned)
    <3>1. PICK b : b = TakeOwned(a)
      OBVIOUS
    <3>2. r = [f |-> Taken(a), st |-> b]
      BY <2>1, <2>4, <3>1
    <3>3. Cardinality(a.sp.owned) < MaxOwned
      <4>1. a.sp.owned \in SUBSET Frames
        BY <2>2, SpaceFields DEF Working
      <4>2. Cardinality(a.sp.owned) \in Nat
        BY <4>1, OwnedFinite
      <4> QED BY <2>4, <4>2, MemoryAssumption
    <3>4. /\ Working(s, b)
          /\ b.cache = a.cache /\ b.lost = a.lost
          /\ b.sp.regions = a.sp.regions /\ b.sp.tables = a.sp.tables /\ b.sp.next = a.sp.next
          /\ b.sp.pte = a.sp.pte /\ b.sp.swapped = a.sp.swapped
          /\ b.sp.owned = a.sp.owned \cup {Taken(a)} /\ Taken(a) \in a.free
          /\ b.mem[Taken(a)] = Zero
          /\ ~stale => \A q \in DOMAIN b.sp.pte : b.sp.pte[q].frame # Taken(a)
      <4>1. Working(s, a) /\ a.free # {}
        BY <2>2
      <4> QED BY ONLY <4>1, <3>1, <3>3, TakeOwnedWorks
    <3>5. \A p : PageKept(b.sp, st.sp, p)
      <4>1. \A p : PageKept(a.sp, st.sp, p)
        BY <2>2 DEF Alike
      <4> QED BY <3>4, <4>1 DEF PageKept
    <3> QED BY <2>2, <3>2, <3>4, <3>5 DEF Alike
  <2> QED BY <2>3, <2>4
<1> QED BY <1>2, <1>3

-----------------------------------------------------------------------------
(* Page faults.                                                            *)
Shaped(st) ==
    /\ st = [free |-> st.free, mem |-> st.mem, cache |-> st.cache, swap |-> st.swap,
             lost |-> st.lost, sp |-> st.sp]
    /\ st.sp = [owned |-> st.sp.owned, tables |-> st.sp.tables, regions |-> st.sp.regions,
                pte |-> st.sp.pte, swapped |-> st.sp.swapped, next |-> st.sp.next]

LEMMA WorkingShaped ==
  ASSUME NEW s, NEW st, Working(s, st)
  PROVE  Shaped(st)
<1>1. st.sp \in AddressSpaces
  BY DEF Working
<1>2. st.sp = [owned |-> st.sp.owned, tables |-> st.sp.tables, regions |-> st.sp.regions,
               pte |-> st.sp.pte, swapped |-> st.sp.swapped, next |-> st.sp.next]
  BY <1>1, SpaceFields
<1> QED BY <1>2 DEF Working, Shaped

LEMMA SetEntryFields ==
  ASSUME NEW st, Shaped(st), NEW p, NEW f, NEW w, NEW a, a = SetEntry(st, p, f, w)
  PROVE  /\ Shaped(a)
         /\ a.free = st.free /\ a.mem = st.mem /\ a.cache = st.cache /\ a.swap = st.swap
         /\ a.lost = st.lost
         /\ a.sp = [owned |-> st.sp.owned, tables |-> st.sp.tables \cup {TableOf(p)},
                    regions |-> st.sp.regions,
                    pte |-> With(st.sp.pte, p, [frame |-> f, write |-> w]),
                    swapped |-> st.sp.swapped, next |-> st.sp.next]
<1>1. PICK X : X = With(st.sp.pte, p, [frame |-> f, write |-> w])
  OBVIOUS
<1>2. PICK T : T = {TableOf(p)}
  OBVIOUS
<1>3. a = [st EXCEPT !.sp.pte = X, !.sp.tables = @ \cup T]
  BY <1>1, <1>2 DEF SetEntry
<1>4. a = [free |-> st.free, mem |-> st.mem, cache |-> st.cache, swap |-> st.swap,
           lost |-> st.lost,
           sp |-> [owned |-> st.sp.owned, tables |-> st.sp.tables \cup T,
                   regions |-> st.sp.regions, pte |-> X,
                   swapped |-> st.sp.swapped, next |-> st.sp.next]]
  BY <1>3 DEF Shaped
<1>5. a.sp = [owned |-> st.sp.owned, tables |-> st.sp.tables \cup T,
              regions |-> st.sp.regions, pte |-> X,
              swapped |-> st.sp.swapped, next |-> st.sp.next]
  BY <1>4
<1>6. a.sp = [owned |-> a.sp.owned, tables |-> a.sp.tables, regions |-> a.sp.regions,
              pte |-> a.sp.pte, swapped |-> a.sp.swapped, next |-> a.sp.next]
  BY ONLY <1>5
<1>7. a = [free |-> a.free, mem |-> a.mem, cache |-> a.cache, swap |-> a.swap,
           lost |-> a.lost, sp |-> a.sp]
  BY <1>4
<1> QED BY <1>1, <1>2, <1>4, <1>5, <1>6, <1>7 DEF Shaped

(* The region of a page. *)
LEMMA RegionOfPage ==
  ASSUME NEW s, NEW st, Working(s, st), NEW p \in Pages,
         \E r \in st.sp.regions : InRegion(r, p), NEW R, R = RegionOf(st.sp, p)
  PROVE  R \in st.sp.regions /\ InRegion(R, p) /\ AreaOK(s, R)
<1>1. R \in st.sp.regions /\ InRegion(R, p)
  BY DEF RegionOf
<1>2. SpaceOK(s, st.sp)
  BY WorkingFields
<1> QED BY <1>1, <1>2 DEF SpaceOK

(* What a page that was not touched yet is to be filled with, and what one *)
(* that is staged has in its slot.                                         *)
LEMMA ToFill ==
  ASSUME NEW s, NEW st, Working(s, st), NEW p \in Pages, ~stale,
         NEW R \in st.sp.regions, InRegion(R, p),
         p \notin DOMAIN st.sp.pte, p \notin DOMAIN st.sp.swapped
  PROVE  /\ R.kind = "Anon" => value[s][p] = Zero
         /\ R.kind = "File" => value[s][p] = R.file
<1>1. PICK w : w = World(s, st)
  OBVIOUS
<1>2. Kept(w) /\ Untouched(w.space, s, p, R) /\ s \in Spaces /\ SpaceOK(s, st.sp)
  BY <1>1, WorkingFields
<1>3. R \in Areas /\ w.value = value
  BY <1>1, <1>2 DEF SpaceOK, AreaOK, World
<1> QED BY <1>2, <1>3 DEF Kept

LEMMA InSlot ==
  ASSUME NEW s, NEW st, Working(s, st), NEW p \in DOMAIN st.sp.swapped
  PROVE  /\ p \in Pages /\ st.sp.swapped[p] \in Slots
         /\ st.sp.swapped[p] \in DOMAIN st.swap
         /\ st.swap[st.sp.swapped[p]] \in Contents
         /\ ~stale => st.swap[st.sp.swapped[p]] = value[s][p]
         /\ TableOf(p) \in st.sp.tables
         /\ ~stale => \A R \in st.sp.regions : InRegion(R, p) => R.write
<1>1. PICK w : w = World(s, st)
  OBVIOUS
<1>2. PICK x : x = st.sp.swapped[p]
  OBVIOUS
<1>3. /\ SwapKept(w) /\ (~stale => Backed(w) /\ Kept(w)) /\ s \in Spaces /\ SpaceOK(s, st.sp)
      /\ Shows(w.space, s, p, x) /\ w.space[s] = st.sp /\ IsLive(w.space, s)
      /\ st.sp \in AddressSpaces
  BY <1>1, <1>2, WorkingFields
<1>4. p \in Pages /\ x \in Slots
  BY <1>2, <1>3, SpaceFields
<1>5. w.swap = st.swap /\ w.value = value
  BY <1>1 DEF World
<1>6. x \in DOMAIN st.swap /\ st.swap[x] \in Contents
  BY <1>3, <1>4, <1>5 DEF SwapKept
<1>7. ~stale => st.swap[x] = value[s][p]
  BY <1>3, <1>4, <1>5 DEF Kept
<1>8. TableOf(p) \in st.sp.tables
  BY <1>3 DEF SpaceOK
<1>9. ~stale => RegionsKept(st.sp)
  BY <1>3 DEF Backed
<1>10. ~stale => \A R \in st.sp.regions : InRegion(R, p) => R.write
  BY <1>4, <1>9 DEF RegionsKept
<1> QED BY <1>2, <1>4, <1>6, <1>7, <1>8, <1>10

(* A page gets an entry for a frame of its space's own. *)
EntersRecord(s, b, p, f, R, c, n) ==
    /\ p \in Pages /\ p \notin DOMAIN b.sp.pte
    /\ f \in b.sp.owned /\ R \in b.sp.regions /\ InRegion(R, p) /\ c \in Contents
    /\ ~stale => /\ R.write /\ c = value[s][p]
                 /\ \A q \in DOMAIN b.sp.pte : b.sp.pte[q].frame # f
    /\ Shaped(n) /\ n.free = b.free /\ n.mem = [b.mem EXCEPT ![f] = c]
    /\ n.cache = b.cache /\ n.lost = b.lost
    /\ SameEntries(n.swap, Beyond(b.swap, SlotOf(b.sp, p)))
    /\ n.sp = [owned |-> b.sp.owned, tables |-> b.sp.tables \cup {TableOf(p)},
               regions |-> b.sp.regions,
               pte |-> With(b.sp.pte, p, [frame |-> f, write |-> R.write]),
               swapped |-> Without(b.sp.swapped, p), next |-> b.sp.next]

LEMMA EnterWorks ==
  ASSUME NEW s, NEW b, Working(s, b), NEW p, NEW f, NEW R, NEW c, NEW n,
         EntersRecord(s, b, p, f, R, c, n)
  PROVE  Working(s, n)
<1>0. /\ p \in Pages /\ p \notin DOMAIN b.sp.pte
      /\ f \in b.sp.owned /\ R \in b.sp.regions /\ InRegion(R, p) /\ c \in Contents
      /\ ~stale => /\ R.write /\ c = value[s][p]
                   /\ \A q \in DOMAIN b.sp.pte : b.sp.pte[q].frame # f
      /\ Shaped(n) /\ n.free = b.free /\ n.mem = [b.mem EXCEPT ![f] = c]
      /\ n.cache = b.cache /\ n.lost = b.lost
      /\ SameEntries(n.swap, Beyond(b.swap, SlotOf(b.sp, p)))
      /\ n.sp = [owned |-> b.sp.owned, tables |-> b.sp.tables \cup {TableOf(p)},
                 regions |-> b.sp.regions,
                 pte |-> With(b.sp.pte, p, [frame |-> f, write |-> R.write]),
                 swapped |-> Without(b.sp.swapped, p), next |-> b.sp.next]
  BY DEF EntersRecord
<1>1. PICK w : w = World(s, b)
  OBVIOUS
<1>2. PICK m : m = [free |-> n.free, mem |-> n.mem, cache |-> n.cache,
                    swap |-> Beyond(b.swap, SlotOf(b.sp, p)), lost |-> n.lost, sp |-> n.sp]
  OBVIOUS
<1>3. PICK v : v = World(s, m)
  OBVIOUS
<1>4. /\ Inv(w) /\ s \in Spaces /\ IsLive(w.space, s) /\ w.space[s] = b.sp /\ w.stale = stale
      /\ \A q, h : Maps(w.space, s, q, h) <=> q \in DOMAIN b.sp.pte /\ b.sp.pte[q].frame = h
      /\ b.sp \in AddressSpaces
  <2>1. Working(s, b)
    OBVIOUS
  <2>2. /\ Inv(w) /\ s \in Spaces /\ IsLive(w.space, s) /\ w.space[s] = b.sp /\ w.stale = stale
        /\ b.sp \in AddressSpaces
    BY ONLY <1>1, <2>1, WorkingFields
  <2>3. \A q, h : Maps(w.space, s, q, h) <=> q \in DOMAIN b.sp.pte /\ b.sp.pte[q].frame = h
    BY ONLY <2>2 DEF Maps
  <2> QED BY <2>2, <2>3
<1>5. Rest(w, v) /\ Replaced(w, v, s, m.sp)
  BY <1>1, <1>3, WorldStep
<1>6. ~w.stale => R.write /\ c = w.value[s][p] /\ \A q : ~Maps(w.space, s, q, f)
  BY ZenonT(30), <1>0, <1>1, <1>4 DEF World
<1>7. /\ v.free = w.free /\ v.mem = [w.mem EXCEPT ![f] = c]
      /\ v.cache = w.cache /\ v.lost = w.lost /\ v.swap = Beyond(w.swap, SlotOf(b.sp, p))
  BY <1>0, <1>1, <1>2, <1>3 DEF World
<1>8. Entered(w, v, s, b.sp, m.sp, p, f, R, c)
  BY <1>0, <1>2, <1>4, <1>5, <1>6, <1>7 DEF Entered
<1>9. Inv(v)
  BY <1>4, <1>8, EnterKeeps
<1>10. PICK u : u = World(s, n)
  OBVIOUS
<1>11. /\ Rest(v, u) /\ u.mem = v.mem /\ u.free = v.free /\ u.cache = v.cache
       /\ u.lost = v.lost /\ u.space = v.space /\ SameEntries(u.swap, v.swap)
       /\ SameEntries(u.cache, v.cache)
  BY <1>0, <1>2, <1>3, <1>10 DEF World, Rest, SameEntries
<1>12. Inv(u)
  BY ONLY <1>9, <1>11, EntriesMatter
<1>13. n.sp \in AddressSpaces
  <2>1. /\ b.sp.owned \subseteq Frames /\ b.sp.tables \subseteq Nat
        /\ b.sp.regions \subseteq Areas /\ b.sp.next \in Nat
        /\ \A q \in DOMAIN b.sp.pte : q \in Pages /\ b.sp.pte[q] \in [frame : Frames, write : BOOLEAN]
        /\ \A q \in DOMAIN b.sp.swapped : q \in Pages /\ b.sp.swapped[q] \in Slots
    BY <1>4, SpaceFields
  <2>2. R.write \in BOOLEAN
    BY <1>0, <2>1 DEF Areas
  <2>3. With(b.sp.pte, p, [frame |-> f, write |-> R.write]) \in Tables
    BY <1>0, <2>1, <2>2, EntryTypes DEF With
  <2>4. Without(b.sp.swapped, p) \in Staged
    BY <1>0, <2>1, EntryTypes DEF Without
  <2>5. TableOf(p) \in Nat
    BY <1>0, TableOfPage
  <2> QED BY <1>0, <2>1, <2>3, <2>4, <2>5 DEF AddressSpaces
<1> QED BY <1>0, <1>10, <1>12, <1>13, WorkingNext DEF Shaped

(* map_page, for a page without an entry. *)
LEMMA MapPageOutcomes ==
  ASSUME NEW st, NEW p, p \notin DOMAIN st.sp.pte, NEW f, NEW w, NEW q \in MapPage(st, p, f, w)
  PROVE  \/ q.ok /\ q.st = SetEntry(st, p, f, w) /\ q = [ok |-> TRUE, st |-> SetEntry(st, p, f, w)]
         \/ ~q.ok /\ q.st = st /\ TableOf(p) \notin st.sp.tables
BY DEF MapPage, Mapped

(* An allocation leaves a page without an entry as it was. *)
LEMMA AllocLeaves ==
  ASSUME NEW n, NEW o, NEW p, PageKept(n, o, p), p \notin DOMAIN o.pte
  PROVE  /\ p \notin DOMAIN n.pte
         /\ p \in DOMAIN n.swapped <=> p \in DOMAIN o.swapped
         /\ p \in DOMAIN o.swapped => n.swapped[p] = o.swapped[p]
BY DEF PageKept

(* map_zeroed_page. *)
LEMMA MapZeroedWorks ==
  ASSUME NEW s, NEW st, Working(s, st), NEW p \in Pages,
         NEW R \in st.sp.regions, InRegion(R, p), AreaOK(s, R), R.kind = "Anon",
         p \notin DOMAIN st.sp.pte, p \notin DOMAIN st.sp.swapped,
         NEW q \in MapZeroed(st, p, R.write)
  PROVE  Working(s, q.st)
<1>1. PICK r \in AllocOwned(st) :
         q \in IF r.f = 0 THEN {Failed(r.st)} ELSE MapPage(r.st, p, r.f, R.write)
  BY DEF MapZeroed
<1>2. PICK b : b = r.st
  OBVIOUS
<1>3. PICK f : f = r.f
  OBVIOUS
<1>4. /\ Working(s, b) /\ b.sp.regions = st.sp.regions /\ PageKept(b.sp, st.sp, p)
      /\ f # 0 => /\ f \in b.sp.owned /\ b.mem[f] = Zero
                  /\ ~stale => \A h \in DOMAIN b.sp.pte : b.sp.pte[h].frame # f
  BY <1>1, <1>2, <1>3, AllocOwnedWorks
<1>5. p \notin DOMAIN b.sp.pte /\ p \notin DOMAIN b.sp.swapped
  BY <1>4, AllocLeaves
<1>6. CASE f = 0
  BY <1>1, <1>2, <1>3, <1>4, <1>6 DEF Failed
<1>7. CASE f # 0
  <2>1. q \in MapPage(b, p, f, R.write)
    BY <1>1, <1>2, <1>3, <1>7
  <2>2. CASE ~q.ok
    BY <1>4, <1>5, <2>1, <2>2, MapPageOutcomes
  <2>3. CASE q.ok
    <3>1. PICK n : n = q.st
      OBVIOUS
    <3>2. n = SetEntry(b, p, f, R.write)
      BY <1>5, <2>1, <2>3, <3>1, MapPageOutcomes
    <3>3. Shaped(b)
      BY <1>4, WorkingShaped
    <3>4. /\ Shaped(n)
          /\ n.free = b.free /\ n.mem = b.mem /\ n.cache = b.cache /\ n.swap = b.swap
          /\ n.lost = b.lost
          /\ n.sp = [owned |-> b.sp.owned, tables |-> b.sp.tables \cup {TableOf(p)},
                     regions |-> b.sp.regions,
                     pte |-> With(b.sp.pte, p, [frame |-> f, write |-> R.write]),
                     swapped |-> b.sp.swapped, next |-> b.sp.next]
      BY <3>2, <3>3, SetEntryFields
    <3>5. b.sp.swapped = Without(b.sp.swapped, p)
      <4>1. b.sp.swapped = [h \in DOMAIN b.sp.swapped |-> b.sp.swapped[h]]
        BY <1>4, SpaceFields DEF Working
      <4> QED BY <1>5, <4>1 DEF Without
    <3>6. SameEntries(n.swap, Beyond(b.swap, SlotOf(b.sp, p)))
      BY <1>5, <3>4 DEF SameEntries, Beyond, SlotOf
    <3>7. n.mem = [b.mem EXCEPT ![f] = Zero]
      <4>1. b.mem \in [Frames -> Contents]
        BY <1>4, WorkingFields
      <4> QED BY <1>4, <1>7, <3>4, <4>1
    <3>8. R.write /\ Zero \in Contents /\ f \in b.sp.owned /\ R \in b.sp.regions
      BY <1>4, <1>7 DEF AreaOK, Contents
    <3>9. ~stale => value[s][p] = Zero
      BY ToFill
    <3>10. n.sp = [owned |-> b.sp.owned, tables |-> b.sp.tables \cup {TableOf(p)},
                   regions |-> b.sp.regions,
                   pte |-> With(b.sp.pte, p, [frame |-> f, write |-> R.write]),
                   swapped |-> Without(b.sp.swapped, p), next |-> b.sp.next]
      BY <3>4, <3>5
    <3>11. ~stale => R.write /\ Zero = value[s][p] /\ \A h \in DOMAIN b.sp.pte : b.sp.pte[h].frame # f
      BY <1>4, <1>7, <3>8, <3>9
    <3>12. n.free = b.free /\ n.cache = b.cache /\ n.lost = b.lost /\ Shaped(n)
      BY <3>4
    <3>13. Working(s, b) /\ p \in Pages /\ InRegion(R, p) /\ p \notin DOMAIN b.sp.pte
      BY <1>4, <1>5
    <3>14. EntersRecord(s, b, p, f, R, Zero, n)
      BY ONLY <3>6, <3>7, <3>8, <3>10, <3>11, <3>12, <3>13 DEF EntersRecord
    <3>15. Working(s, n)
      BY <3>13, <3>14, EnterWorks
    <3> QED BY <3>1, <3>15
  <2> QED BY <2>2, <2>3
<1> QED BY <1>6, <1>7

(* restore_swapped_page: the page's table exists, so it is mapped. *)
LEMMA RestoreWorks ==
  ASSUME NEW s, NEW st, Working(s, st), NEW p \in Pages,
         NEW R \in st.sp.regions, InRegion(R, p), AreaOK(s, R),
         p \notin DOMAIN st.sp.pte, p \in DOMAIN st.sp.swapped,
         NEW q \in Restore(st, p, R.write)
  PROVE  Working(s, q.st)
<1>1. PICK x : x = st.sp.swapped[p]
  OBVIOUS
<1>2. PICK r \in AllocOwned(st) :
         q \in IF r.f = 0 THEN {Failed(r.st)}
               ELSE {IF z.ok THEN [z EXCEPT !.st.sp.swapped = Without(@, p)]
                     ELSE Failed(ReleaseMapped(z.st, r.f)) :
                     z \in MapPage(SwapIn(r.st, x, r.f), p, r.f, R.write)}
  BY <1>1 DEF Restore
<1>3. PICK b : b = r.st
  OBVIOUS
<1>4. PICK f : f = r.f
  OBVIOUS
<1>5. /\ Working(s, b) /\ b.sp.regions = st.sp.regions /\ PageKept(b.sp, st.sp, p)
      /\ f # 0 => /\ f \in b.sp.owned
                  /\ ~stale => \A h \in DOMAIN b.sp.pte : b.sp.pte[h].frame # f
  BY <1>2, <1>3, <1>4, AllocOwnedWorks
<1>6. p \notin DOMAIN b.sp.pte /\ p \in DOMAIN b.sp.swapped /\ b.sp.swapped[p] = x
  BY <1>1, <1>5, AllocLeaves
<1>7. CASE f = 0
  BY <1>2, <1>3, <1>4, <1>5, <1>7 DEF Failed
<1>8. CASE f # 0
  <2>1. PICK a : a = SwapIn(b, x, f)
    OBVIOUS
  <2>2. Shaped(b)
    BY <1>5, WorkingShaped
  <2>c. PICK c : c = b.swap[x]
    OBVIOUS
  <2>3. /\ Shaped(a)
        /\ a.free = b.free /\ a.mem = [b.mem EXCEPT ![f] = c] /\ a.cache = b.cache
        /\ a.swap = Without(b.swap, x) /\ a.lost = b.lost /\ a.sp = b.sp
    <3>1. PICK X : X = Without(b.swap, x)
      OBVIOUS
    <3>2. a = [b EXCEPT !.mem[f] = c, !.swap = X]
      BY ONLY <3>1, <2>1, <2>c DEF SwapIn
    <3>3. a = [free |-> b.free, mem |-> [b.mem EXCEPT ![f] = c], cache |-> b.cache, swap |-> X,
               lost |-> b.lost, sp |-> b.sp]
      BY ONLY <3>2, <2>2 DEF Shaped
    <3>4. Shaped(a)
      <4>1. a = [free |-> a.free, mem |-> a.mem, cache |-> a.cache, swap |-> a.swap,
                 lost |-> a.lost, sp |-> a.sp]
        BY ONLY <3>3
      <4>2. a.sp = b.sp
        BY ONLY <3>3
      <4> QED BY ONLY <2>2, <4>1, <4>2 DEF Shaped
    <3> QED BY ONLY <3>1, <3>3, <3>4
  <2>4. PICK z \in MapPage(a, p, f, R.write) :
           q = IF z.ok THEN [z EXCEPT !.st.sp.swapped = Without(@, p)]
               ELSE Failed(ReleaseMapped(z.st, f))
    BY <1>2, <1>3, <1>4, <1>8, <2>1
  <2>5. /\ x \in Slots /\ x \in DOMAIN b.swap /\ b.swap[x] \in Contents
        /\ ~stale => b.swap[x] = value[s][p]
        /\ TableOf(p) \in b.sp.tables
        /\ ~stale => \A h \in b.sp.regions : InRegion(h, p) => h.write
    BY <1>5, <1>6, InSlot
  <2>6. PICK e : e = SetEntry(a, p, f, R.write)
    OBVIOUS
  <2>7. z = [ok |-> TRUE, st |-> e]
    BY <1>6, <2>3, <2>4, <2>5, <2>6, MapPageOutcomes
  <2>8. /\ Shaped(e)
        /\ e.free = a.free /\ e.mem = a.mem /\ e.cache = a.cache /\ e.swap = a.swap
        /\ e.lost = a.lost
        /\ e.sp = [owned |-> a.sp.owned, tables |-> a.sp.tables \cup {TableOf(p)},
                   regions |-> a.sp.regions,
                   pte |-> With(a.sp.pte, p, [frame |-> f, write |-> R.write]),
                   swapped |-> a.sp.swapped, next |-> a.sp.next]
    BY <2>3, <2>6, SetEntryFields
  <2>9. PICK n : n = q.st
    OBVIOUS
  <2>10. PICK X : X = Without(b.sp.swapped, p)
    OBVIOUS
  <2>11. n = [e EXCEPT !.sp.swapped = X]
    <3>1. e.sp.swapped = b.sp.swapped
      BY <2>3, <2>8
    <3>2. z.ok /\ z.st.sp.swapped = b.sp.swapped
      BY <2>7, <3>1
    <3>3. q = [z EXCEPT !.st.sp.swapped = X]
      <4>1. q = [z EXCEPT !.st.sp.swapped = Without(@, p)]
        BY ONLY <2>4, <3>2
      <4> QED BY ONLY <2>10, <3>2, <4>1
    <3> QED BY ONLY <2>7, <2>9, <3>3
  <2>12. n = [free |-> e.free, mem |-> e.mem, cache |-> e.cache, swap |-> e.swap,
              lost |-> e.lost,
              sp |-> [owned |-> e.sp.owned, tables |-> e.sp.tables, regions |-> e.sp.regions,
                      pte |-> e.sp.pte, swapped |-> X, next |-> e.sp.next]]
    BY <2>8, <2>11 DEF Shaped
  <2>13. n.sp = [owned |-> e.sp.owned, tables |-> e.sp.tables, regions |-> e.sp.regions,
                 pte |-> e.sp.pte, swapped |-> X, next |-> e.sp.next]
    BY <2>12
  <2>14. Shaped(n)
    <3>1. n = [free |-> n.free, mem |-> n.mem, cache |-> n.cache, swap |-> n.swap,
               lost |-> n.lost, sp |-> n.sp]
      BY <2>12
    <3>2. n.sp = [owned |-> n.sp.owned, tables |-> n.sp.tables, regions |-> n.sp.regions,
                  pte |-> n.sp.pte, swapped |-> n.sp.swapped, next |-> n.sp.next]
      BY ONLY <2>13
    <3> QED BY <3>1, <3>2 DEF Shaped
  <2>15. n.sp = [owned |-> b.sp.owned, tables |-> b.sp.tables \cup {TableOf(p)},
                 regions |-> b.sp.regions,
                 pte |-> With(b.sp.pte, p, [frame |-> f, write |-> R.write]),
                 swapped |-> Without(b.sp.swapped, p), next |-> b.sp.next]
    <3>1. /\ e.sp.owned = b.sp.owned /\ e.sp.tables = b.sp.tables \cup {TableOf(p)}
          /\ e.sp.regions = b.sp.regions
          /\ e.sp.pte = With(b.sp.pte, p, [frame |-> f, write |-> R.write])
          /\ e.sp.next = b.sp.next
      BY <2>3, <2>8
    <3> QED BY <2>10, <2>13, <3>1
  <2>16. /\ n.free = b.free /\ n.mem = [b.mem EXCEPT ![f] = c]
         /\ n.cache = b.cache /\ n.lost = b.lost /\ n.swap = Without(b.swap, x)
    BY <2>3, <2>8, <2>12
  <2>17. SameEntries(n.swap, Beyond(b.swap, SlotOf(b.sp, p)))
    BY <1>6, <2>16 DEF SameEntries, Beyond, SlotOf, Without
  <2>18. R \in b.sp.regions /\ f \in b.sp.owned /\ c \in Contents
    BY <1>5, <1>8, <2>5, <2>c
  <2>19. ~stale => /\ R.write /\ c = value[s][p]
                   /\ \A h \in DOMAIN b.sp.pte : b.sp.pte[h].frame # f
    BY <1>5, <1>8, <2>5, <2>18, <2>c
  <2>20. Working(s, b) /\ p \in Pages /\ InRegion(R, p) /\ p \notin DOMAIN b.sp.pte
    BY <1>5, <1>6
  <2>21. EntersRecord(s, b, p, f, R, c, n)
    BY ONLY <2>14, <2>15, <2>16, <2>17, <2>18, <2>19, <2>20 DEF EntersRecord
  <2>22. Working(s, n)
    BY <2>20, <2>21, EnterWorks
  <2> QED BY <2>9, <2>22
<1> QED BY <1>7, <1>8

(* release_frame, on the record. *)
LEMMA DropFields ==
  ASSUME NEW e, Shaped(e), NEW cnt, NEW n, n = DropRefs(e, cnt)
  PROVE  /\ Shaped(n)
         /\ n.free = e.free \cup FramesDropped(e.cache, cnt) /\ n.mem = e.mem
         /\ n.cache = CacheAfter(e.cache, cnt) /\ n.swap = e.swap /\ n.lost = e.lost
         /\ n.sp = e.sp
<1>1. PICK X : X = CacheAfter(e.cache, cnt)
  OBVIOUS
<1>2. PICK F : F = FramesDropped(e.cache, cnt)
  OBVIOUS
<1>3. PICK K : K = KeptPages(e.cache, cnt)
  OBVIOUS
<1>4. {x \in DOMAIN e.cache : e.cache[x].refs - cnt[e.cache[x].frame] > 0} = K
  BY <1>3 DEF KeptPages
<1>5. n = [e EXCEPT !.cache = [x \in K |-> [frame |-> e.cache[x].frame,
                                            refs |-> e.cache[x].refs - cnt[e.cache[x].frame]]],
                    !.free = @ \cup {e.cache[x].frame : x \in DOMAIN e.cache \ K}]
  BY <1>4 DEF DropRefs
<1>6. n = [e EXCEPT !.cache = X, !.free = @ \cup F]
  BY <1>1, <1>2, <1>3, <1>5 DEF CacheAfter, FramesDropped
<1>7. n = [free |-> e.free \cup F, mem |-> e.mem, cache |-> X, swap |-> e.swap,
           lost |-> e.lost, sp |-> e.sp]
  BY <1>6 DEF Shaped
<1>8. Shaped(n)
  <2>1. n = [free |-> n.free, mem |-> n.mem, cache |-> n.cache, swap |-> n.swap,
             lost |-> n.lost, sp |-> n.sp]
    BY <1>7
  <2>2. n.sp = e.sp
    BY <1>7
  <2> QED BY <2>1, <2>2 DEF Shaped
<1> QED BY <1>1, <1>2, <1>7, <1>8

(* break_cow_page. *)
LEMMA BreakCowWorks ==
  ASSUME NEW s, NEW st, Working(s, st), NEW p \in Pages,
         p \in DOMAIN st.sp.pte, ~st.sp.pte[p].write,
         NEW R \in st.sp.regions, InRegion(R, p), AreaOK(s, R), R.cow,
         NEW q \in BreakCow(st, p)
  PROVE  Working(s, q.st)
<1>1. PICK f : f = st.sp.pte[p].frame
  OBVIOUS
<1>2. PICK r \in AllocOwned(st) :
         q = IF r.f = 0 THEN Failed(r.st)
             ELSE [ok |-> TRUE,
                   st |-> ReleaseCached(SetEntry([r.st EXCEPT !.mem[r.f] = r.st.mem[f]],
                                                 p, r.f, TRUE), f)]
  BY <1>1 DEF BreakCow
<1>3. PICK b : b = r.st
  OBVIOUS
<1>4. PICK g : g = r.f
  OBVIOUS
<1>5. /\ Working(s, b) /\ b.sp.regions = st.sp.regions /\ b.cache = st.cache
      /\ PageKept(b.sp, st.sp, p)
      /\ g # 0 => /\ g \in b.sp.owned
                  /\ ~stale => \A h \in DOMAIN b.sp.pte : b.sp.pte[h].frame # g
  BY <1>2, <1>3, <1>4, AllocOwnedWorks
<1>6. CASE g = 0
  BY <1>2, <1>3, <1>4, <1>5, <1>6 DEF Failed
<1>7. CASE g # 0
  <2>1. Shaped(b)
    BY <1>5, WorkingShaped
  <2>2. PICK c : c = b.mem[f]
    OBVIOUS
  <2>3. PICK a : a = [b EXCEPT !.mem[g] = c]
    OBVIOUS
  <2>4. a = [free |-> b.free, mem |-> [b.mem EXCEPT ![g] = c], cache |-> b.cache,
             swap |-> b.swap, lost |-> b.lost, sp |-> b.sp]
    BY ONLY <2>1, <2>3 DEF Shaped
  <2>5. Shaped(a)
    <3>1. a = [free |-> a.free, mem |-> a.mem, cache |-> a.cache, swap |-> a.swap,
               lost |-> a.lost, sp |-> a.sp]
      BY ONLY <2>4
    <3>2. a.sp = b.sp
      BY ONLY <2>4
    <3> QED BY ONLY <2>1, <3>1, <3>2 DEF Shaped
  <2>t. PICK t : t = TRUE
    OBVIOUS
  <2>6. PICK e : e = SetEntry(a, p, g, t)
    OBVIOUS
  <2>7. /\ Shaped(e)
        /\ e.free = a.free /\ e.mem = a.mem /\ e.cache = a.cache /\ e.swap = a.swap
        /\ e.lost = a.lost
        /\ e.sp = [owned |-> a.sp.owned, tables |-> a.sp.tables \cup {TableOf(p)},
                   regions |-> a.sp.regions,
                   pte |-> With(a.sp.pte, p, [frame |-> g, write |-> t]),
                   swapped |-> a.sp.swapped, next |-> a.sp.next]
    BY <2>5, <2>6, SetEntryFields
  <2>8. PICK cnt : cnt = [h \in Frames |-> IF h = f THEN 1 ELSE 0]
    OBVIOUS
  <2>9. PICK n : n = DropRefs(e, cnt)
    OBVIOUS
  <2>10. q.st = n
    BY <1>2, <1>3, <1>4, <1>7, <2>2, <2>3, <2>6, <2>8, <2>9, <2>t DEF ReleaseCached
  <2>11. /\ Shaped(n)
         /\ n.free = e.free \cup FramesDropped(e.cache, cnt) /\ n.mem = e.mem
         /\ n.cache = CacheAfter(e.cache, cnt) /\ n.swap = e.swap /\ n.lost = e.lost
         /\ n.sp = e.sp
    BY <2>7, <2>9, DropFields
  <2>12. PICK w : w = World(s, b)
    OBVIOUS
  <2>13. PICK v : v = World(s, n)
    OBVIOUS
  <2>14. /\ Inv(w) /\ s \in Spaces /\ IsLive(w.space, s) /\ w.space[s] = b.sp /\ w.stale = stale
         /\ b.sp \in AddressSpaces
    BY <1>5, <2>12, WorkingFields
  <2>15. \A h, y : Maps(w.space, s, h, y) <=> h \in DOMAIN b.sp.pte /\ b.sp.pte[h].frame = y
    BY ONLY <2>14 DEF Maps
  <2>16. Rest(w, v) /\ Replaced(w, v, s, n.sp)
    BY <1>5, <2>12, <2>13, WorldStep
  <2>17. f \in Frames /\ R.write /\ R \in b.sp.regions /\ g \in b.sp.owned
    <3>1. st.sp \in AddressSpaces
      BY DEF Working
    <3>2. f \in Frames
      BY <1>1, <3>1, SpaceFields
    <3>3. R.write
      BY DEF AreaOK
    <3> QED BY <1>5, <1>7, <3>2, <3>3
  <2>18. ASSUME ~w.stale
         PROVE  /\ p \in DOMAIN b.sp.pte /\ f = b.sp.pte[p].frame
                /\ IsCached(w.cache, f) /\ \A h : ~Maps(w.space, s, h, g)
    <3>1. PICK u : u = World(s, st)
      OBVIOUS
    <3>2. Backed(u) /\ s \in Spaces /\ u.space[s] = st.sp /\ Hands(u) /\ IsLive(u.space, s)
      BY <2>14, <2>18, <3>1, WorkingFields
    <3>3. Maps(u.space, s, p, f)
      BY <1>1, <3>2 DEF Maps
    <3>4. IsCached(u.cache, f)
      BY <2>17, <3>2, <3>3 DEF Backed
    <3>5. f \notin st.sp.owned
      BY <2>17, <3>2, <3>4 DEF Hands, IsOwned, Owns
    <3>6. p \in DOMAIN b.sp.pte /\ b.sp.pte[p] = st.sp.pte[p]
      BY <1>1, <1>5, <3>5 DEF PageKept
    <3>7. u.cache = w.cache
      BY <1>5, <2>12, <3>1 DEF World
    <3> QED BY <1>1, <1>5, <1>7, <2>14, <2>15, <2>18, <3>4, <3>6, <3>7
  <2>19. n.sp = [owned |-> b.sp.owned, tables |-> b.sp.tables \cup {TableOf(p)},
                 regions |-> b.sp.regions,
                 pte |-> With(b.sp.pte, p, [frame |-> g, write |-> TRUE]),
                 swapped |-> b.sp.swapped, next |-> b.sp.next]
    BY <2>4, <2>7, <2>11, <2>t
  <2>20. /\ v.free = w.free \cup FramesDropped(w.cache, cnt)
         /\ v.mem = [w.mem EXCEPT ![g] = w.mem[f]]
         /\ v.cache = CacheAfter(w.cache, cnt) /\ v.lost = w.lost /\ v.swap = w.swap
    BY <2>2, <2>4, <2>7, <2>11, <2>12, <2>13 DEF World
  <2>21. CowCopied(w, v, s, b.sp, n.sp, p, f, g, cnt)
    BY <2>8, <2>14, <2>16, <2>17, <2>18, <2>19, <2>20 DEF CowCopied
  <2>22. Inv(v)
    BY <2>14, <2>21, CowKeeps
  <2>23. n.sp \in AddressSpaces
    <3>1. /\ b.sp.owned \subseteq Frames /\ b.sp.tables \subseteq Nat
          /\ b.sp.regions \subseteq Areas /\ b.sp.next \in Nat
          /\ \A h \in DOMAIN b.sp.pte : h \in Pages /\ b.sp.pte[h] \in [frame : Frames, write : BOOLEAN]
      BY <2>14, SpaceFields
    <3>2. With(b.sp.pte, p, [frame |-> g, write |-> TRUE]) \in Tables
      BY <2>17, <3>1, EntryTypes DEF With
    <3>3. b.sp.swapped \in Staged
      BY <2>14 DEF AddressSpaces
    <3>4. TableOf(p) \in Nat
      BY TableOfPage
    <3> QED BY <2>19, <3>1, <3>2, <3>3, <3>4 DEF AddressSpaces
  <2>24. Working(s, n)
    BY <1>5, <2>11, <2>13, <2>22, <2>23, WorkingNext DEF Shaped
  <2> QED BY <2>10, <2>24
<1> QED BY <1>6, <1>7

(* page_cache::acquire, with the frame f for the page x of a file, which   *)
(* has e references now: none, and the record stays in order, or one.      *)
LEMMA AnyContent ==
  ASSUME NEW w, NEW v, Inv(w), Rest(w, v), v.mem \in [Frames -> Contents],
         ~w.stale => v.mem = w.mem,
         v.free = w.free, v.cache = w.cache, v.swap = w.swap, v.lost = w.lost,
         v.space = w.space
  PROVE  Inv(v)
<1>1. CASE ~w.stale
  BY <1>1, FreeContent
<1>2. CASE w.stale
  <2>1. Typed(v)
    BY DEF Inv, Typed, Rest
  <2>2. Hands(v)
    BY DEF Inv, Hands, Rest
  <2>3. SwapKept(v)
    BY DEF Inv, SwapKept, Rest
  <2>4. v.stale
    BY <1>2 DEF Rest
  <2> QED BY <2>1, <2>2, <2>3, <2>4 DEF Inv
<1> QED BY <1>1, <1>2

Acquired(st, x, b, f, e) ==
    /\ Shaped(b) /\ b.sp = st.sp /\ b.swap = st.swap /\ b.lost = st.lost
    /\ b.free = st.free \ {f} /\ f \in Frames
    /\ b.cache = With(st.cache, x, [frame |-> f, refs |-> e]) /\ e \in Nat \ {0}
    /\ \/ /\ f \in st.free /\ x \notin DOMAIN st.cache /\ e = 1
          /\ Cardinality(DOMAIN st.cache) < MaxCachePages
       \/ x \in DOMAIN st.cache /\ f = st.cache[x].frame /\ e = st.cache[x].refs + 1
    /\ b.mem \in [Frames -> Contents]
    /\ \A h \in Frames : h \notin st.free => b.mem[h] = st.mem[h]
    /\ ~stale => b.mem = [st.mem EXCEPT ![f] = x]

LEMMA AcquireHit ==
  ASSUME NEW s, NEW st, Working(s, st), NEW x \in Files, x \in DOMAIN st.cache,
         NEW b, b = [st EXCEPT !.cache[x].refs = @ + 1]
  PROVE  Acquired(st, x, b, st.cache[x].frame, st.cache[x].refs + 1)
<1>1. PICK w : w = World(s, st)
  OBVIOUS
<1>2. PICK f : f = st.cache[x].frame
  OBVIOUS
<1>3. PICK e : e = st.cache[x].refs + 1
  OBVIOUS
<1>4. Typed(w) /\ Hands(w) /\ (~stale => Kept(w)) /\ st.mem \in [Frames -> Contents]
  BY <1>1, WorkingFields
<1>5. w.cache = st.cache /\ w.mem = st.mem /\ w.free = st.free
  BY <1>1 DEF World
<1>6. f \in Frames /\ st.cache[x].refs \in Nat \ {0} /\ IsCached(w.cache, f)
  BY <1>2, <1>4, <1>5, CacheTypes
<1>7. f \notin st.free
  BY <1>4, <1>5, <1>6 DEF Hands
<1>8. st.cache[x] = [frame |-> f, refs |-> st.cache[x].refs]
  <2>1. w.cache[x] \in [frame : Frames, refs : Nat \ {0}]
    BY <1>4, <1>5 DEF Typed
  <2> QED BY <1>2, <1>5, <2>1
<1>9. Shaped(st)
  BY WorkingShaped
<1>10. PICK C : C = [st.cache EXCEPT ![x].refs = @ + 1]
  OBVIOUS
<1>11. C = With(st.cache, x, [frame |-> f, refs |-> e])
  <2>1. PICK c : c = st.cache
    OBVIOUS
  <2>2. PICK m : m = [c[x] EXCEPT !.refs = @ + 1]
    OBVIOUS
  <2>3. m = [frame |-> f, refs |-> e]
    BY ONLY <1>8, <1>3, <2>1, <2>2
  <2>4. C = [c EXCEPT ![x] = m]
    BY ONLY <1>10, <2>1, <2>2
  <2>5. C = [y \in DOMAIN c |-> IF y = x THEN m ELSE c[y]]
    BY ONLY <2>4
  <2>6. DOMAIN c \cup {x} = DOMAIN c
    BY <2>1
  <2>7. With(c, x, m) = [y \in DOMAIN c |-> IF y = x THEN m ELSE c[y]]
    BY ONLY <2>6 DEF With
  <2> QED BY ONLY <2>1, <2>3, <2>5, <2>7
<1>12. b = [st EXCEPT !.cache = C]
  BY <1>10
<1>13. b = [free |-> st.free, mem |-> st.mem, cache |-> C, swap |-> st.swap,
            lost |-> st.lost, sp |-> st.sp]
  BY ONLY <1>9, <1>12 DEF Shaped
<1>14. Shaped(b)
  <2>1. b = [free |-> b.free, mem |-> b.mem, cache |-> b.cache, swap |-> b.swap,
             lost |-> b.lost, sp |-> b.sp]
    BY ONLY <1>13
  <2>2. b.sp = st.sp
    BY ONLY <1>13
  <2> QED BY ONLY <1>9, <2>1, <2>2 DEF Shaped
<1>15. st.free \ {f} = st.free
  BY <1>7
<1>16. ~stale => b.mem = [st.mem EXCEPT ![f] = x]
  <2>1. ASSUME ~stale PROVE st.mem[f] = x
    BY <1>2, <1>4, <1>5, <2>1 DEF Kept
  <2> QED BY <1>4, <1>13, <2>1
<1>17. e \in Nat \ {0}
  BY <1>3, <1>6
<1> QED BY <1>2, <1>3, <1>4, <1>6, <1>11, <1>13, <1>14, <1>15, <1>16, <1>17 DEF Acquired

LEMMA AcquireMiss ==
  ASSUME NEW s, NEW st, Working(s, st), NEW x \in Files, x \notin DOMAIN st.cache,
         st.free # {}, Cardinality(DOMAIN st.cache) < MaxCachePages, NEW f, f = Taken(st),
         NEW b, b = [TakeFrame(st) EXCEPT !.mem[f] = x,
                                          !.cache = With(@, x, [frame |-> f, refs |-> 1])]
  PROVE  Acquired(st, x, b, f, 1)
<1>1. Shaped(st) /\ st.mem \in [Frames -> Contents] /\ st.free \subseteq Frames
  BY WorkingShaped, WorkingFields
<1>2. f \in st.free /\ f \in Frames
  BY <1>1, TakenIsFree
<1>3. PICK t : t = TakeFrame(st)
  OBVIOUS
<1>4. t = [free |-> st.free \ {f}, mem |-> [st.mem EXCEPT ![f] = Zero], cache |-> st.cache,
           swap |-> st.swap, lost |-> st.lost, sp |-> st.sp]
  BY <1>3, TakeFrameFields
<1>5. PICK C : C = With(st.cache, x, [frame |-> f, refs |-> 1])
  OBVIOUS
<1>6. PICK m : m = [st.mem EXCEPT ![f] = Zero]
  OBVIOUS
<1>7. t.cache = st.cache
  BY ONLY <1>4
<1>8. b = [t EXCEPT !.mem[f] = x, !.cache = C]
  BY <1>3, <1>5, <1>7
<1>9. b = [free |-> st.free \ {f}, mem |-> [m EXCEPT ![f] = x], cache |-> C,
           swap |-> st.swap, lost |-> st.lost, sp |-> st.sp]
  BY ONLY <1>4, <1>6, <1>8
<1>10. [m EXCEPT ![f] = x] = [st.mem EXCEPT ![f] = x]
  BY ONLY <1>1, <1>6
<1>11. Shaped(b)
  <2>1. b = [free |-> b.free, mem |-> b.mem, cache |-> b.cache, swap |-> b.swap,
             lost |-> b.lost, sp |-> b.sp]
    BY ONLY <1>9
  <2>2. b.sp = st.sp
    BY ONLY <1>9
  <2> QED BY ONLY <1>1, <2>1, <2>2 DEF Shaped
<1>12. b.mem = [st.mem EXCEPT ![f] = x] /\ x \in Contents
  <2>1. b.mem = [m EXCEPT ![f] = x]
    BY ONLY <1>9
  <2>2. x \in Contents
    BY DEF Contents
  <2> QED BY <2>1, <2>2, <1>10
<1>13. b.mem \in [Frames -> Contents] /\ \A h \in Frames : h # f => b.mem[h] = st.mem[h]
  BY ONLY <1>1, <1>12
<1>14. /\ b.free = st.free \ {f} /\ b.swap = st.swap /\ b.lost = st.lost /\ b.sp = st.sp
       /\ b.cache = With(st.cache, x, [frame |-> f, refs |-> 1])
  <2>1. /\ b.free = st.free \ {f} /\ b.swap = st.swap /\ b.lost = st.lost /\ b.sp = st.sp
        /\ b.cache = C
    BY ONLY <1>9
  <2> QED BY ONLY <1>5, <2>1
<1>15. x \notin DOMAIN st.cache /\ Cardinality(DOMAIN st.cache) < MaxCachePages
  OBVIOUS
<1>16. \A h \in Frames : h \notin st.free => b.mem[h] = st.mem[h]
  BY <1>2, <1>13
<1>17. 1 \in Nat \ {0}
  OBVIOUS
<1> QED BY ONLY <1>2, <1>11, <1>12, <1>13, <1>14, <1>15, <1>16, <1>17 DEF Acquired

(* map_file_page, when it got the frame: the page is mapped, or the        *)
(* reference is dropped again and all is as it was.                        *)
LEMMA AcquiredMapped ==
  ASSUME NEW s, NEW st, Working(s, st), NEW p \in Pages,
         NEW R \in st.sp.regions, InRegion(R, p), AreaOK(s, R), R.kind = "File",
         p \notin DOMAIN st.sp.pte, p \notin DOMAIN st.sp.swapped,
         NEW b, NEW f, NEW e, Acquired(st, R.file, b, f, e),
         NEW t, t = FALSE, NEW n, n = SetEntry(b, p, f, t)
  PROVE  Working(s, n)
<1>1. PICK x : x = R.file
  OBVIOUS
<1>2. /\ Shaped(b) /\ b.sp = st.sp /\ b.swap = st.swap /\ b.lost = st.lost
      /\ b.free = st.free \ {f} /\ f \in Frames
      /\ b.cache = With(st.cache, x, [frame |-> f, refs |-> e]) /\ e \in Nat \ {0}
      /\ \/ /\ f \in st.free /\ x \notin DOMAIN st.cache /\ e = 1
            /\ Cardinality(DOMAIN st.cache) < MaxCachePages
         \/ x \in DOMAIN st.cache /\ f = st.cache[x].frame /\ e = st.cache[x].refs + 1
      /\ b.mem \in [Frames -> Contents]
      /\ ~stale => b.mem = [st.mem EXCEPT ![f] = x]
  BY <1>1 DEF Acquired
<1>3. x \in Files
  BY <1>1 DEF AreaOK
<1>4. /\ Shaped(n)
      /\ n.free = b.free /\ n.mem = b.mem /\ n.cache = b.cache /\ n.swap = b.swap
      /\ n.lost = b.lost
      /\ n.sp = [owned |-> b.sp.owned, tables |-> b.sp.tables \cup {TableOf(p)},
                 regions |-> b.sp.regions,
                 pte |-> With(b.sp.pte, p, [frame |-> f, write |-> t]),
                 swapped |-> b.sp.swapped, next |-> b.sp.next]
  BY <1>2, SetEntryFields
<1>5. PICK w : w = World(s, st)
  OBVIOUS
<1>6. PICK m : m = [free |-> n.free, mem |-> [st.mem EXCEPT ![f] = x], cache |-> n.cache,
                    swap |-> n.swap, lost |-> n.lost, sp |-> n.sp]
  OBVIOUS
<1>7. PICK v : v = World(s, m)
  OBVIOUS
<1>8. /\ Inv(w) /\ s \in Spaces /\ IsLive(w.space, s) /\ w.space[s] = st.sp /\ w.stale = stale
      /\ st.sp \in AddressSpaces
  BY <1>5, WorkingFields
<1>9. Rest(w, v) /\ Replaced(w, v, s, m.sp)
  BY <1>5, <1>7, WorldStep
<1>10. ~w.stale => w.value[s][p] = x
  <2>1. ~stale => value[s][p] = x
    BY <1>1, ToFill
  <2> QED BY <1>5, <1>8, <2>1 DEF World
<1>11. /\ v.free = w.free \ {f} /\ v.mem = [w.mem EXCEPT ![f] = x]
       /\ v.cache = With(w.cache, x, [frame |-> f, refs |-> e])
       /\ v.lost = w.lost /\ v.swap = w.swap /\ w.cache = st.cache /\ w.free = st.free
  BY <1>2, <1>4, <1>5, <1>6, <1>7 DEF World
<1>12. m.sp = [owned |-> st.sp.owned, tables |-> st.sp.tables \cup {TableOf(p)},
               regions |-> st.sp.regions,
               pte |-> With(st.sp.pte, p, [frame |-> f, write |-> FALSE]),
               swapped |-> st.sp.swapped, next |-> st.sp.next]
  BY <1>2, <1>4, <1>6
<1>13. EnteredCached(w, v, s, st.sp, m.sp, p, f, x, e)
  BY <1>2, <1>3, <1>8, <1>9, <1>10, <1>11, <1>12 DEF EnteredCached
<1>14. Inv(v)
  BY <1>8, <1>13, EnterCachedKeeps
<1>15. PICK u : u = World(s, n)
  OBVIOUS
<1>16. /\ Rest(v, u) /\ u.mem \in [Frames -> Contents] /\ (~v.stale => u.mem = v.mem)
       /\ u.free = v.free /\ u.cache = v.cache /\ u.swap = v.swap /\ u.lost = v.lost
       /\ u.space = v.space
  BY <1>2, <1>4, <1>6, <1>7, <1>15 DEF World, Rest
<1>17. Inv(u)
  BY ONLY <1>14, <1>16, AnyContent
<1>18. n.sp \in AddressSpaces
  <2>1. /\ st.sp.owned \subseteq Frames /\ st.sp.tables \subseteq Nat
        /\ st.sp.regions \subseteq Areas /\ st.sp.next \in Nat
        /\ \A h \in DOMAIN st.sp.pte : h \in Pages /\ st.sp.pte[h] \in [frame : Frames, write : BOOLEAN]
    BY <1>8, SpaceFields
  <2>2. With(st.sp.pte, p, [frame |-> f, write |-> FALSE]) \in Tables
    <3>1. PICK z : z = [frame |-> f, write |-> FALSE]
      OBVIOUS
    <3>2. z \in [frame : Frames, write : BOOLEAN]
      BY <1>2, <3>1
    <3>3. With(st.sp.pte, p, z) \in Tables
      BY <2>1, <3>2, EntryTypes DEF With
    <3> QED BY <3>1, <3>3
  <2>3. st.sp.swapped \in Staged
    BY <1>8 DEF AddressSpaces
  <2>4. TableOf(p) \in Nat
    BY TableOfPage
  <2> QED BY <1>6, <1>12, <2>1, <2>2, <2>3, <2>4 DEF AddressSpaces
<1> QED BY <1>4, <1>15, <1>17, <1>18, WorkingNext DEF Shaped

LEMMA AcquiredReleased ==
  ASSUME NEW s, NEW st, Working(s, st), NEW x \in Files,
         NEW b, NEW f, NEW e, Acquired(st, x, b, f, e),
         NEW n, n = ReleaseCached(b, f)
  PROVE  Working(s, n)
<1>1. /\ Shaped(b) /\ b.sp = st.sp /\ b.swap = st.swap /\ b.lost = st.lost
      /\ b.free = st.free \ {f} /\ f \in Frames
      /\ b.cache = With(st.cache, x, [frame |-> f, refs |-> e]) /\ e \in Nat \ {0}
      /\ \/ f \in st.free /\ x \notin DOMAIN st.cache /\ e = 1
         \/ x \in DOMAIN st.cache /\ f = st.cache[x].frame /\ e = st.cache[x].refs + 1
      /\ b.mem \in [Frames -> Contents]
      /\ \A h \in Frames : h \notin st.free => b.mem[h] = st.mem[h]
  BY DEF Acquired
<1>2. PICK cnt : cnt = [h \in Frames |-> IF h = f THEN 1 ELSE 0]
  OBVIOUS
<1>3. n = DropRefs(b, cnt)
  BY <1>2 DEF ReleaseCached
<1>4. /\ Shaped(n)
      /\ n.free = b.free \cup FramesDropped(b.cache, cnt) /\ n.mem = b.mem
      /\ n.cache = CacheAfter(b.cache, cnt) /\ n.swap = b.swap /\ n.lost = b.lost
      /\ n.sp = b.sp
  BY <1>1, <1>3, DropFields
<1>5. PICK w : w = World(s, st)
  OBVIOUS
<1>6. /\ Inv(w) /\ Typed(w) /\ Hands(w) /\ s \in Spaces /\ st.sp \in AddressSpaces
      /\ w.cache = st.cache /\ w.free = st.free
  <2>1. Inv(w) /\ Typed(w) /\ Hands(w) /\ s \in Spaces /\ st.sp \in AddressSpaces
    BY <1>5, WorkingFields
  <2> QED BY <1>5, <2>1 DEF World
<1>7. PICK c : c = b.cache
  OBVIOUS
<1>8. /\ DOMAIN c = DOMAIN st.cache \cup {x}
      /\ c[x].frame = f /\ c[x].refs = e
      /\ \A y \in DOMAIN st.cache : y # x => c[y] = st.cache[y]
  BY <1>1, <1>7 DEF With
<1>9. \A y \in DOMAIN st.cache :
         /\ st.cache[y].frame \in Frames /\ st.cache[y].refs \in Nat \ {0}
         /\ st.cache[y] = [frame |-> st.cache[y].frame, refs |-> st.cache[y].refs]
         /\ y # x => st.cache[y].frame # f
         /\ st.cache[y].frame \notin st.free
  <2>1. \A y \in DOMAIN st.cache :
           /\ st.cache[y].frame \in Frames /\ st.cache[y].refs \in Nat \ {0}
           /\ IsCached(st.cache, st.cache[y].frame)
    BY <1>6, CacheTypes
  <2>2. \A y \in DOMAIN st.cache : st.cache[y] = [frame |-> st.cache[y].frame, refs |-> st.cache[y].refs]
    BY <1>6 DEF Typed
  <2>3. \A y \in DOMAIN st.cache : st.cache[y].frame \notin st.free
    BY <1>6, <2>1 DEF Hands
  <2>4. \A y, z \in DOMAIN st.cache : st.cache[y].frame = st.cache[z].frame => y = z
    BY <1>6 DEF Hands
  <2>5. \A y \in DOMAIN st.cache : y # x => st.cache[y].frame # f
    BY <1>1, <2>3, <2>4
  <2> QED BY <2>1, <2>2, <2>3, <2>5
<1>10. \A y \in DOMAIN st.cache : y # x => c[y].refs - cnt[c[y].frame] = st.cache[y].refs
  <2>1. ASSUME NEW y \in DOMAIN st.cache, y # x
        PROVE  c[y].refs - cnt[c[y].frame] = st.cache[y].refs
    <3>1. c[y] = st.cache[y] /\ st.cache[y].frame \in Frames /\ st.cache[y].frame # f
      BY <1>8, <1>9, <2>1
    <3>2. cnt[c[y].frame] = 0
      BY <1>2, <3>1
    <3>3. PICK k : k = st.cache[y].refs
      OBVIOUS
    <3>4. k \in Nat /\ c[y].refs = k
      BY <1>9, <3>1, <3>3
    <3> QED BY <3>2, <3>3, <3>4
  <2> QED BY <2>1
<1>11. c[x].refs - cnt[c[x].frame] = e - 1
  BY <1>1, <1>2, <1>8
<1>12. KeptPages(c, cnt) = DOMAIN st.cache
  <2>1. ASSUME NEW y \in DOMAIN c, y # x PROVE c[y].refs - cnt[c[y].frame] > 0
    <3>1. PICK k : k = st.cache[y].refs
      OBVIOUS
    <3>2. y \in DOMAIN st.cache
      BY <1>8, <2>1
    <3>3. k \in Nat \ {0} /\ c[y].refs - cnt[c[y].frame] = k
      BY <1>9, <1>10, <2>1, <3>1, <3>2
    <3> QED BY <3>3
  <2>2. ASSUME x \in DOMAIN st.cache PROVE e - 1 > 0
    <3>1. PICK k : k = st.cache[x].refs
      OBVIOUS
    <3>2. k \in Nat \ {0} /\ e = k + 1
      BY <1>1, <1>9, <2>2, <3>1
    <3> QED BY <3>2
  <2>3. x \notin DOMAIN st.cache => ~(e - 1 > 0)
    BY <1>1
  <2> QED BY <1>8, <1>11, <2>1, <2>2, <2>3 DEF KeptPages
<1>13. SameEntries(n.cache, st.cache)
  <2>1. DOMAIN n.cache = DOMAIN st.cache
    BY <1>4, <1>7, <1>12 DEF CacheAfter
  <2>2. ASSUME NEW y \in DOMAIN st.cache PROVE n.cache[y] = st.cache[y]
    <3>1. n.cache[y] = [frame |-> c[y].frame, refs |-> c[y].refs - cnt[c[y].frame]]
      BY <1>4, <1>7, <1>12 DEF CacheAfter
    <3>2. CASE y # x
      <4>1. c[y].frame = st.cache[y].frame /\ c[y].refs - cnt[c[y].frame] = st.cache[y].refs
        BY <1>8, <1>10, <3>2
      <4> QED BY <1>9, <3>1, <4>1
    <3>3. CASE y = x
      <4>1. c[y].frame = st.cache[y].frame /\ e - 1 = st.cache[y].refs
        <5>1. PICK k : k = st.cache[x].refs
          OBVIOUS
        <5>2. k \in Nat \ {0} /\ e = k + 1 /\ f = st.cache[x].frame /\ c[x].frame = f
          BY <1>1, <1>8, <1>9, <3>3, <5>1
        <5>3. e - 1 = k
          BY <5>2
        <5> QED BY <3>3, <5>1, <5>2, <5>3
      <4>2. c[y].refs - cnt[c[y].frame] = st.cache[y].refs
        BY <1>11, <3>3, <4>1
      <4> QED BY <1>9, <3>1, <4>1, <4>2
    <3> QED BY <3>2, <3>3
  <2> QED BY <2>1, <2>2 DEF SameEntries
<1>14. n.free = st.free
  <2>1. n.free = (st.free \ {f}) \cup FramesDropped(c, cnt)
    BY <1>1, <1>4, <1>7
  <2>2. CASE x \in DOMAIN st.cache
    <3>1. FramesDropped(c, cnt) = {}
      BY <1>8, <1>12, <2>2 DEF FramesDropped
    <3>2. f \notin st.free
      BY <1>1, <1>9, <2>2
    <3> QED BY <2>1, <3>1, <3>2
  <2>3. CASE x \notin DOMAIN st.cache
    <3>1. FramesDropped(c, cnt) = {f}
      BY <1>8, <1>12, <2>3 DEF FramesDropped
    <3>2. f \in st.free
      BY <1>1, <2>3
    <3> QED BY <2>1, <3>1, <3>2
  <2> QED BY <2>2, <2>3
<1>15. PICK m : m = [free |-> st.free, mem |-> n.mem, cache |-> st.cache,
                     swap |-> st.swap, lost |-> st.lost, sp |-> st.sp]
  OBVIOUS
<1>16. PICK v : v = World(s, m)
  OBVIOUS
<1>17. /\ Rest(w, v) /\ v.mem \in [Frames -> Contents]
       /\ \A h \in Frames : h \notin w.free => v.mem[h] = w.mem[h]
       /\ v.free = w.free /\ v.cache = w.cache /\ v.swap = w.swap /\ v.lost = w.lost
       /\ v.space = w.space
  BY <1>1, <1>4, <1>5, <1>15, <1>16 DEF World, Rest
<1>18. Inv(v)
  BY ONLY <1>6, <1>17, FreeContent
<1>19. PICK u : u = World(s, n)
  OBVIOUS
<1>20. /\ Rest(v, u) /\ u.mem = v.mem /\ u.free = v.free /\ u.lost = v.lost
       /\ u.space = v.space /\ SameEntries(u.cache, v.cache) /\ SameEntries(u.swap, v.swap)
  BY <1>1, <1>4, <1>13, <1>14, <1>15, <1>16, <1>19 DEF World, Rest, SameEntries
<1>21. Inv(u)
  BY ONLY <1>18, <1>20, EntriesMatter
<1> QED BY <1>1, <1>4, <1>6, <1>19, <1>21, WorkingNext DEF Shaped

(* The file is gone: the frame that was taken is lost. *)
LEMMA AcquireUnreadable ==
  ASSUME NEW s, NEW st, Working(s, st), st.free # {}, NEW f, f = Taken(st),
         NEW n, n = [TakeFrame(st) EXCEPT !.lost = @ \cup {f}]
  PROVE  Working(s, n)
<1>1. Shaped(st) /\ st.mem \in [Frames -> Contents] /\ st.free \subseteq Frames
  BY WorkingShaped, WorkingFields
<1>2. f \in st.free
  BY <1>1, TakenIsFree
<1>3. PICK t : t = TakeFrame(st)
  OBVIOUS
<1>4. t = [free |-> st.free \ {f}, mem |-> [st.mem EXCEPT ![f] = Zero], cache |-> st.cache,
           swap |-> st.swap, lost |-> st.lost, sp |-> st.sp]
  BY <1>3, TakeFrameFields
<1>5. n = [t EXCEPT !.lost = @ \cup {f}]
  BY <1>3
<1>6. n = [free |-> st.free \ {f}, mem |-> [st.mem EXCEPT ![f] = Zero], cache |-> st.cache,
           swap |-> st.swap, lost |-> st.lost \cup {f}, sp |-> st.sp]
  BY ONLY <1>4, <1>5
<1>7. /\ n.free = st.free \ {f} /\ n.mem = [st.mem EXCEPT ![f] = Zero]
      /\ n.cache = st.cache /\ n.swap = st.swap /\ n.lost = st.lost \cup {f} /\ n.sp = st.sp
      /\ n = [free |-> n.free, mem |-> n.mem, cache |-> n.cache, swap |-> n.swap,
              lost |-> n.lost, sp |-> n.sp]
  BY ONLY <1>6
<1>8. PICK w : w = World(s, st)
  OBVIOUS
<1>9. PICK v : v = World(s, n)
  OBVIOUS
<1>10. Inv(w) /\ st.sp \in AddressSpaces
  BY <1>8, WorkingFields
<1>11. /\ f \in w.free /\ Rest(w, v) /\ v.space = w.space
       /\ v.free = w.free \ {f} /\ v.lost = w.lost \cup {f} /\ v.mem = [w.mem EXCEPT ![f] = Zero]
       /\ v.cache = w.cache /\ v.swap = w.swap
  BY <1>2, <1>7, <1>8, <1>9 DEF World, Rest
<1>12. Inv(v)
  BY ONLY <1>10, <1>11, LoseKeeps
<1> QED BY <1>7, <1>9, <1>10, <1>12, WorkingNext

(* map_file_page. *)
LEMMA MapFileWorks ==
  ASSUME NEW s, NEW st, Working(s, st), NEW p \in Pages,
         NEW R \in st.sp.regions, InRegion(R, p), AreaOK(s, R), R.kind = "File",
         p \notin DOMAIN st.sp.pte, p \notin DOMAIN st.sp.swapped,
         NEW q \in MapFile(st, p, R)
  PROVE  Working(s, q.st)
<1>1. PICK x : x = R.file
  OBVIOUS
<1>2. x \in Files
  BY <1>1 DEF AreaOK
<1>3. PICK t : t = (R.write /\ ~R.cow)
  OBVIOUS
<1>4. t = FALSE
  BY <1>3 DEF AreaOK
<1>5. PICK a : a = Acquire(st, x)
  OBVIOUS
<1>6. q \in IF a.f = 0 THEN {Failed(a.st)}
            ELSE {IF z.ok THEN z ELSE Failed(ReleaseCached(z.st, a.f)) :
                  z \in MapPage(a.st, p, a.f, t)}
  BY <1>1, <1>3, <1>5 DEF MapFile
<1>7. ASSUME NEW b, NEW f, NEW e, Acquired(st, x, b, f, e), a = [f |-> f, st |-> b]
      PROVE  Working(s, q.st)
  <2>1. f # 0 /\ b.sp = st.sp
    BY <1>7, Bounds DEF Acquired, Frames
  <2>2. PICK z \in MapPage(b, p, f, t) : q = IF z.ok THEN z ELSE Failed(ReleaseCached(z.st, f))
    BY <1>6, <1>7, <2>1
  <2>3. p \notin DOMAIN b.sp.pte
    BY <2>1
  <2>4. CASE z.ok
    <3>1. PICK n : n = SetEntry(b, p, f, t)
      OBVIOUS
    <3>2. q.st = n
      BY <2>2, <2>3, <2>4, <3>1, MapPageOutcomes
    <3>3. Acquired(st, R.file, b, f, e)
      BY <1>1, <1>7
    <3>4. Working(s, n)
      BY <1>4, <3>1, <3>3, AcquiredMapped
    <3> QED BY <3>2, <3>4
  <2>5. CASE ~z.ok
    <3>1. z.st = b
      BY <2>2, <2>3, <2>5, MapPageOutcomes
    <3>2. PICK n : n = ReleaseCached(b, f)
      OBVIOUS
    <3>3. q.st = n
      BY <2>2, <2>5, <3>1, <3>2 DEF Failed
    <3>4. Working(s, n)
      BY <1>2, <1>7, <3>2, AcquiredReleased
    <3> QED BY <3>3, <3>4
  <2> QED BY <2>4, <2>5
<1>8. CASE x \in DOMAIN st.cache
  <2>1. PICK b : b = [st EXCEPT !.cache[x].refs = @ + 1]
    OBVIOUS
  <2>2. a = [f |-> st.cache[x].frame, st |-> b]
    BY <1>5, <1>8, <2>1 DEF Acquire
  <2>3. Acquired(st, x, b, st.cache[x].frame, st.cache[x].refs + 1)
    BY <1>2, <1>8, <2>1, AcquireHit
  <2> QED BY <1>7, <2>2, <2>3
<1>9. CASE x \notin DOMAIN st.cache /\ (\/ Cardinality(DOMAIN st.cache) >= MaxCachePages
                                        \/ st.free = {})
  <2>1. a = [f |-> 0, st |-> st]
    BY <1>5, <1>9 DEF Acquire
  <2> QED BY <1>6, <2>1 DEF Failed
<1>10. CASE x \notin DOMAIN st.cache /\ st.free # {}
            /\ ~(Cardinality(DOMAIN st.cache) >= MaxCachePages)
  <2>1. PICK f : f = Taken(st)
    OBVIOUS
  <2>2. CASE x \in readable
    <3>1. PICK b : b = [TakeFrame(st) EXCEPT !.mem[f] = x,
                                             !.cache = With(@, x, [frame |-> f, refs |-> 1])]
      OBVIOUS
    <3>2. a = [f |-> f, st |-> b]
      BY <1>5, <1>10, <2>1, <2>2, <3>1 DEF Acquire
    <3>3. Cardinality(DOMAIN st.cache) < MaxCachePages
      <4>1. PICK w : w = World(s, st)
        OBVIOUS
      <4>2. Typed(w) /\ w.cache = st.cache
        <5>1. Typed(w)
          BY <4>1, WorkingFields
        <5> QED BY <4>1, <5>1 DEF World
      <4>3. Cardinality(DOMAIN st.cache) \in Nat
        BY <4>2, FS_CardinalityType DEF Typed
      <4> QED BY <1>10, <4>3, MemoryAssumption
    <3>4. Acquired(st, x, b, f, 1)
      BY <1>2, <1>10, <2>1, <3>1, <3>3, AcquireMiss
    <3> QED BY <1>7, <3>2, <3>4
  <2>3. CASE x \notin readable
    <3>1. PICK n : n = [TakeFrame(st) EXCEPT !.lost = @ \cup {f}]
      OBVIOUS
    <3>2. a = [f |-> 0, st |-> n]
      BY <1>5, <1>10, <2>1, <2>3, <3>1 DEF Acquire
    <3>3. q.st = n
      BY <1>6, <3>2 DEF Failed
    <3>4. Working(s, n)
      BY <1>10, <2>1, <3>1, AcquireUnreadable
    <3> QED BY <3>3, <3>4
  <2> QED BY <2>2, <2>3
<1> QED BY <1>8, <1>9, <1>10

LEMMA ResolveWorks ==
  ASSUME NEW s, NEW st, Working(s, st), NEW p \in Pages, NEW write \in BOOLEAN,
         \E r \in st.sp.regions : InRegion(r, p),
         Mapped(st.sp, p) => write /\ ~st.sp.pte[p].write,
         NEW q \in Resolve(st, p, write)
  PROVE  Working(s, q.st)
<1>1. PICK R : R = RegionOf(st.sp, p)
  OBVIOUS
<1>2. R \in st.sp.regions /\ InRegion(R, p) /\ AreaOK(s, R)
  BY <1>1, RegionOfPage
<1>3. CASE Mapped(st.sp, p)
  <2>1. q \in BreakCow(st, p) /\ R.cow
    BY <1>1, <1>3 DEF Resolve
  <2> QED BY <1>2, <1>3, <2>1, BreakCowWorks DEF Mapped
<1>4. CASE ~Mapped(st.sp, p) /\ write /\ ~R.write
  BY <1>1, <1>4 DEF Resolve
<1>5. CASE ~Mapped(st.sp, p) /\ (write => R.write) /\ Swapped(st.sp, p)
  <2>1. q \in Restore(st, p, R.write)
    BY <1>1, <1>5 DEF Resolve
  <2> QED BY <1>2, <1>5, <2>1, RestoreWorks DEF Mapped, Swapped
<1>6. CASE ~Mapped(st.sp, p) /\ (write => R.write) /\ ~Swapped(st.sp, p)
  <2>1. q \in CASE R.kind = "File" -> MapFile(st, p, R)
                [] R.kind = "Anon" -> MapZeroed(st, p, R.write)
                [] OTHER -> {}
    BY <1>1, <1>6 DEF Resolve
  <2>2. p \notin DOMAIN st.sp.pte /\ p \notin DOMAIN st.sp.swapped
    BY <1>6 DEF Mapped, Swapped
  <2>3. CASE R.kind = "File"
    BY <1>2, <2>1, <2>2, <2>3, MapFileWorks
  <2>4. CASE R.kind = "Anon"
    BY <1>2, <2>1, <2>2, <2>4, MapZeroedWorks
  <2> QED BY <2>1, <2>3, <2>4
<1> QED BY <1>3, <1>4, <1>5, <1>6

-----------------------------------------------------------------------------
(* The actions.  A record in order stands for the next state; the content  *)
(* of its free frames does not matter.                                     *)
Stands(w) ==
    /\ w.free = free' /\ w.cache = cache' /\ w.swap = swap' /\ w.lost = lost'
    /\ w.space = space' /\ w.surface = surface' /\ w.creating = creating'
    /\ w.value = value' /\ w.stale = stale'
    /\ mem' \in [Frames -> Contents] /\ \A f \in Frames : f \notin w.free => mem'[f] = w.mem[f]

LEMMA Settle ==
  ASSUME NEW w, Inv(w), Stands(w)
  PROVE  IInv'
<1>1. PICK v : v = Now'
  OBVIOUS
<1>2. /\ Rest(w, v) /\ v.mem \in [Frames -> Contents]
      /\ \A f \in Frames : f \notin w.free => v.mem[f] = w.mem[f]
      /\ v.free = w.free /\ v.cache = w.cache /\ v.swap = w.swap /\ v.lost = w.lost
      /\ v.space = w.space
  BY <1>1 DEF Stands, Now, Rest
<1>3. Inv(v)
  BY <1>2, FreeContent
<1> QED BY <1>1, <1>3 DEF IInv

LEMMA Abandons ==
  ASSUME NEW c \in [Frames -> Contents], NEW S
  PROVE  /\ Abandoned(c, S) \in [Frames -> Contents]
         /\ \A f \in Frames : f \notin S => Abandoned(c, S)[f] = c[f]
BY DEF Abandoned, Contents

LEMMA CommitWorks ==
  ASSUME NEW s, NEW st, Working(s, st), Commit(s, st),
         UNCHANGED <<surface, creating, value, stale>>
  PROVE  IInv'
<1>1. PICK w : w = World(s, st)
  OBVIOUS
<1>2. Inv(w) /\ st.mem \in [Frames -> Contents]
  BY <1>1, WorkingFields
<1>3. mem' = Abandoned(st.mem, st.free)
  BY DEF Commit
<1>4. mem' \in [Frames -> Contents] /\ \A f \in Frames : f \notin w.free => mem'[f] = w.mem[f]
  BY <1>1, <1>2, <1>3, Abandons DEF World
<1>5. Stands(w)
  BY <1>1, <1>4 DEF Stands, World, Commit
<1> QED BY <1>2, <1>5, Settle

LEMMA PageFaultKeeps ==
  ASSUME IInv, NEW s \in Spaces, NEW p \in Pages, NEW write \in BOOLEAN, PageFault(s, p, write)
  PROVE  IInv'
<1>1. PICK st : st = State(s)
  OBVIOUS
<1>2. /\ space[s] # NoSpace /\ st.sp = space[s]
      /\ \E r \in st.sp.regions : InRegion(r, p)
      /\ Mapped(st.sp, p) => write /\ ~st.sp.pte[p].write
      /\ UNCHANGED <<surface, creating, value, stale>>
  BY <1>1 DEF PageFault, State
<1>3. PICK q \in Resolve(st, p, write) : Commit(s, q.st)
  BY <1>1 DEF PageFault
<1>4. Working(s, st)
  BY <1>1, <1>2, StateWorks
<1>5. Working(s, q.st)
  BY <1>2, <1>3, <1>4, ResolveWorks
<1> QED BY <1>2, <1>3, <1>5, CommitWorks

LEMMA StoreStepKeeps ==
  ASSUME IInv, ~stale, NEW s \in Spaces, NEW p \in Pages, Store(s, p)
  PROVE  IInv'
<1>1. PICK f : f = space[s].pte[p].frame
  OBVIOUS
<1>2. PICK w : w = Now
  OBVIOUS
<1>3. PICK v : v = [free |-> free, mem |-> [mem EXCEPT ![f] = s], cache |-> cache,
                    swap |-> swap, lost |-> lost, space |-> space, surface |-> surface,
                    creating |-> creating, value |-> [value EXCEPT ![s][p] = s], stale |-> stale]
  OBVIOUS
<1>4. Maps(w.space, s, p, f) /\ w.space[s].pte[p].write
  BY <1>1, <1>2 DEF Store, Mapped, Maps, IsLive, Now
<1>5. Stored(w, v, s, p, f)
  BY <1>2, <1>3, <1>4 DEF Stored, Now
<1>6. Inv(w)
  BY <1>2 DEF IInv
<1>7. Inv(v)
  BY <1>5, <1>6, StoreKeeps
<1>8. mem' = Abandoned([mem EXCEPT ![f] = s], free)
  BY <1>1 DEF Store
<1>9. [mem EXCEPT ![f] = s] \in [Frames -> Contents]
  <2>1. v.mem \in [Frames -> Contents]
    BY <1>7 DEF Inv, Typed
  <2> QED BY <1>3, <2>1
<1>10. mem' \in [Frames -> Contents] /\ \A g \in Frames : g \notin v.free => mem'[g] = v.mem[g]
  BY <1>3, <1>8, <1>9, Abandons
<1>11. Stands(v)
  BY Zenon, <1>3, <1>10 DEF Stands, Store
<1> QED BY <1>7, <1>11, Settle

LEMMA CreateKeeps ==
  ASSUME IInv, NEW s \in Spaces, Create(s)
  PROVE  IInv'
<1>1. PICK w : w = Now
  OBVIOUS
<1>2. PICK v : v = [Now EXCEPT !.space = [space EXCEPT ![s] = NewSpace]]
  OBVIOUS
<1>3. /\ v.free = free /\ v.mem = mem /\ v.cache = cache /\ v.swap = swap /\ v.lost = lost
      /\ v.surface = surface /\ v.creating = creating /\ v.value = value /\ v.stale = stale
      /\ v.space = [space EXCEPT ![s] = NewSpace]
  BY <1>2 DEF Now
<1>4. Inv(w) /\ Typed(w) /\ (~stale => Kept(w))
  BY <1>1, NowTyped DEF IInv
<1>5. space[s] = NoSpace
  BY DEF Create
<1>6. creating[s] = 0
  BY <1>1, <1>4, <1>5 DEF Typed, IsLive, Now
<1>7. value \in [Spaces -> [Pages -> Contents]] /\ (~stale => \A p \in Pages : value[s][p] = Zero)
  BY <1>1, <1>4, <1>5 DEF Typed, Kept, IsLive, Now
<1>8. w.free \cup {} = w.free
  OBVIOUS
<1>9. Switched(w, v, s, NewSpace, {})
  BY <1>1, <1>3, <1>5, <1>6, <1>7, <1>8 DEF Switched, Replaced, Now
<1>10. Inv(v)
  BY <1>4, <1>9, SwitchKeeps
<1>11. mem \in [Frames -> Contents]
  BY NowTyped
<1>12. Stands(v)
  BY <1>3, <1>11 DEF Stands, Create
<1> QED BY <1>10, <1>12, Settle

LEMMA SurfaceDestroyKeeps ==
  ASSUME IInv, NEW s \in Spaces, NEW i, SurfaceDestroy(s, i)
  PROVE  IInv'
<1>1. PICK w : w = Now
  OBVIOUS
<1>2. PICK fr : fr = SurfaceFrames(i)
  OBVIOUS
<1>3. PICK v : v = [free |-> free \cup fr, mem |-> mem, cache |-> cache, swap |-> swap,
                    lost |-> lost, space |-> space, surface |-> Without(surface, i),
                    creating |-> creating, value |-> value,
                    stale |-> (stale \/ fr \cap FramesMapped # {})]
  OBVIOUS
<1>4. Inv(w) /\ Typed(w) /\ mem \in [Frames -> Contents]
  BY <1>1, NowTyped DEF IInv
<1>5. /\ creating[s] = 0 /\ i \in DOMAIN surface /\ surface[i].owner = s
      /\ surface' = Without(surface, i) /\ free' = free \cup fr
      /\ mem' = Abandoned(mem, fr) /\ stale' = (stale \/ fr \cap FramesMapped # {})
      /\ UNCHANGED <<space, cache, swap, creating, value, lost>>
  BY <1>2 DEF SurfaceDestroy, FreeSurface
<1>6. \A t \in Spaces : creating[t] # i
  <2>1. ASSUME NEW t \in Spaces, creating[t] = i PROVE FALSE
    <3>1. i # 0
      BY <1>1, <1>4, <1>5, Bounds DEF Typed, Now
    <3>2. surface[i].owner = t
      BY <1>1, <1>4, <2>1, <3>1 DEF Typed, Now
    <3> QED BY <1>5, <2>1, <3>1, <3>2
  <2> QED BY <2>1
<1>7. stale \in BOOLEAN /\ v.stale \in BOOLEAN
  BY <1>1, <1>3, <1>4 DEF Typed, Now
<1>8. ASSUME ~v.stale
      PROVE  ~w.stale /\ \A t \in Spaces, q \in Pages, f \in fr : ~Maps(w.space, t, q, f)
  <2>1. ~stale /\ fr \cap FramesMapped = {}
    BY <1>3, <1>8
  <2>2. \A t \in Spaces : \A q, f : Maps(space, t, q, f) => f \in FramesMapped
    BY DEF Maps, IsLive, FramesMapped
  <2> QED BY <1>1, <2>1, <2>2 DEF Now
<1>9. SurfaceFreed(w, v, s, i, fr)
  BY <1>1, <1>2, <1>3, <1>5, <1>6, <1>7, <1>8 DEF SurfaceFreed, SurfaceFrames, Now
<1>10. Inv(v)
  BY <1>4, <1>9, SurfaceFreeKeeps
<1>11. mem' \in [Frames -> Contents] /\ \A g \in Frames : g \notin v.free => mem'[g] = v.mem[g]
  BY <1>3, <1>4, <1>5, Abandons
<1>12. Stands(v)
  BY <1>3, <1>5, <1>11 DEF Stands
<1> QED BY <1>10, <1>12, Settle

LEMMA AllocSurfaceKeeps ==
  ASSUME IInv, NEW s \in Spaces, NEW n \in 1 .. MaxRegion, AllocSurface(s, n)
  PROVE  IInv'
<1>1. PICK w : w = Now
  OBVIOUS
<1>2. PICK i : i = Min(FreeSlots)
  OBVIOUS
<1>15. PICK fs \in Lowest(n) :
          LET taken == {fs[k] : k \in 1 .. n}
          IN  /\ surface' = With(surface, i, [owner |-> s, frames |-> fs])
              /\ free' = free \ taken
              /\ mem' = [f \in Frames |-> IF f \in taken THEN Zero ELSE mem[f]]
  BY <1>2 DEF AllocSurface
<1>14. PICK taken : taken = {fs[k] : k \in 1 .. n}
  OBVIOUS
<1>3. /\ fs \in Lowest(n) /\ taken = {fs[k] : k \in 1 .. n}
      /\ surface' = With(surface, i, [owner |-> s, frames |-> fs])
      /\ free' = free \ taken
      /\ mem' = [f \in Frames |-> IF f \in taken THEN Zero ELSE mem[f]]
  BY <1>15, <1>14
<1>4. /\ space[s] # NoSpace /\ creating[s] = 0 /\ FreeSlots # {}
      /\ creating' = [creating EXCEPT ![s] = i]
      /\ UNCHANGED <<space, cache, swap, value, stale, lost>>
  BY <1>2 DEF AllocSurface
<1>5. i \in Surfaces \ DOMAIN surface
  BY <1>2, <1>4, MinIsLeast, Bounds DEF FreeSlots
<1>6. Inv(w) /\ mem \in [Frames -> Contents] /\ free \subseteq Frames
  BY <1>1, NowTyped DEF IInv
<1>7. fs \in [1 .. n -> free] /\ \A j, k \in 1 .. n : fs[j] = fs[k] => j = k
  <2>1. fs \in [1 .. n -> free] /\ \A j, k \in 1 .. n : j < k => fs[j] < fs[k]
    BY <1>3 DEF Lowest
  <2>2. \A k \in 1 .. n : fs[k] \in Nat
    BY <1>6, <2>1, Bounds
  <2>3. \A j, k \in 1 .. n : j = k \/ j < k \/ k < j
    OBVIOUS
  <2>4. ASSUME NEW j \in 1 .. n, NEW k \in 1 .. n, fs[j] = fs[k], j < k PROVE FALSE
    <3>1. fs[j] < fs[k]
      BY <2>1, <2>4
    <3> QED BY <2>2, <2>4, <3>1
  <2> QED BY <2>1, <2>3, <2>4
<1>8. PICK v : v = [free |-> free', mem |-> mem', cache |-> cache, swap |-> swap,
                    lost |-> lost, space |-> space, surface |-> surface',
                    creating |-> creating', value |-> value, stale |-> stale]
  OBVIOUS
<1>9. SurfaceTaken(w, v, s, i, fs, n, taken)
  BY <1>1, <1>3, <1>4, <1>5, <1>7, <1>8 DEF SurfaceTaken, Now
<1>10. IsLive(w.space, s)
  BY <1>1, <1>4 DEF IsLive, Now
<1>11. Inv(v)
  BY <1>6, <1>9, <1>10, SurfaceTakeKeeps
<1>12. mem' \in [Frames -> Contents] /\ v.mem = mem'
  BY <1>3, <1>6, <1>8 DEF Contents
<1>13. Stands(v)
  BY <1>4, <1>8, <1>12 DEF Stands
<1> QED BY <1>11, <1>13, Settle

(* The mappings: a region behind all others. *)
LEMMA ReserveFields ==
  ASSUME NEW sp \in AddressSpaces, NEW r, NEW n
  PROVE  /\ n = Reserve(sp, r) =>
               n = [owned |-> sp.owned, tables |-> sp.tables, regions |-> sp.regions,
                    pte |-> sp.pte, swapped |-> sp.swapped, next |-> r.end]
         /\ n = AddRegion(sp, r) =>
               n = [owned |-> sp.owned, tables |-> sp.tables, regions |-> sp.regions \cup {r},
                    pte |-> sp.pte, swapped |-> sp.swapped, next |-> r.end]
<1>1. sp = [owned |-> sp.owned, tables |-> sp.tables, regions |-> sp.regions,
            pte |-> sp.pte, swapped |-> sp.swapped, next |-> sp.next]
  BY SpaceFields
<1>2. PICK e : e = r.end
  OBVIOUS
<1>3. PICK m : m = Reserve(sp, r)
  OBVIOUS
<1>4. m = [owned |-> sp.owned, tables |-> sp.tables, regions |-> sp.regions,
           pte |-> sp.pte, swapped |-> sp.swapped, next |-> e]
  BY <1>1, <1>2, <1>3 DEF Reserve
<1>5. ASSUME n = AddRegion(sp, r)
      PROVE  n = [owned |-> sp.owned, tables |-> sp.tables, regions |-> sp.regions \cup {r},
                  pte |-> sp.pte, swapped |-> sp.swapped, next |-> e]
  <2>1. n = [m EXCEPT !.regions = @ \cup {r}]
    BY <1>3, <1>5 DEF AddRegion
  <2> QED BY ONLY <1>4, <2>1
<1> QED BY <1>2, <1>3, <1>4, <1>5

LEMMA RegionOK ==
  ASSUME NEW s \in Spaces, NEW sp, SpaceOK(s, sp), NEW len \in Nat \ {0},
         sp.next + len - 1 <= NPages[s],
         NEW kind \in {"Anon", "File", "Surface"}, NEW wr \in BOOLEAN, NEW cow \in BOOLEAN,
         NEW file \in Files \cup {0},
         kind = "File" => file \in Files /\ cow = wr, kind # "File" => wr /\ ~cow,
         NEW r, r = Region(sp.next, len, kind, wr, cow, file)
  PROVE  /\ AreaOK(s, r) /\ r \in Areas /\ r.start = sp.next /\ r.end = sp.next + len
         /\ r.kind = kind /\ r.file = file
<1>1. PICK a : a = sp.next
  OBVIOUS
<1>2. PICK b : b = a + len
  OBVIOUS
<1>3. a \in Nat \ {0} /\ b \in Nat /\ a < b /\ b - 1 <= NPages[s] /\ 1 <= a
  BY <1>1, <1>2, MemoryAssumption DEF SpaceOK
<1>4. r = [start |-> a, end |-> b, kind |-> kind, write |-> wr, cow |-> cow, file |-> file]
  BY <1>1, <1>2 DEF Region
<1>5. /\ r.start = a /\ r.end = b /\ r.kind = kind /\ r.file = file
      /\ r.write = wr /\ r.cow = cow
  BY <1>4
<1>6. r \in Areas
  BY <1>3, <1>4 DEF Areas
<1>7. AreaOK(s, r)
  BY <1>3, <1>5, <1>6 DEF AreaOK
<1> QED BY <1>1, <1>2, <1>5, <1>6, <1>7

LEMMA MapKeeps ==
  ASSUME IInv, NEW s \in Spaces, space[s] # NoSpace, NEW r, NEW c \in Contents,
         AreaOK(s, r), r.start = space[s].next,
         r.kind = "Anon" => c = Zero, r.kind = "File" => c = r.file,
         Map(s, r, c)
  PROVE  IInv'
<1>1. PICK w : w = Now
  OBVIOUS
<1>2. PICK sp : sp = space[s]
  OBVIOUS
<1>3. Inv(w) /\ IsLive(w.space, s) /\ Typed(w) /\ mem \in [Frames -> Contents]
      /\ w.space[s] = sp
  BY <1>1, <1>2, NowTyped DEF IInv, IsLive, Now
<1>4. sp \in AddressSpaces /\ SpaceOK(s, sp)
  BY <1>3, Here
<1>5. PICK v : v = [Now EXCEPT !.space = space', !.value = value']
  OBVIOUS
<1>6. /\ v.free = free /\ v.mem = mem /\ v.cache = cache /\ v.swap = swap /\ v.lost = lost
      /\ v.surface = surface /\ v.creating = creating /\ v.value = value' /\ v.stale = stale
      /\ v.space = space'
  BY <1>5 DEF Now
<1>7. UNCHANGED <<free, mem, cache, swap, surface, creating, stale, lost>>
  BY DEF Map
<1>8. /\ r \in Areas /\ r.end \in Nat /\ sp.next <= r.end /\ r.start = sp.next
      /\ \A p \in Pages : InRegion(r, p) <=> sp.next <= p /\ p < r.end
  BY <1>2 DEF AreaOK, Areas, InRegion
<1>9. value \in [Spaces -> [Pages -> Contents]]
  BY <1>1, <1>3 DEF Typed, Now
<1>10. /\ v.free = w.free /\ v.mem = w.mem /\ v.cache = w.cache /\ v.lost = w.lost
       /\ v.swap = w.swap /\ v.surface = w.surface /\ v.creating = w.creating
       /\ v.stale = w.stale /\ w.space = space /\ w.value = value
  BY <1>1, <1>6 DEF Now
<1>11. CASE CanRegister(sp, r)
  <2>1. PICK n : n = AddRegion(sp, r)
    OBVIOUS
  <2>2. n = [owned |-> sp.owned, tables |-> sp.tables, regions |-> sp.regions \cup {r},
             pte |-> sp.pte, swapped |-> sp.swapped, next |-> r.end]
    BY <1>4, <2>1, ReserveFields
  <2>3. /\ space' = [space EXCEPT ![s] = n]
        /\ value' = [value EXCEPT ![s] =
                       [p \in Pages |-> IF InRegion(r, p) THEN c ELSE value[s][p]]]
    BY <1>2, <1>11, <2>1 DEF Map
  <2>4. value' \in [Spaces -> [Pages -> Contents]]
    BY <1>9, <2>3
  <2>5. /\ \A p \in Pages : InRegion(r, p) => value'[s][p] = c
        /\ \A p \in Pages : ~InRegion(r, p) => value'[s][p] = value[s][p]
        /\ \A t \in Spaces : t # s => value'[t] = value[t]
    BY <1>9, <2>3
  <2>6. \A p \in Pages : InRegion(r, p) =>
           /\ r.kind = "File" => v.value[s][p] = r.file
           /\ r.kind = "Anon" => v.value[s][p] = Zero
    BY <1>6, <2>5
  <2>7. \A t \in Spaces, p \in Pages :
           t # s \/ p < sp.next \/ p >= r.end => v.value[t][p] = w.value[t][p]
    <3>1. ASSUME NEW p \in Pages, p < sp.next \/ p >= r.end PROVE ~InRegion(r, p)
      <4>1. PICK a, b : a = sp.next /\ b = r.end
        OBVIOUS
      <4>2. a \in Nat /\ b \in Nat /\ p \in Nat
        BY <1>4, <1>8, <4>1, Bounds DEF SpaceOK
      <4>3. p < a \/ p >= b
        BY <3>1, <4>1
      <4>4. InRegion(r, p) => a <= p /\ p < b
        BY <1>8, <4>1
      <4> QED BY ONLY <4>2, <4>3, <4>4
    <3> QED BY <1>6, <1>10, <2>5, <3>1
  <2>8. Cardinality(sp.regions) < MaxVmAreas
    BY <1>11 DEF CanRegister
  <2>9. Replaced(w, v, s, n)
    BY <1>6, <1>10, <2>3 DEF Replaced
  <2>10. v.value \in [Spaces -> [Pages -> Contents]]
    BY <1>6, <2>4
  <2>11. Extended(w, v, s, sp, n, sp.regions \cup {r}, r, r.end)
    <3>1. AreaOK(s, r)
      OBVIOUS
    <3>2. PICK R, e : R = sp.regions \cup {r} /\ e = r.end
      OBVIOUS
    <3>3. /\ R = sp.regions \cup {r} /\ AreaOK(s, r) /\ r.end = e
          /\ Cardinality(sp.regions) < MaxVmAreas
          /\ ~w.stale => \A p \in Pages : InRegion(r, p) =>
                /\ r.kind = "File" => v.value[s][p] = r.file
                /\ r.kind = "Anon" => v.value[s][p] = Zero
      <4>1. ~w.stale => \A p \in Pages : InRegion(r, p) =>
                /\ r.kind = "File" => v.value[s][p] = r.file
                /\ r.kind = "Anon" => v.value[s][p] = Zero
        BY ONLY <2>6, Zenon
      <4>2. r.end = e
        BY <3>2
      <4> QED BY ONLY <2>8, <3>1, <3>2, <4>1, <4>2, Zenon
    <3>4. /\ sp = w.space[s] /\ e \in Nat /\ sp.next <= e /\ r \in Areas /\ r.start = sp.next
          /\ n = [owned |-> sp.owned, tables |-> sp.tables, regions |-> R,
                  pte |-> sp.pte, swapped |-> sp.swapped, next |-> e]
      BY ONLY <1>3, <1>8, <2>2, <3>2
    <3>5. \A t \in Spaces, p \in Pages :
             t # s \/ p < sp.next \/ p >= e => v.value[t][p] = w.value[t][p]
      BY ONLY <2>7, <3>2
    <3>6. Extended(w, v, s, sp, n, R, r, e)
      BY ONLY <1>10, <2>9, <2>10, <3>3, <3>4, <3>5 DEF Extended
    <3> QED BY <3>2, <3>6
  <2>12. Inv(v)
    BY <1>3, <2>11, ExtendKeeps
  <2>13. Stands(v)
    BY <1>3, <1>6, <1>7 DEF Stands
  <2> QED BY <2>12, <2>13, Settle
<1>12. CASE ~CanRegister(sp, r)
  <2>1. PICK n : n = Reserve(sp, r)
    OBVIOUS
  <2>2. n = [owned |-> sp.owned, tables |-> sp.tables, regions |-> sp.regions,
             pte |-> sp.pte, swapped |-> sp.swapped, next |-> r.end]
    BY <1>4, <2>1, ReserveFields
  <2>3. space' = [space EXCEPT ![s] = n] /\ value' = value
    BY <1>2, <1>12, <2>1 DEF Map
  <2>4. Replaced(w, v, s, n) /\ v.value \in [Spaces -> [Pages -> Contents]] /\ v.value = w.value
    BY <1>6, <1>9, <1>10, <2>3 DEF Replaced
  <2>5. Extended(w, v, s, sp, n, sp.regions, r, r.end)
    BY <1>3, <1>8, <1>10, <2>2, <2>4 DEF Extended
  <2>6. Inv(v)
    BY <1>3, <2>5, ExtendKeeps
  <2>7. Stands(v)
    BY <1>3, <1>6, <1>7 DEF Stands
  <2> QED BY <2>6, <2>7, Settle
<1> QED BY <1>11, <1>12

LEMMA MmapKeeps ==
  ASSUME IInv, NEW s \in Spaces
  PROVE  /\ \A len \in 1 .. MaxRegion : MmapAnon(s, len) => IInv'
         /\ \A x \in Files, private \in BOOLEAN : MmapFile(s, x, private) => IInv'
<1>1. PICK sp : sp = space[s]
  OBVIOUS
<1>2. ASSUME space[s] # NoSpace PROVE SpaceOK(s, sp)
  <2>1. Typed(Now) /\ IsLive(Now.space, s) /\ Now.space[s] = sp
    BY <1>1, <1>2, NowTyped DEF IsLive, Now
  <2> QED BY <2>1, Here
<1>3. ASSUME NEW len \in 1 .. MaxRegion, MmapAnon(s, len) PROVE IInv'
  <2>1. PICK a \in Ranges(s, len) : Map(s, Region(a, len, "Anon", TRUE, FALSE, 0), Zero)
    BY <1>3 DEF MmapAnon
  <2>2. space[s] # NoSpace /\ a = sp.next /\ sp.next + len - 1 <= NPages[s]
    BY <1>1, <1>3, <2>1 DEF MmapAnon, Ranges
  <2>3. PICK r : r = Region(sp.next, len, "Anon", TRUE, FALSE, 0)
    OBVIOUS
  <2>4. PICK kind, wr, cow, file : kind = "Anon" /\ wr = TRUE /\ cow = FALSE /\ file = 0
    OBVIOUS
  <2>5. r = Region(sp.next, len, kind, wr, cow, file)
    BY <2>3, <2>4
  <2>6. /\ SpaceOK(s, sp) /\ len \in Nat \ {0} /\ kind \in {"Anon", "File", "Surface"}
        /\ wr \in BOOLEAN /\ cow \in BOOLEAN /\ file \in Files \cup {0}
        /\ (kind = "File" => file \in Files /\ cow = wr) /\ (kind # "File" => wr /\ ~cow)
    <3>1. SpaceOK(s, sp) /\ len \in Nat \ {0} /\ file \in Files \cup {0}
      BY <1>2, <2>2, <2>4
    <3>2. kind \in {"Anon", "File", "Surface"} /\ kind # "File"
      BY ONLY <2>4
    <3>3. wr /\ ~cow /\ wr \in BOOLEAN /\ cow \in BOOLEAN
      BY ONLY <2>4, Zenon
    <3> QED BY ONLY <3>1, <3>2, <3>3
  <2>7. /\ AreaOK(s, r) /\ r \in Areas /\ r.start = sp.next /\ r.end = sp.next + len
        /\ r.kind = kind /\ r.file = file
    BY <2>2, <2>5, <2>6, RegionOK
  <2>8. Map(s, r, Zero) /\ Zero \in Contents
    BY <2>1, <2>2, <2>3 DEF Contents
  <2> QED BY <1>1, <2>2, <2>4, <2>7, <2>8, MapKeeps
<1>4. ASSUME NEW x \in Files, NEW private \in BOOLEAN, MmapFile(s, x, private) PROVE IInv'
  <2>1. PICK a \in Ranges(s, 1) : Map(s, Region(a, 1, "File", private, private, x), x)
    BY <1>4 DEF MmapFile
  <2>2. space[s] # NoSpace /\ a = sp.next /\ sp.next + 1 - 1 <= NPages[s]
    BY <1>1, <1>4, <2>1 DEF MmapFile, Ranges
  <2>3. PICK r : r = Region(sp.next, 1, "File", private, private, x)
    OBVIOUS
  <2>4. PICK kind : kind = "File"
    OBVIOUS
  <2>5. r = Region(sp.next, 1, kind, private, private, x)
    BY <2>3, <2>4
  <2>6. /\ SpaceOK(s, sp) /\ 1 \in Nat \ {0} /\ kind \in {"Anon", "File", "Surface"}
        /\ x \in Files \cup {0}
        /\ (kind = "File" => x \in Files /\ private = private)
        /\ (kind # "File" => private /\ ~private)
    BY <1>2, <2>2, <2>4
  <2>7. AreaOK(s, r) /\ r.start = sp.next /\ r.kind = kind /\ r.file = x
    BY <2>2, <2>5, <2>6, RegionOK
  <2>8. Map(s, r, x) /\ x \in Contents
    BY <2>1, <2>2, <2>3 DEF Contents
  <2> QED BY <1>1, <2>2, <2>4, <2>7, <2>8, MapKeeps
<1> QED BY <1>3, <1>4

(* munmap of pages, on the record, with the region r taken out. *)
UnmapUses(st, ps, qs, cnt, G, X) ==
    /\ qs = ps \ DOMAIN st.sp.swapped /\ cnt = Uses(st.sp, qs)
    /\ G = {st.sp.pte[p].frame : p \in qs \cap DOMAIN st.sp.pte} \cap st.sp.owned
    /\ X = {st.sp.swapped[p] : p \in ps \cap DOMAIN st.sp.swapped}

UnmapRecord(st, ps, r) == [UnmapAll(st, ps) EXCEPT !.sp.regions = @ \ {r}]

UnmapLeaves(st, ps, qs, r, cnt, G, X, n) ==
    /\ n.free = (st.free \cup FramesDropped(st.cache, cnt)) \cup G /\ n.mem = st.mem
    /\ n.cache = CacheAfter(st.cache, cnt) /\ n.swap = Beyond(st.swap, X)
    /\ n.lost = st.lost
    /\ n.sp = [owned |-> st.sp.owned \ G, tables |-> st.sp.tables,
               regions |-> st.sp.regions \ {r}, pte |-> Beyond(st.sp.pte, qs),
               swapped |-> Beyond(st.sp.swapped, ps), next |-> st.sp.next]
    /\ n = [free |-> n.free, mem |-> n.mem, cache |-> n.cache, swap |-> n.swap,
            lost |-> n.lost, sp |-> n.sp]

(* Until a surface is freed under its mapping, no page is mapped and staged. *)
LEMMA MappedOrStaged ==
  ASSUME NEW w, Inv(w), ~w.stale, NEW s \in Spaces, IsLive(w.space, s)
  PROVE  \A p \in DOMAIN w.space[s].pte : p \notin DOMAIN w.space[s].swapped
<1>1. PICK sp : sp = w.space[s]
  OBVIOUS
<1>2. sp \in AddressSpaces /\ Backed(w)
  BY <1>1, Here DEF Inv
<1>3. ASSUME NEW p \in DOMAIN sp.pte, p \in DOMAIN sp.swapped PROVE FALSE
  <2>1. p \in Pages /\ sp.pte[p].frame \in Frames /\ sp.swapped[p] \in Slots
    BY <1>2, <1>3, SpaceFields
  <2>2. Maps(w.space, s, p, sp.pte[p].frame) /\ Shows(w.space, s, p, sp.swapped[p])
    BY <1>1, <1>3 DEF Maps, Shows
  <2> QED BY <1>2, <2>1, <2>2 DEF Backed
<1> QED BY <1>1, <1>3

LEMMA UnmapFields ==
  ASSUME NEW st, Shaped(st), NEW ps, NEW qs, NEW r, NEW cnt, NEW G, NEW X,
         UnmapUses(st, ps, qs, cnt, G, X),
         NEW n, n = UnmapRecord(st, ps, r)
  PROVE  UnmapLeaves(st, ps, qs, r, cnt, G, X, n)
<1>0. /\ qs = ps \ DOMAIN st.sp.swapped /\ cnt = Uses(st.sp, qs)
      /\ G = {st.sp.pte[p].frame : p \in qs \cap DOMAIN st.sp.pte} \cap st.sp.owned
      /\ X = {st.sp.swapped[p] : p \in ps \cap DOMAIN st.sp.swapped}
  BY DEF UnmapUses
<1>1. PICK d : d = DropRefs(st, cnt)
  OBVIOUS
<1>2. /\ Shaped(d)
      /\ d.free = st.free \cup FramesDropped(st.cache, cnt) /\ d.mem = st.mem
      /\ d.cache = CacheAfter(st.cache, cnt) /\ d.swap = st.swap /\ d.lost = st.lost
      /\ d.sp = st.sp
  BY <1>1, DropFields
<1>3. PICK P, W, S : /\ P = Beyond(st.sp.pte, qs) /\ W = Beyond(st.sp.swapped, ps)
                     /\ S = Beyond(st.swap, X)
  OBVIOUS
<1>4. PICK u : u = UnmapAll(st, ps)
  OBVIOUS
<1>5. /\ P = Beyond(d.sp.pte, qs) /\ W = Beyond(d.sp.swapped, ps) /\ S = Beyond(d.swap, X)
  BY <1>2, <1>3
<1>6. u = [d EXCEPT !.free = @ \cup G, !.sp.owned = @ \ G, !.sp.pte = P, !.sp.swapped = W,
                    !.swap = S]
  <2>1. u = [d EXCEPT !.free = @ \cup G, !.sp.owned = @ \ G, !.sp.pte = Beyond(@, qs),
                      !.sp.swapped = Beyond(@, ps), !.swap = Beyond(@, X)]
    BY <1>0, <1>1, <1>4 DEF UnmapAll
  <2> QED BY ONLY SMTT(30), <1>5, <2>1
<1>7. u = [free |-> d.free \cup G, mem |-> d.mem, cache |-> d.cache, swap |-> S,
           lost |-> d.lost,
           sp |-> [owned |-> d.sp.owned \ G, tables |-> d.sp.tables, regions |-> d.sp.regions,
                   pte |-> P, swapped |-> W, next |-> d.sp.next]]
  <2>1. Shaped(d)
    BY <1>2
  <2> QED BY ONLY <1>6, <2>1 DEF Shaped
<1>8. n = [u EXCEPT !.sp.regions = @ \ {r}]
  BY <1>4 DEF UnmapRecord
<1>9. PICK o, e, f : o = d.sp.owned \ G /\ e = d.sp.regions \ {r} /\ f = d.free \cup G
  OBVIOUS
<1>10. /\ u.sp = [owned |-> o, tables |-> d.sp.tables, regions |-> d.sp.regions,
                  pte |-> P, swapped |-> W, next |-> d.sp.next]
       /\ u.free = f /\ u.mem = d.mem /\ u.cache = d.cache /\ u.swap = S /\ u.lost = d.lost
       /\ u = [free |-> u.free, mem |-> u.mem, cache |-> u.cache, swap |-> u.swap,
               lost |-> u.lost, sp |-> u.sp]
  BY ONLY <1>7, <1>9
<1>11. n = [free |-> u.free, mem |-> u.mem, cache |-> u.cache, swap |-> u.swap,
            lost |-> u.lost,
            sp |-> [owned |-> o, tables |-> d.sp.tables, regions |-> e,
                    pte |-> P, swapped |-> W, next |-> d.sp.next]]
  BY ONLY SMTT(30), <1>8, <1>9, <1>10
<1>12. /\ n.free = f /\ n.mem = d.mem /\ n.cache = d.cache /\ n.swap = S /\ n.lost = d.lost
       /\ n.sp = [owned |-> o, tables |-> d.sp.tables, regions |-> e,
                  pte |-> P, swapped |-> W, next |-> d.sp.next]
       /\ n = [free |-> n.free, mem |-> n.mem, cache |-> n.cache, swap |-> n.swap,
               lost |-> n.lost, sp |-> n.sp]
  BY ONLY <1>10, <1>11
<1> QED BY ONLY <1>2, <1>3, <1>9, <1>12 DEF UnmapLeaves

(* Pages with neither an entry nor a slot make no difference.              *)
LEMMA SameUnmap ==
  ASSUME NEW st, Shaped(st), NEW ps, NEW qs, NEW r, NEW cnt, NEW G, NEW X,
         UnmapUses(st, ps, qs, cnt, G, X), NEW os, os \subseteq ps,
         \A p \in ps \cap DOMAIN st.sp.pte : p \in os, ps \cap DOMAIN st.sp.swapped = {},
         NEW n, n = UnmapRecord(st, os, r)
  PROVE  UnmapLeaves(st, ps, qs, r, cnt, G, X, n)
<1>1. PICK sp, D, E : sp = st.sp /\ D = DOMAIN sp.pte /\ E = DOMAIN sp.swapped
  OBVIOUS
<1>2. PICK q, c, H, Y :
         /\ q = os \ DOMAIN st.sp.swapped /\ c = Uses(st.sp, q)
         /\ H = {st.sp.pte[p].frame : p \in q \cap DOMAIN st.sp.pte} \cap st.sp.owned
         /\ Y = {st.sp.swapped[p] : p \in os \cap DOMAIN st.sp.swapped}
  OBVIOUS
<1>3. UnmapLeaves(st, os, q, r, c, H, Y, n)
  <2>1. UnmapUses(st, os, q, c, H, Y)
    BY ONLY <1>2 DEF UnmapUses
  <2> QED BY <2>1, UnmapFields
<1>4. /\ qs = ps \ DOMAIN st.sp.swapped /\ cnt = Uses(st.sp, qs)
      /\ G = {st.sp.pte[p].frame : p \in qs \cap DOMAIN st.sp.pte} \cap st.sp.owned
      /\ X = {st.sp.swapped[p] : p \in ps \cap DOMAIN st.sp.swapped}
  BY DEF UnmapUses
<1>5. /\ q \cap D = qs \cap D /\ D \ q = D \ qs /\ E \ os = E \ ps
      /\ os \cap E = {} /\ ps \cap E = {}
  BY <1>1, <1>2, <1>4
<1>6. c = cnt
  BY <1>1, <1>2, <1>4, <1>5 DEF Uses
<1>7. H = G
  BY ONLY <1>1, <1>2, <1>4, <1>5
<1>8. X = Y
  BY ONLY <1>1, <1>2, <1>4, <1>5
<1>9. Beyond(st.sp.pte, q) = Beyond(st.sp.pte, qs)
  BY ONLY <1>1, <1>5 DEF Beyond
<1>10. Beyond(st.sp.swapped, os) = Beyond(st.sp.swapped, ps)
  BY ONLY <1>1, <1>5 DEF Beyond
<1> QED BY ONLY <1>3, <1>6, <1>7, <1>8, <1>9, <1>10 DEF UnmapLeaves

(* The pages of a region, and what is apart from them. *)
LEMMA RegionPages ==
  ASSUME NEW s \in Spaces, NEW sp, SpaceOK(s, sp), NEW r \in sp.regions
  PROVE  /\ PagesOf(r) \subseteq Pages
         /\ \A p \in Pages : InRegion(r, p) <=> p \in PagesOf(r)
         /\ \A q \in sp.regions \ {r}, p \in PagesOf(r) : ~InRegion(q, p)
<1>1. AreaOK(s, r) /\ NPages[s] \in Nat
  BY MemoryAssumption DEF SpaceOK
<1>2. PICK a, b : a = r.start /\ b = r.end
  OBVIOUS
<1>3. a \in Nat /\ b \in Nat /\ 1 <= a /\ b - 1 <= NPages[s]
  BY <1>1, <1>2 DEF AreaOK, Areas
<1>4. PagesOf(r) = a .. b - 1
  BY <1>2 DEF PagesOf
<1>5. a .. b - 1 \subseteq 1 .. NPages[s]
  BY <1>1, <1>3
<1>6. PagesOf(r) \subseteq Pages
  BY <1>4, <1>5, Bounds
<1>7. \A p \in Pages : InRegion(r, p) <=> p \in PagesOf(r)
  <2>1. \A p \in Pages : p \in Nat
    BY Bounds
  <2>2. \A p \in Pages : InRegion(r, p) <=> a <= p /\ p < b
    BY <1>2 DEF InRegion
  <2>3. \A p \in Pages : p \in a .. b - 1 <=> a <= p /\ p < b
    BY <1>3, <2>1
  <2> QED BY <1>4, <2>2, <2>3
<1>8. \A q \in sp.regions \ {r}, p \in PagesOf(r) : ~InRegion(q, p)
  BY <1>6, <1>7 DEF SpaceOK
<1> QED BY <1>6, <1>7, <1>8

LEMMA MunmapKeeps ==
  ASSUME IInv, NEW s \in Spaces, Munmap(s)
  PROVE  IInv'
<1>1. PICK st : st = State(s)
  OBVIOUS
<1>2. PICK r \in space[s].regions :
         Commit(s, [UnmapAll(st, PagesOf(r)) EXCEPT !.sp.regions = @ \ {r}])
  BY <1>1 DEF Munmap
<1>3. space[s] # NoSpace /\ UNCHANGED <<surface, creating, value, stale>>
  BY DEF Munmap
<1>4. Working(s, st) /\ st.sp = space[s]
  BY <1>1, <1>3, StateWorks DEF State
<1>5. PICK n : n = [UnmapAll(st, PagesOf(r)) EXCEPT !.sp.regions = @ \ {r}]
  OBVIOUS
<1>6. PICK ps, qs, cnt, G, X :
         /\ ps = PagesOf(r) /\ qs = ps \ DOMAIN st.sp.swapped /\ cnt = Uses(st.sp, qs)
         /\ G = {st.sp.pte[p].frame : p \in qs \cap DOMAIN st.sp.pte} \cap st.sp.owned
         /\ X = {st.sp.swapped[p] : p \in ps \cap DOMAIN st.sp.swapped}
  OBVIOUS
<1>7. Shaped(st)
  BY <1>4, WorkingShaped
<1>8. /\ n.free = (st.free \cup FramesDropped(st.cache, cnt)) \cup G /\ n.mem = st.mem
      /\ n.cache = CacheAfter(st.cache, cnt) /\ n.swap = Beyond(st.swap, X)
      /\ n.lost = st.lost
      /\ n.sp = [owned |-> st.sp.owned \ G, tables |-> st.sp.tables,
                 regions |-> st.sp.regions \ {r}, pte |-> Beyond(st.sp.pte, qs),
                 swapped |-> Beyond(st.sp.swapped, ps), next |-> st.sp.next]
      /\ n = [free |-> n.free, mem |-> n.mem, cache |-> n.cache, swap |-> n.swap,
              lost |-> n.lost, sp |-> n.sp]
  <2>1. UnmapUses(st, ps, qs, cnt, G, X)
    BY ONLY <1>6 DEF UnmapUses
  <2>2. n = UnmapRecord(st, ps, r)
    BY ONLY <1>5, <1>6 DEF UnmapRecord
  <2>3. UnmapLeaves(st, ps, qs, r, cnt, G, X, n)
    BY ONLY <1>7, <2>1, <2>2, UnmapFields
  <2> QED BY ONLY <2>3 DEF UnmapLeaves
<1>9. PICK w : w = World(s, st)
  OBVIOUS
<1>10. PICK v : v = World(s, n)
  OBVIOUS
<1>11. /\ Inv(w) /\ IsLive(w.space, s) /\ w.space[s] = st.sp /\ SpaceOK(s, st.sp)
       /\ st.sp \in AddressSpaces
  BY <1>4, <1>9, WorkingFields
<1>12. Rest(w, v) /\ Replaced(w, v, s, n.sp)
  BY <1>4, <1>9, <1>10, WorldStep
<1>13. /\ r \in st.sp.regions /\ ps \subseteq Pages
       /\ \A q \in st.sp.regions \ {r}, p \in ps : ~InRegion(q, p)
       /\ \A q \in st.sp.regions \ (st.sp.regions \ {r}), p \in Pages : InRegion(q, p) => p \in ps
  <2>1. r \in st.sp.regions
    BY <1>2, <1>4
  <2>2. /\ ps \subseteq Pages
        /\ \A p \in Pages : InRegion(r, p) <=> p \in ps
        /\ \A q \in st.sp.regions \ {r}, p \in ps : ~InRegion(q, p)
    BY <1>6, <1>11, <2>1, RegionPages
  <2> QED BY <2>1, <2>2
<1>14. PICK R : R = st.sp.regions \ {r}
  OBVIOUS
<1>15. /\ v.free = (w.free \cup FramesDropped(w.cache, cnt)) \cup G
       /\ v.mem = w.mem /\ v.cache = CacheAfter(w.cache, cnt)
       /\ v.lost = w.lost /\ v.swap = Beyond(w.swap, X)
  BY <1>8, <1>9, <1>10 DEF World
<1>16. /\ R \subseteq st.sp.regions
       /\ \A q \in R, p \in ps : ~InRegion(q, p)
       /\ \A q \in st.sp.regions \ R, p \in Pages : InRegion(q, p) => p \in ps
  BY <1>13, <1>14
<1>17. n.sp = [owned |-> st.sp.owned \ G, tables |-> st.sp.tables,
               regions |-> R, pte |-> Beyond(st.sp.pte, qs),
               swapped |-> Beyond(st.sp.swapped, ps), next |-> st.sp.next]
  BY <1>8, <1>14
<1>18. /\ st.sp = w.space[s] /\ ps \subseteq Pages /\ qs \subseteq ps
       /\ ~w.stale => \A p \in ps \cap DOMAIN st.sp.pte : p \in qs
  <2>1. ~w.stale => \A p \in DOMAIN st.sp.pte : p \notin DOMAIN st.sp.swapped
    BY SMTT(30), <1>11, MappedOrStaged
  <2> QED BY <1>6, <1>11, <1>13, <2>1
<1>19. Unmapped(w, v, s, st.sp, n.sp, ps, qs, qs, R, cnt, G, X)
  BY ONLY <1>6, <1>12, <1>15, <1>16, <1>17, <1>18 DEF Unmapped
<1>20. Inv(v) /\ n.sp \in AddressSpaces
  BY <1>11, <1>19, UnmapKeeps
<1>21. Working(s, n)
  BY <1>4, <1>8, <1>10, <1>20, WorkingNext
<1> QED BY <1>2, <1>3, <1>5, <1>21, CommitWorks

(* destroy: all pages are unmapped, then what the space owns besides goes. *)
LEMMA DestroyKeeps ==
  ASSUME IInv, NEW s \in Spaces, Destroy(s)
  PROVE  IInv'
<1>1. PICK st : st = State(s)
  OBVIOUS
<1>2. PICK sp : sp = space[s]
  OBVIOUS
<1>3. /\ space[s] # NoSpace /\ creating[s] = 0
      /\ value' = [value EXCEPT ![s] = [p \in Pages |-> Zero]]
      /\ UNCHANGED <<surface, creating, stale>>
  BY DEF Destroy
<1>4. PICK registered, discarded :
         /\ registered = {p \in DOMAIN sp.pte : \E r \in sp.regions : InRegion(r, p)}
         /\ discarded = {sp.swapped[p] : p \in DOMAIN sp.swapped}
  OBVIOUS
<1>5. Commit(s, [DropRefs(st, Uses(sp, registered)) EXCEPT
                    !.free = @ \cup sp.owned, !.swap = Beyond(@, discarded), !.sp = NoSpace])
  BY <1>1, <1>2, <1>4 DEF Destroy
<1>6. Working(s, st) /\ st.sp = sp
  BY <1>1, <1>2, <1>3, StateWorks DEF State
<1>7. PICK w : w = World(s, st)
  OBVIOUS
<1>8. /\ Inv(w) /\ Typed(w) /\ IsLive(w.space, s) /\ w.space[s] = sp /\ SpaceOK(s, sp)
      /\ sp \in AddressSpaces /\ st.mem \in [Frames -> Contents] /\ w.stale = stale
  BY <1>6, <1>7, WorkingFields
<1>9. /\ DOMAIN sp.pte \subseteq Pages /\ DOMAIN sp.swapped \subseteq Pages
      /\ sp.owned \subseteq Frames
  BY <1>8, SpaceFields
<1>10. registered \subseteq Pages /\ (~w.stale => registered = DOMAIN sp.pte)
  BY <1>4, <1>8, <1>9 DEF Inv, Backed, RegionsKept
<1>11. PICK cnt : cnt = Uses(sp, registered)
  OBVIOUS
<1>12. cnt = Uses(sp, registered)
  BY <1>11
<1>13. PICK G, X, F :
          /\ G = {sp.pte[p].frame : p \in registered \cap DOMAIN sp.pte} \cap sp.owned
          /\ X = {sp.swapped[p] : p \in Pages \cap DOMAIN sp.swapped}
          /\ F = FramesDropped(w.cache, cnt)
  OBVIOUS
<1>14. X = discarded
  <2>1. Pages \cap DOMAIN sp.swapped = DOMAIN sp.swapped
    BY <1>9
  <2> QED BY <1>4, <1>13, <2>1
<1>15. PICK n : n = [owned |-> sp.owned \ G, tables |-> sp.tables, regions |-> {},
                     pte |-> Beyond(sp.pte, Pages), swapped |-> Beyond(sp.swapped, Pages),
                     next |-> sp.next]
  OBVIOUS
<1>16. PICK u : u = [free |-> (w.free \cup F) \cup G, mem |-> w.mem,
                     cache |-> CacheAfter(w.cache, cnt), swap |-> Beyond(w.swap, X),
                     lost |-> w.lost, space |-> [w.space EXCEPT ![s] = n],
                     surface |-> w.surface, creating |-> w.creating, value |-> w.value,
                     stale |-> w.stale]
  OBVIOUS
<1>17. /\ u.free = (w.free \cup F) \cup G /\ u.mem = w.mem
       /\ u.cache = CacheAfter(w.cache, cnt) /\ u.swap = Beyond(w.swap, X)
       /\ u.lost = w.lost /\ Rest(w, u) /\ Replaced(w, u, s, n)
  BY <1>16 DEF Rest, Replaced
<1>18. PICK R : R = {}
  BY ZenonT(30)
<1>19. Unmapped(w, u, s, sp, n, Pages, registered, Pages, R, cnt, G, X)
  <2>1. /\ sp = w.space[s] /\ Pages \subseteq Pages /\ R \subseteq sp.regions
        /\ \A r \in R, p \in Pages : ~InRegion(r, p)
        /\ \A r \in sp.regions \ R, p \in Pages : InRegion(r, p) => p \in Pages
    BY <1>8, <1>18
  <2>2. u.free = (w.free \cup FramesDropped(w.cache, cnt)) \cup G
    BY <1>13, <1>17
  <2>3. n = [owned |-> sp.owned \ G, tables |-> sp.tables, regions |-> R,
             pte |-> Beyond(sp.pte, Pages), swapped |-> Beyond(sp.swapped, Pages),
             next |-> sp.next]
    BY <1>15, <1>18
  <2>4. /\ registered \subseteq Pages
        /\ ~w.stale => \A p \in Pages \cap DOMAIN sp.pte : p \in registered /\ p \in Pages
    BY <1>10
  <2> QED BY ONLY <1>11, <1>13, <1>17, <2>1, <2>2, <2>3, <2>4 DEF Unmapped
<1>20. Inv(u) /\ u.space[s] = n /\ IsLive(u.space, s) /\ n \in AddressSpaces
  BY <1>8, <1>19, UnmapKeeps
<1>21. Bare(n) /\ n.owned = sp.owned \ G
  <2>1. n.regions = {} /\ DOMAIN n.pte = {} /\ DOMAIN n.swapped = {} /\ n.owned = sp.owned \ G
    BY <1>9, <1>15 DEF Beyond
  <2> QED BY <2>1 DEF Bare
<1>22. PICK v : v = [free |-> u.free \cup n.owned, mem |-> u.mem, cache |-> u.cache,
                     swap |-> u.swap, lost |-> u.lost,
                     space |-> [u.space EXCEPT ![s] = NoSpace],
                     surface |-> u.surface, creating |-> u.creating, value |-> value',
                     stale |-> u.stale]
  OBVIOUS
<1>23. w.creating = creating /\ w.value = value /\ w.surface = surface
  BY <1>7 DEF World
<1>24. value \in [Spaces -> [Pages -> Contents]]
  BY <1>8, <1>23 DEF Typed
<1>25. /\ value' \in [Spaces -> [Pages -> Contents]]
       /\ \A t \in Spaces : t # s => value'[t] = value[t]
       /\ \A p \in Pages : value'[s][p] = Zero
  <2>1. [p \in Pages |-> Zero] \in [Pages -> Contents]
    BY DEF Contents
  <2> QED BY <1>3, <1>24, <2>1
<1>26. Switched(u, v, s, NoSpace, n.owned)
  <2>1. u.creating = creating /\ u.value = value
    BY <1>16, <1>23
  <2>2. NoSpace \in {NoSpace, NewSpace}
    OBVIOUS
  <2> QED BY <1>3, <1>20, <1>21, <1>22, <1>25, <2>1, <2>2 DEF Switched, Replaced
<1>27. Inv(v)
  BY <1>20, <1>26, SwitchKeeps
<1>28. PICK d : d = DropRefs(st, cnt)
  OBVIOUS
<1>29. /\ Shaped(d)
       /\ d.free = st.free \cup FramesDropped(st.cache, cnt) /\ d.mem = st.mem
       /\ d.cache = CacheAfter(st.cache, cnt) /\ d.swap = st.swap /\ d.lost = st.lost
       /\ d.sp = st.sp
  BY <1>6, <1>28, WorkingShaped, DropFields
<1>30. PICK m : m = [DropRefs(st, Uses(sp, registered)) EXCEPT
                        !.free = @ \cup sp.owned, !.swap = Beyond(@, discarded), !.sp = NoSpace]
  OBVIOUS
<1>31. PICK S : S = Beyond(st.swap, discarded)
  OBVIOUS
<1>32. m = [d EXCEPT !.free = @ \cup sp.owned, !.swap = S, !.sp = NoSpace]
  BY <1>12, <1>28, <1>29, <1>30, <1>31
<1>33. m = [free |-> d.free \cup sp.owned, mem |-> d.mem, cache |-> d.cache, swap |-> S,
            lost |-> d.lost, sp |-> NoSpace]
  <2>1. Shaped(d)
    BY <1>29
  <2> QED BY ONLY <1>32, <2>1 DEF Shaped
<1>34. /\ m.free = d.free \cup sp.owned /\ m.mem = d.mem /\ m.cache = d.cache /\ m.swap = S
       /\ m.lost = d.lost /\ m.sp = NoSpace
  BY ONLY <1>33
<1>35. /\ free' = m.free /\ mem' = Abandoned(m.mem, m.free) /\ cache' = m.cache
       /\ swap' = m.swap /\ lost' = m.lost /\ space' = [space EXCEPT ![s] = m.sp]
  BY <1>5, <1>30 DEF Commit
<1>36. /\ w.free = st.free /\ w.cache = st.cache /\ w.mem = st.mem /\ w.swap = st.swap
       /\ w.lost = st.lost /\ w.space = [space EXCEPT ![s] = sp]
  BY <1>6, <1>7 DEF World
<1>37. v.free = m.free
  <2>1. m.free = (w.free \cup F) \cup sp.owned
    BY <1>13, <1>29, <1>34, <1>36
  <2>2. v.free = ((w.free \cup F) \cup G) \cup (sp.owned \ G)
    BY <1>17, <1>21, <1>22
  <2>3. G \subseteq sp.owned
    BY <1>13
  <2> QED BY <2>1, <2>2, <2>3
<1>38. v.space = space'
  <2>1. space = [t \in Spaces |-> space[t]]
    BY NowTyped
  <2>2. v.space = [[[space EXCEPT ![s] = sp] EXCEPT ![s] = n] EXCEPT ![s] = NoSpace]
    BY <1>16, <1>22, <1>36
  <2> QED BY <1>34, <1>35, <2>1, <2>2
<1>39. v.mem = st.mem /\ v.cache = cache' /\ v.swap = swap' /\ v.lost = lost'
  BY <1>14, <1>17, <1>22, <1>29, <1>31, <1>34, <1>35, <1>36
<1>40. mem' \in [Frames -> Contents] /\ \A f \in Frames : f \notin v.free => mem'[f] = v.mem[f]
  BY <1>8, <1>29, <1>34, <1>35, <1>37, <1>39, Abandons
<1>41. v.surface = surface' /\ v.creating = creating' /\ v.value = value' /\ v.stale = stale'
  BY <1>3, <1>8, <1>16, <1>22, <1>23
<1>42. Stands(v)
  BY <1>35, <1>37, <1>38, <1>39, <1>40, <1>41 DEF Stands
<1> QED BY <1>27, <1>42, Settle

(* map_shared_frames, on the record: the region r with the pages ps of it  *)
(* mapped to the frames fs.                                                *)
SharedRecord(st, r, fs, ps) == [st EXCEPT !.sp = WithFrames(@, r, fs, ps)]

SharedSpace(sp, r, fr, ps) ==
    [owned |-> sp.owned, tables |-> sp.tables \cup {TableOf(p) : p \in ps},
     regions |-> sp.regions \cup {r},
     pte |-> [p \in DOMAIN sp.pte \cup ps |->
                 IF p \in ps THEN [frame |-> fr[p], write |-> TRUE] ELSE sp.pte[p]],
     swapped |-> sp.swapped, next |-> r.end]

LEMMA SharedFields ==
  ASSUME NEW st, Shaped(st), st.sp \in AddressSpaces, NEW r, NEW fs, NEW ps,
         NEW fr, fr = [p \in ps |-> fs[p - r.start + 1]],
         NEW n, n = SharedRecord(st, r, fs, ps)
  PROVE  n = [free |-> st.free, mem |-> st.mem, cache |-> st.cache, swap |-> st.swap,
              lost |-> st.lost, sp |-> SharedSpace(st.sp, r, fr, ps)]
<1>1. PICK sp, a : sp = st.sp /\ a = AddRegion(sp, r)
  OBVIOUS
<1>2. PICK e, R : e = r.end /\ R = sp.regions \cup {r}
  OBVIOUS
<1>3. a = [owned |-> sp.owned, tables |-> sp.tables, regions |-> R,
           pte |-> sp.pte, swapped |-> sp.swapped, next |-> e]
  BY <1>1, <1>2, ReserveFields
<1>4. PICK P, T :
         /\ P = [p \in DOMAIN sp.pte \cup ps |->
                    IF p \in ps THEN [frame |-> fr[p], write |-> TRUE] ELSE sp.pte[p]]
         /\ T = sp.tables \cup {TableOf(p) : p \in ps}
  OBVIOUS
<1>6. PICK x : x = [a EXCEPT !.pte = P, !.tables = T]
  OBVIOUS
<1>11. x = WithFrames(sp, r, fs, ps)
  <2>1. PICK A : A = a.tables
    OBVIOUS
  <2>2. A = sp.tables
    BY ONLY <1>3, <2>1
  <2>3. /\ T = A \cup {TableOf(p) : p \in ps}
        /\ P = [p \in DOMAIN sp.pte \cup ps |->
              IF p \in ps THEN [frame |-> fs[p - r.start + 1], write |-> TRUE] ELSE sp.pte[p]]
    BY <1>4, <2>2
  <2>4. x = [AddRegion(sp, r) EXCEPT !.pte = P, !.tables = a.tables \cup {TableOf(p) : p \in ps}]
    BY ONLY <1>1, <1>6, <2>1, <2>3
  <2> QED BY <1>1, <2>3, <2>4 DEF WithFrames
<1>7. x = [owned |-> sp.owned, tables |-> T, regions |-> R,
           pte |-> P, swapped |-> sp.swapped, next |-> e]
  BY ONLY <1>3, <1>6
<1>8. x = SharedSpace(sp, r, fr, ps)
  BY ONLY <1>2, <1>4, <1>7 DEF SharedSpace
<1>9. n = [st EXCEPT !.sp = x]
  BY <1>1, <1>11 DEF SharedRecord
<1>10. n = [free |-> st.free, mem |-> st.mem, cache |-> st.cache, swap |-> st.swap,
            lost |-> st.lost, sp |-> x]
  BY ONLY SMTT(30), <1>9, Shaped(st) DEF Shaped
<1> QED BY <1>1, <1>8, <1>10

(* What MapShared comes to.                                                *)
LEMMA SharedOutcomes ==
  ASSUME NEW st, NEW r, NEW i, NEW q \in MapShared(st, r, i), NEW n, NEW fs,
         fs = surface[i].frames, n = Len(fs), n \in Nat
  PROVE  \/ /\ q.ok /\ q.st = SharedRecord(st, r, fs, FirstPages(r, n))
            /\ FirstPages(r, n) \cap DOMAIN st.sp.pte = {}
         \/ \E k \in 0 .. n : /\ ~q.ok
                              /\ q.st = UnmapRecord(SharedRecord(st, r, fs, FirstPages(r, k)),
                                                    FirstPages(r, k), r)
                              /\ FirstPages(r, k) \cap DOMAIN st.sp.pte = {}
<1>1. CASE /\ FirstPages(r, n) \cap DOMAIN st.sp.pte = {}
           /\ q = [ok |-> TRUE, st |-> SharedRecord(st, r, fs, FirstPages(r, n))]
  BY <1>1
<1>2. CASE \E k \in 1 .. n :
              /\ FirstPages(r, k - 1) \cap DOMAIN st.sp.pte = {}
              /\ q = Failed(UnmapRecord(SharedRecord(st, r, fs, FirstPages(r, k - 1)),
                                        FirstPages(r, k - 1), r))
  <2>1. PICK k \in 1 .. n :
              /\ FirstPages(r, k - 1) \cap DOMAIN st.sp.pte = {}
              /\ q = Failed(UnmapRecord(SharedRecord(st, r, fs, FirstPages(r, k - 1)),
                                        FirstPages(r, k - 1), r))
    BY <1>2
  <2>2. k - 1 \in 0 .. n
    OBVIOUS
  <2>3. /\ ~q.ok
        /\ q.st = UnmapRecord(SharedRecord(st, r, fs, FirstPages(r, k - 1)),
                           FirstPages(r, k - 1), r)
    BY <2>1 DEF Failed
  <2> QED BY <2>1, <2>2, <2>3
<1> QED BY <1>1, <1>2 DEF MapShared, SharedRecord, UnmapRecord

(* The first pages of a region behind all others.                          *)
LEMMA FirstPagesFit ==
  ASSUME NEW s \in Spaces, NEW sp, SpaceOK(s, sp), NEW r, AreaOK(s, r), r.start = sp.next,
         NEW n \in Nat, r.end = sp.next + n, NEW k \in 0 .. n, NEW ps, ps = FirstPages(r, k)
  PROVE  /\ ps \subseteq Pages
         /\ \A p \in ps : /\ InRegion(r, p) /\ p - r.start + 1 \in 1 .. n
                          /\ p \notin DOMAIN sp.swapped /\ p >= sp.next
<1>1. PICK a, b : a = r.start /\ b = r.end
  OBVIOUS
<1>2. /\ a \in Nat /\ b \in Nat /\ 1 <= a /\ b - 1 <= NPages[s] /\ b = a + n /\ a = sp.next
      /\ NPages[s] \in Nat
  BY <1>1, MemoryAssumption DEF AreaOK, Areas
<1>3. ASSUME NEW p \in ps
      PROVE  /\ p \in 1 .. NPages[s] /\ a <= p /\ p < b /\ p - a + 1 \in 1 .. n
  <2>1. PICK j \in 1 .. k : p = a + j - 1
    BY <1>1, <1>3 DEF FirstPages
  <2> QED BY <1>2, <2>1
<1>4. ps \subseteq Pages
  <2>1. 1 .. NPages[s] \subseteq Pages
    BY Bounds
  <2> QED BY <1>3, <2>1
<1>5. ASSUME NEW p \in ps PROVE p \notin DOMAIN sp.swapped
  <2>1. SUFFICES ASSUME p \in DOMAIN sp.swapped PROVE FALSE
    OBVIOUS
  <2>2. PICK q \in sp.regions : InRegion(q, p)
    BY <2>1 DEF SpaceOK
  <2>3. AreaOK(s, q) /\ q.end <= sp.next
    BY <2>2 DEF SpaceOK
  <2>4. PICK d : d = q.end
    OBVIOUS
  <2>5. d \in Nat /\ p < d /\ d <= a
    BY <1>2, <2>2, <2>3, <2>4 DEF InRegion, AreaOK, Areas
  <2>6. p \in Nat /\ a <= p /\ a \in Nat
    BY <1>2, <1>3
  <2> QED BY ONLY <2>5, <2>6
<1>6. \A p \in ps : InRegion(r, p)
  BY <1>1, <1>3 DEF InRegion
<1>7. \A p \in ps : p - r.start + 1 \in 1 .. n /\ p >= sp.next
  <2>1. ASSUME NEW p \in ps PROVE p - r.start + 1 \in 1 .. n /\ p >= sp.next
    <3>1. p \in Nat /\ a <= p /\ p - a + 1 \in 1 .. n
      BY <1>3
    <3>2. p >= a
      BY <1>2, <3>1
    <3> QED BY <1>1, <1>2, <3>1, <3>2
  <2> QED BY <2>1
<1> QED BY <1>4, <1>5, <1>6, <1>7

(* The state with the space s and the table of surfaces being created      *)
(* replaced.                                                               *)
Changed(v, s, n, c) ==
    /\ v.free = free /\ v.mem = mem /\ v.cache = cache /\ v.swap = swap /\ v.lost = lost
    /\ v.surface = surface /\ v.value = value /\ v.stale = stale
    /\ v.space = [space EXCEPT ![s] = n] /\ v.creating = c

(* sys_surface_create has found the range r for its surface.               *)
Placed(s, fs, len, r) ==
    /\ space[s] # NoSpace /\ creating[s] # 0
    /\ fs = surface[creating[s]].frames /\ len = Len(fs)
    /\ r = Region(space[s].next, len, "Surface", TRUE, FALSE, 0)
    /\ space[s].next + len - 1 <= NPages[s]

LEMMA PlacedRegion ==
  ASSUME IInv, NEW s \in Spaces, NEW fs, NEW len, NEW r, Placed(s, fs, len, r)
  PROVE  /\ SpaceOK(s, space[s]) /\ space[s] \in AddressSpaces
         /\ len \in Nat \ {0} /\ DOMAIN fs = 1 .. len
         /\ \A k \in DOMAIN fs : fs[k] \in Frames
         /\ AreaOK(s, r) /\ r \in Areas /\ r.start = space[s].next
         /\ r.end = space[s].next + len /\ r.end \in Nat /\ space[s].next <= r.end
         /\ r.kind = "Surface" /\ r.write
<1>1. PICK w : w = Now
  OBVIOUS
<1>2. Typed(w) /\ IsLive(w.space, s) /\ w.space[s] = space[s] /\ w.creating = creating
      /\ w.surface = surface
  BY <1>1, NowTyped DEF Placed, IsLive, Now
<1>3. SpaceOK(s, space[s]) /\ space[s] \in AddressSpaces
  BY <1>2, Here
<1>4. creating[s] \in DOMAIN w.surface
  BY <1>2, CreatingTypes DEF Placed
<1>5. len \in 1 .. MaxRegion /\ fs \in [1 .. len -> Frames]
  BY <1>2, <1>4, SurfaceTypes DEF Placed
<1>6. len \in Nat \ {0} /\ DOMAIN fs = 1 .. len /\ \A k \in DOMAIN fs : fs[k] \in Frames
  BY <1>5
<1>7. PICK sp : sp = space[s]
  OBVIOUS
<1>8. sp.next + len - 1 <= NPages[s] /\ r = Region(sp.next, len, "Surface", TRUE, FALSE, 0)
  BY <1>7 DEF Placed
<1>9. /\ AreaOK(s, r) /\ r \in Areas /\ r.start = sp.next /\ r.end = sp.next + len
      /\ r.kind = "Surface"
  <2>1. PICK kind, wr, cow, file : kind = "Surface" /\ wr = TRUE /\ cow = FALSE /\ file = 0
    OBVIOUS
  <2>2. r = Region(sp.next, len, kind, wr, cow, file)
    BY <1>8, <2>1
  <2>3. /\ SpaceOK(s, sp) /\ len \in Nat \ {0} /\ kind \in {"Anon", "File", "Surface"}
        /\ wr \in BOOLEAN /\ cow \in BOOLEAN /\ file \in Files \cup {0}
        /\ (kind = "File" => file \in Files /\ cow = wr) /\ (kind # "File" => wr /\ ~cow)
    <3>1. SpaceOK(s, sp) /\ len \in Nat \ {0} /\ file \in Files \cup {0}
      BY <1>3, <1>6, <1>7, <2>1
    <3>2. kind \in {"Anon", "File", "Surface"} /\ kind # "File"
      BY ONLY <2>1
    <3>3. wr /\ ~cow /\ wr \in BOOLEAN /\ cow \in BOOLEAN
      BY ONLY <2>1, Zenon
    <3> QED BY ONLY <3>1, <3>2, <3>3
  <2>4. sp.next + len - 1 <= NPages[s]
    BY <1>8
  <2>5. /\ AreaOK(s, r) /\ r \in Areas /\ r.start = sp.next /\ r.end = sp.next + len
        /\ r.kind = kind
    BY <2>2, <2>3, <2>4, RegionOK
  <2> QED BY <2>1, <2>5
<1>10. PICK a, b : a = sp.next /\ b = r.end
  OBVIOUS
<1>11. a \in Nat /\ b = a + len
  BY <1>3, <1>7, <1>9, <1>10 DEF SpaceOK
<1>12. b \in Nat /\ a <= b
  BY <1>6, <1>11
<1>13. r.write
  BY <1>9 DEF AreaOK
<1> QED BY <1>3, <1>6, <1>7, <1>9, <1>10, <1>12, <1>13

(* The range is reserved, and registered if R says so.                     *)
LEMMA PlaceKeeps ==
  ASSUME IInv, NEW s \in Spaces, NEW fs, NEW len, NEW r, Placed(s, fs, len, r),
         NEW R, \/ R = space[s].regions
                \/ R = space[s].regions \cup {r} /\ CanRegister(space[s], r),
         NEW n, n = [owned |-> space[s].owned, tables |-> space[s].tables, regions |-> R,
                     pte |-> space[s].pte, swapped |-> space[s].swapped, next |-> r.end],
         NEW v, Changed(v, s, n, creating)
  PROVE  Inv(v) /\ v.space[s] = n /\ IsLive(v.space, s) /\ n \in AddressSpaces
<1>1. PICK w : w = Now
  OBVIOUS
<1>2. PICK sp : sp = space[s]
  OBVIOUS
<1>3. Inv(w) /\ Typed(w) /\ IsLive(w.space, s) /\ w.space[s] = sp
  BY <1>1, <1>2, NowTyped DEF IInv, Placed, IsLive, Now
<1>4. /\ r \in Areas /\ r.start = sp.next /\ AreaOK(s, r) /\ r.kind = "Surface"
      /\ r.end \in Nat /\ sp.next <= r.end
  BY <1>2, PlacedRegion
<1>5. PICK e : e = r.end
  OBVIOUS
<1>6. /\ v.free = w.free /\ v.mem = w.mem /\ v.cache = w.cache /\ v.lost = w.lost
      /\ v.swap = w.swap /\ v.surface = w.surface /\ v.creating = w.creating
      /\ v.stale = w.stale /\ v.value = w.value
      /\ w.space = space /\ v.space = [space EXCEPT ![s] = n]
  BY <1>1 DEF Changed, Now
<1>7. Replaced(w, v, s, n)
  BY <1>6 DEF Replaced
<1>8. v.value \in [Spaces -> [Pages -> Contents]]
  BY <1>3, <1>6 DEF Typed
<1>9. \/ R = sp.regions
      \/ /\ R = sp.regions \cup {r} /\ AreaOK(s, r) /\ r.end = e
         /\ Cardinality(sp.regions) < MaxVmAreas
         /\ ~w.stale => \A p \in Pages : InRegion(r, p) =>
               /\ r.kind = "File" => v.value[s][p] = r.file
               /\ r.kind = "Anon" => v.value[s][p] = Zero
  <2>1. R = sp.regions \/ (R = sp.regions \cup {r} /\ Cardinality(sp.regions) < MaxVmAreas)
    BY <1>2 DEF CanRegister
  <2>2. r.kind # "File" /\ r.kind # "Anon"
    BY ONLY <1>4
  <2>3. ~w.stale => \A p \in Pages : InRegion(r, p) =>
               /\ r.kind = "File" => v.value[s][p] = r.file
               /\ r.kind = "Anon" => v.value[s][p] = Zero
    BY ONLY <2>2
  <2>4. AreaOK(s, r) /\ r.end = e
    BY <1>4, <1>5
  <2> QED BY ONLY <2>1, <2>3, <2>4
<1>10. /\ sp = w.space[s] /\ e \in Nat /\ sp.next <= e /\ r \in Areas /\ r.start = sp.next
       /\ n = [owned |-> sp.owned, tables |-> sp.tables, regions |-> R,
               pte |-> sp.pte, swapped |-> sp.swapped, next |-> e]
  BY <1>2, <1>3, <1>4, <1>5
<1>11. \A t \in Spaces, p \in Pages :
          t # s \/ p < sp.next \/ p >= e => v.value[t][p] = w.value[t][p]
  BY <1>6
<1>12. Extended(w, v, s, sp, n, R, r, e)
  BY ONLY <1>6, <1>7, <1>8, <1>9, <1>10, <1>11 DEF Extended
<1> QED BY <1>3, <1>12, ExtendKeeps

(* Some of the surface's frames are mapped behind the range's start.       *)
LEMMA ShareKeeps ==
  ASSUME IInv, NEW s \in Spaces, NEW fs, NEW len, NEW r, Placed(s, fs, len, r),
         CanRegister(space[s], r), NEW k \in 0 .. len, NEW ps, ps = FirstPages(r, k),
         ps \cap DOMAIN space[s].pte = {},
         NEW fr, fr = [p \in ps |-> fs[p - r.start + 1]],
         NEW n, n = SharedSpace(space[s], r, fr, ps),
         NEW v, Changed(v, s, n, [creating EXCEPT ![s] = 0])
  PROVE  /\ Inv(v) /\ v.space[s] = n /\ IsLive(v.space, s) /\ n \in AddressSpaces
         /\ ~stale => \A t \in Spaces, q \in Pages : \A j \in DOMAIN fs :
               Maps(v.space, t, q, fs[j]) => t = s /\ q \in ps
<1>1. PICK sp : sp = space[s]
  OBVIOUS
<1>2. PICK R : R = sp.regions \cup {r}
  OBVIOUS
<1>3. PICK m : m = [owned |-> sp.owned, tables |-> sp.tables, regions |-> R,
                    pte |-> sp.pte, swapped |-> sp.swapped, next |-> r.end]
  OBVIOUS
<1>4. PICK u : u = [free |-> free, mem |-> mem, cache |-> cache, swap |-> swap,
                    lost |-> lost, space |-> [space EXCEPT ![s] = m], surface |-> surface,
                    creating |-> creating, value |-> value, stale |-> stale]
  OBVIOUS
<1>5. Changed(u, s, m, creating)
  BY <1>4 DEF Changed
<1>6. Inv(u) /\ u.space[s] = m /\ IsLive(u.space, s)
  BY <1>1, <1>2, <1>3, <1>5, PlaceKeeps
<1>7. /\ m.owned = sp.owned /\ m.tables = sp.tables /\ m.regions = R /\ m.pte = sp.pte
      /\ m.swapped = sp.swapped /\ m.next = r.end
  BY <1>3
<1>8. /\ SpaceOK(s, sp) /\ len \in Nat \ {0} /\ DOMAIN fs = 1 .. len
      /\ AreaOK(s, r) /\ r.start = sp.next /\ r.end = sp.next + len /\ r.write
  BY <1>1, PlacedRegion
<1>9. /\ ps \subseteq Pages
      /\ \A p \in ps : /\ InRegion(r, p) /\ p - r.start + 1 \in 1 .. len
                       /\ p \notin DOMAIN sp.swapped /\ p >= sp.next
  <2>1. len \in Nat
    BY <1>8
  <2> QED BY <1>8, <2>1, FirstPagesFit
<1>10. ~stale => \A p \in ps : value[s][p] = Zero
  <2>1. SUFFICES ASSUME ~stale, NEW p \in ps PROVE value[s][p] = Zero
    OBVIOUS
  <2>2. Kept(Now)
    BY <2>1, NowTyped
  <2>3. IsLive(Now.space, s) /\ p \in Pages /\ p >= Now.space[s].next /\ Now.value = value
    BY Zenon, <1>1, <1>9 DEF Placed, IsLive, Now
  <2> QED BY <2>2, <2>3 DEF Kept
<1>11. creating[s] # 0 /\ fs = surface[creating[s]].frames
  BY Zenon DEF Placed
<1>12. \A p \in ps : /\ InRegion(r, p) /\ p - r.start + 1 \in DOMAIN fs
                     /\ p \notin DOMAIN m.pte /\ p \notin DOMAIN m.swapped
                     /\ ~u.stale => u.value[s][p] = Zero
  <2>1. u.stale = stale /\ u.value = value
    BY <1>4
  <2> QED BY <1>1, <1>7, <1>8, <1>9, <1>10, <2>1
<1>13. n = [owned |-> m.owned, tables |-> m.tables \cup {TableOf(p) : p \in ps},
            regions |-> m.regions,
            pte |-> [p \in DOMAIN m.pte \cup ps |->
                        IF p \in ps THEN [frame |-> fr[p], write |-> TRUE] ELSE m.pte[p]],
            swapped |-> m.swapped, next |-> m.next]
  BY <1>1, <1>2, <1>7 DEF SharedSpace
<1>14. Replaced(u, v, s, n)
  <2>1. space = [t \in Spaces |-> space[t]]
    BY NowTyped
  <2>2. u.space = [space EXCEPT ![s] = m] /\ v.space = [space EXCEPT ![s] = n]
    BY <1>4 DEF Changed
  <2> QED BY <2>1, <2>2 DEF Replaced
<1>15. /\ v.creating = [u.creating EXCEPT ![s] = 0]
       /\ v.free = u.free /\ v.mem = u.mem /\ v.cache = u.cache /\ v.lost = u.lost
       /\ v.swap = u.swap /\ v.surface = u.surface /\ v.value = u.value /\ v.stale = u.stale
       /\ u.creating[s] # 0 /\ fs = u.surface[u.creating[s]].frames /\ v.stale = stale
  BY <1>4, <1>11 DEF Changed
<1>16. m = u.space[s] /\ r \in m.regions /\ r.write /\ ps \subseteq Pages
  BY <1>2, <1>6, <1>7, <1>8, <1>9
<1>17. SurfaceEntered(u, v, s, m, n, r, fs, ps, fr)
  BY ONLY Zenon, <1>12, <1>13, <1>14, <1>15, <1>16, fr = [p \in ps |-> fs[p - r.start + 1]]
     DEF SurfaceEntered
<1>18. /\ Inv(v) /\ v.space[s] = n /\ IsLive(v.space, s) /\ n \in AddressSpaces
       /\ ~v.stale => \A t \in Spaces, q \in Pages : \A j \in DOMAIN fs :
             Maps(v.space, t, q, fs[j]) => t = s /\ q \in ps
  BY <1>6, <1>17, SurfaceEnterKeeps
<1> QED BY Zenon, <1>15, <1>18

(* The surface goes again, from a record m whose space does not map it.    *)
Undone(s, m) ==
    /\ Commit(s, [m EXCEPT !.free = @ \cup SurfaceFrames(creating[s])])
    /\ surface' = FreeSurface(creating[s])
    /\ creating' = [creating EXCEPT ![s] = 0]
    /\ UNCHANGED <<value, stale>>

Holds(u, s, m) ==
    /\ u.free = m.free /\ u.mem = m.mem /\ u.cache = m.cache /\ u.swap = m.swap
    /\ u.lost = m.lost /\ u.space = [space EXCEPT ![s] = m.sp]
    /\ u.surface = surface /\ u.value = value /\ u.stale = stale
    /\ u.creating \in {creating, [creating EXCEPT ![s] = 0]}
    /\ m = [free |-> m.free, mem |-> m.mem, cache |-> m.cache, swap |-> m.swap,
            lost |-> m.lost, sp |-> m.sp]

LEMMA SurfaceUndone ==
  ASSUME IInv, NEW s \in Spaces, creating[s] # 0, NEW m, NEW u, Inv(u), Holds(u, s, m),
         ~stale => \A t \in Spaces, q \in Pages : \A j \in DOMAIN surface[creating[s]].frames :
                      ~Maps(u.space, t, q, surface[creating[s]].frames[j]),
         Undone(s, m)
  PROVE  IInv'
<1>1. PICK i, fr : i = creating[s] /\ fr = SurfaceFrames(i)
  OBVIOUS
<1>2. /\ u.free = m.free /\ u.mem = m.mem /\ u.cache = m.cache /\ u.swap = m.swap
      /\ u.lost = m.lost /\ u.space = [space EXCEPT ![s] = m.sp]
      /\ u.surface = surface /\ u.value = value /\ u.stale = stale
      /\ u.creating \in {creating, [creating EXCEPT ![s] = 0]}
      /\ m = [free |-> m.free, mem |-> m.mem, cache |-> m.cache, swap |-> m.swap,
              lost |-> m.lost, sp |-> m.sp]
  BY DEF Holds
<1>3. PICK w : w = Now
  OBVIOUS
<1>4. Typed(w) /\ Typed(u)
  BY <1>3, NowTyped DEF Inv
<1>5. /\ creating = [t \in Spaces |-> creating[t]]
      /\ \A t \in Spaces : creating[t] # 0 =>
            creating[t] \in DOMAIN surface /\ surface[creating[t]].owner = t
  BY <1>3, <1>4 DEF Typed, Now
<1>6. i \in DOMAIN surface /\ surface[i].owner = s /\ i # 0
  BY <1>1, <1>5
<1>7. \A t \in Spaces : creating'[t] # i
  <2>1. creating' = [creating EXCEPT ![s] = 0]
    BY DEF Undone
  <2>2. creating'[s] = 0 /\ \A t \in Spaces : t # s => creating'[t] = creating[t]
    BY <1>5, <2>1
  <2>3. ASSUME NEW t \in Spaces, t # s, creating[t] = i PROVE FALSE
    BY <1>5, <1>6, <2>3
  <2> QED BY <1>6, <2>2, <2>3
<1>8. fr = {surface[i].frames[k] : k \in DOMAIN surface[i].frames}
  BY <1>1 DEF SurfaceFrames
<1>9. PICK v : v = [free |-> m.free \cup fr, mem |-> m.mem, cache |-> m.cache, swap |-> m.swap,
                    lost |-> m.lost, space |-> u.space, surface |-> Without(surface, i),
                    creating |-> creating', value |-> value, stale |-> stale]
  OBVIOUS
<1>10. v.creating \in {u.creating, [u.creating EXCEPT ![s] = 0]}
  <2>1. [[creating EXCEPT ![s] = 0] EXCEPT ![s] = 0] = [creating EXCEPT ![s] = 0]
    BY <1>5
  <2>2. v.creating = [creating EXCEPT ![s] = 0]
    BY <1>9 DEF Undone
  <2> QED BY <1>2, <2>1, <2>2
<1>11. stale \in BOOLEAN
  BY <1>3, <1>4 DEF Typed, Now
<1>12. ASSUME ~v.stale
       PROVE  ~u.stale /\ \A t \in Spaces, q \in Pages, f \in fr : ~Maps(u.space, t, q, f)
  <2>1. ~stale
    BY <1>9, <1>12
  <2>2. \A t \in Spaces, q \in Pages : \A j \in DOMAIN surface[i].frames :
           ~Maps(u.space, t, q, surface[i].frames[j])
    BY <1>1, <2>1
  <2>3. ASSUME NEW t \in Spaces, NEW q \in Pages, NEW f \in fr PROVE ~Maps(u.space, t, q, f)
    <3>1. PICK j \in DOMAIN surface[i].frames : f = surface[i].frames[j]
      BY <1>8, <2>3
    <3> QED BY ONLY <2>2, <3>1, <2>3, Zenon
  <2>4. ~u.stale
    BY ONLY <1>2, <2>1
  <2> QED BY ONLY <2>3, <2>4, Zenon
<1>13. /\ v.surface = Without(u.surface, i) /\ v.free = u.free \cup fr
       /\ v.stale \in BOOLEAN /\ v.mem = u.mem /\ v.cache = u.cache /\ v.lost = u.lost
       /\ v.swap = u.swap /\ v.space = u.space /\ v.value = u.value
       /\ i \in DOMAIN u.surface
       /\ fr = {u.surface[i].frames[k] : k \in DOMAIN u.surface[i].frames}
       /\ \A t \in Spaces : v.creating[t] # i
  BY <1>2, <1>6, <1>7, <1>8, <1>9, <1>11
<1>14. SurfaceFreed(u, v, s, i, fr)
  BY <1>10, <1>12, <1>13 DEF SurfaceFreed
<1>15. Inv(v)
  BY <1>14, SurfaceFreeKeeps
<1>16. PICK g : g = m.free \cup fr
  OBVIOUS
<1>17. PICK o : o = [m EXCEPT !.free = @ \cup fr]
  OBVIOUS
<1>18. /\ o.free = g /\ o.mem = m.mem /\ o.cache = m.cache /\ o.swap = m.swap
       /\ o.lost = m.lost /\ o.sp = m.sp
  BY ONLY <1>2, <1>16, <1>17
<1>19. /\ free' = o.free /\ mem' = Abandoned(o.mem, o.free) /\ cache' = o.cache
       /\ swap' = o.swap /\ lost' = o.lost /\ space' = [space EXCEPT ![s] = o.sp]
  BY <1>1, <1>17 DEF Undone, Commit
<1>20. m.mem \in [Frames -> Contents]
  BY <1>2, <1>4 DEF Typed
<1>21. mem' \in [Frames -> Contents] /\ \A h \in Frames : h \notin v.free => mem'[h] = v.mem[h]
  BY <1>9, <1>16, <1>18, <1>19, <1>20, Abandons
<1>22. surface' = Without(surface, i) /\ value' = value /\ stale' = stale
  BY <1>1 DEF Undone, FreeSurface
<1>23. Stands(v)
  BY <1>2, <1>9, <1>16, <1>18, <1>19, <1>21, <1>22 DEF Stands
<1> QED BY <1>15, <1>23, Settle

(* Not mapped while it is being created.                                   *)
LEMMA CreatingUnmapped ==
  ASSUME NEW u, Inv(u), ~u.stale, NEW s \in Spaces, u.creating[s] # 0
  PROVE  \A t \in Spaces, q \in Pages : \A j \in DOMAIN u.surface[u.creating[s]].frames :
            ~Maps(u.space, t, q, u.surface[u.creating[s]].frames[j])
BY DEF Inv, Backed

(* The ways the second half of sys_surface_create goes.                    *)
LEMMA MapSurfaceCases ==
  ASSUME NEW s \in Spaces, space[s] # NoSpace, MapSurface(s),
         NEW fs, NEW len \in Nat, fs = surface[creating[s]].frames, len = Len(fs)
  PROVE  \/ Undone(s, State(s))
         \/ \E r : Placed(s, fs, len, r) /\ Undone(s, [State(s) EXCEPT !.sp = Reserve(@, r)])
         \/ \E r : /\ Placed(s, fs, len, r) /\ CanRegister(space[s], r)
                   /\ FirstPages(r, len) \cap DOMAIN space[s].pte = {}
                   /\ Commit(s, SharedRecord(State(s), r, fs, FirstPages(r, len)))
                   /\ creating' = [creating EXCEPT ![s] = 0]
                   /\ UNCHANGED <<surface, value, stale>>
         \/ \E r : \E k \in 0 .. len :
               /\ Placed(s, fs, len, r) /\ CanRegister(space[s], r)
               /\ FirstPages(r, k) \cap DOMAIN space[s].pte = {}
               /\ Undone(s, UnmapRecord(SharedRecord(State(s), r, fs, FirstPages(r, k)),
                                        FirstPages(r, k), r))
<1>1. PICK i, st : i = creating[s] /\ st = State(s)
  OBVIOUS
<1>2. PICK regions :
         regions = {Region(a, len, "Surface", TRUE, FALSE, 0) : a \in Ranges(s, len)}
  OBVIOUS
<1>3. PICK q \in Shown(s, i) :
         /\ Commit(s, IF q.ok THEN q.st ELSE [q.st EXCEPT !.free = @ \cup SurfaceFrames(i)])
         /\ surface' = IF q.ok THEN surface ELSE FreeSurface(i)
  BY <1>1 DEF MapSurface
<1>8. Shown(s, i) = IF regions = {} THEN {Failed(st)}
                    ELSE UNION {IF CanRegister(space[s], r) THEN MapShared(st, r, i)
                                ELSE {Failed([st EXCEPT !.sp = Reserve(@, r)])} : r \in regions}
  BY <1>1, <1>2 DEF Shown
<1>4. i # 0 /\ creating' = [creating EXCEPT ![s] = 0] /\ UNCHANGED <<value, stale>>
  BY <1>1 DEF MapSurface
<1>5. ASSUME ~q.ok PROVE Undone(s, q.st)
  BY <1>1, <1>3, <1>4, <1>5 DEF Undone
<1>6. CASE regions = {}
  <2>1. q = Failed(st)
    BY <1>3, <1>6, <1>8
  <2>2. ~q.ok /\ q.st = st
    BY <2>1 DEF Failed
  <2> QED BY <1>1, <1>5, <2>2
<1>7. CASE regions # {}
  <2>1. PICK r \in regions :
           q \in IF CanRegister(space[s], r) THEN MapShared(st, r, i)
                 ELSE {Failed([st EXCEPT !.sp = Reserve(@, r)])}
    BY <1>3, <1>7, <1>8
  <2>2. Placed(s, fs, len, r)
    <3>1. PICK a \in Ranges(s, len) : r = Region(a, len, "Surface", TRUE, FALSE, 0)
      BY <1>2, <2>1
    <3>2. a = space[s].next /\ a + len - 1 <= NPages[s]
      BY <3>1 DEF Ranges
    <3> QED BY <1>1, <1>4, <3>1, <3>2 DEF Placed
  <2>3. CASE ~CanRegister(space[s], r)
    <3>1. q = Failed([st EXCEPT !.sp = Reserve(@, r)])
      BY <2>1, <2>3
    <3>2. ~q.ok /\ q.st = [st EXCEPT !.sp = Reserve(@, r)]
      BY <3>1 DEF Failed
    <3> QED BY <1>1, <1>5, <2>2, <3>2
  <2>4. CASE CanRegister(space[s], r)
    <3>1. q \in MapShared(st, r, i)
      BY <2>1, <2>4
    <3>2. st.sp = space[s]
      BY <1>1 DEF State
    <3>3. \/ /\ q.ok /\ q.st = SharedRecord(st, r, fs, FirstPages(r, len))
             /\ FirstPages(r, len) \cap DOMAIN st.sp.pte = {}
          \/ \E k \in 0 .. len : /\ ~q.ok
                                 /\ q.st = UnmapRecord(SharedRecord(st, r, fs, FirstPages(r, k)),
                                                       FirstPages(r, k), r)
                                 /\ FirstPages(r, k) \cap DOMAIN st.sp.pte = {}
      BY <1>1, <3>1, SharedOutcomes
    <3>4. CASE q.ok
      <4>1. q.st = SharedRecord(st, r, fs, FirstPages(r, len))
            /\ FirstPages(r, len) \cap DOMAIN space[s].pte = {}
        BY <3>2, <3>3, <3>4
      <4>2. Commit(s, q.st) /\ surface' = surface
        BY <1>3, <3>4
      <4> QED BY <1>1, <1>4, <2>2, <2>4, <4>1, <4>2
    <3>5. CASE ~q.ok
      <4>1. PICK k \in 0 .. len :
               /\ q.st = UnmapRecord(SharedRecord(st, r, fs, FirstPages(r, k)), FirstPages(r, k),
                                  r)
               /\ FirstPages(r, k) \cap DOMAIN space[s].pte = {}
        BY <3>2, <3>3, <3>5
      <4>2. Undone(s, UnmapRecord(SharedRecord(st, r, fs, FirstPages(r, k)), FirstPages(r, k), r))
        BY <1>5, <3>5, <4>1
      <4>3. \E x : \E y \in 0 .. len :
               /\ Placed(s, fs, len, x) /\ CanRegister(space[s], x)
               /\ FirstPages(x, y) \cap DOMAIN space[s].pte = {}
               /\ Undone(s, UnmapRecord(SharedRecord(st, x, fs, FirstPages(x, y)), FirstPages(x, y),
                                     x))
        BY ONLY <2>2, <2>4, <4>1, <4>2, k \in 0 .. len
      <4> QED BY <1>1, <4>3
    <3> QED BY <3>4, <3>5
  <2> QED BY <2>3, <2>4
<1> QED BY <1>6, <1>7

(* No range, or no room for the region.                                    *)
LEMMA NotPlacedKeeps ==
  ASSUME IInv, NEW s \in Spaces, space[s] # NoSpace, creating[s] # 0, Undone(s, State(s))
  PROVE  IInv'
<1>1. PICK m, u : m = State(s) /\ u = Now
  OBVIOUS
<1>2. Inv(u) /\ Working(s, m) /\ World(s, m) = u
  BY <1>1, StateWorks DEF IInv
<1>3. Holds(u, s, m)
  <2>1. space = [space EXCEPT ![s] = space[s]]
    BY NowTyped
  <2>2. m = [free |-> free, mem |-> mem, cache |-> cache, swap |-> swap, lost |-> lost,
             sp |-> space[s]]
    BY <1>1 DEF State
  <2>3. /\ u.free = free /\ u.mem = mem /\ u.cache = cache /\ u.swap = swap /\ u.lost = lost
        /\ u.space = space /\ u.surface = surface /\ u.creating = creating
        /\ u.value = value /\ u.stale = stale
    BY <1>1 DEF Now
  <2> QED BY <2>1, <2>2, <2>3 DEF Holds
<1>4. ASSUME ~stale
      PROVE  \A t \in Spaces, q \in Pages : \A j \in DOMAIN surface[creating[s]].frames :
                ~Maps(u.space, t, q, surface[creating[s]].frames[j])
  <2>1. ~u.stale /\ u.creating[s] # 0 /\ u.creating = creating /\ u.surface = surface
    BY <1>1, <1>4 DEF Now
  <2> QED BY <1>2, <2>1, CreatingUnmapped
<1> QED BY <1>1, <1>2, <1>3, <1>4, SurfaceUndone

LEMMA NotRegisteredKeeps ==
  ASSUME IInv, NEW s \in Spaces, NEW fs, NEW len, NEW r, Placed(s, fs, len, r),
         Undone(s, [State(s) EXCEPT !.sp = Reserve(@, r)])
  PROVE  IInv'
<1>1. PICK sp, n : sp = space[s] /\ n = Reserve(sp, r)
  OBVIOUS
<1>2. sp \in AddressSpaces /\ creating[s] # 0 /\ space[s] # NoSpace
  BY <1>1, PlacedRegion DEF Placed
<1>3. n = [owned |-> sp.owned, tables |-> sp.tables, regions |-> sp.regions,
           pte |-> sp.pte, swapped |-> sp.swapped, next |-> r.end]
  BY <1>1, <1>2, ReserveFields
<1>4. PICK m : m = [State(s) EXCEPT !.sp = Reserve(@, r)]
  OBVIOUS
<1>5. m = [State(s) EXCEPT !.sp = n]
  BY <1>1, <1>4 DEF State
<1>6. m = [free |-> free, mem |-> mem, cache |-> cache, swap |-> swap, lost |-> lost, sp |-> n]
  BY <1>5 DEF State
<1>7. PICK u : u = [free |-> free, mem |-> mem, cache |-> cache, swap |-> swap,
                    lost |-> lost, space |-> [space EXCEPT ![s] = n], surface |-> surface,
                    creating |-> creating, value |-> value, stale |-> stale]
  OBVIOUS
<1>8. Changed(u, s, n, creating)
  BY <1>7 DEF Changed
<1>9. Inv(u)
  BY <1>1, <1>3, <1>8, PlaceKeeps
<1>10. Holds(u, s, m)
  BY <1>6, <1>7 DEF Holds
<1>11. ASSUME ~stale
       PROVE  \A t \in Spaces, q \in Pages : \A j \in DOMAIN surface[creating[s]].frames :
                 ~Maps(u.space, t, q, surface[creating[s]].frames[j])
  <2>1. ~u.stale /\ u.creating[s] # 0 /\ u.creating = creating /\ u.surface = surface
    BY <1>2, <1>7, <1>11
  <2> QED BY <1>9, <2>1, CreatingUnmapped
<1>12. Undone(s, m)
  BY <1>4
<1> QED BY <1>2, <1>9, <1>10, <1>11, <1>12, SurfaceUndone

(* The record after frames were mapped, and the state it stands for.       *)
Sharing(s, fs, len, r, k, ps) ==
    /\ Placed(s, fs, len, r) /\ CanRegister(space[s], r) /\ k \in 0 .. len
    /\ ps = FirstPages(r, k) /\ ps \cap DOMAIN space[s].pte = {}

SharedTo(s, fs, r, ps, m, v) ==
    /\ Inv(v) /\ v.space[s] = m.sp /\ IsLive(v.space, s) /\ m.sp \in AddressSpaces
    /\ ~stale => \A t \in Spaces, q \in Pages : \A j \in DOMAIN fs :
          Maps(v.space, t, q, fs[j]) => t = s /\ q \in ps
    /\ m = [free |-> free, mem |-> mem, cache |-> cache, swap |-> swap, lost |-> lost,
            sp |-> m.sp]
    /\ m.sp.regions = space[s].regions \cup {r}

LEMMA SharedState ==
  ASSUME IInv, NEW s \in Spaces, NEW fs, NEW len, NEW r, NEW k, NEW ps,
         Sharing(s, fs, len, r, k, ps), NEW m, m = SharedRecord(State(s), r, fs, ps),
         NEW v, Changed(v, s, m.sp, [creating EXCEPT ![s] = 0])
  PROVE  SharedTo(s, fs, r, ps, m, v)
<1>0. /\ Placed(s, fs, len, r) /\ CanRegister(space[s], r) /\ k \in 0 .. len
      /\ ps = FirstPages(r, k) /\ ps \cap DOMAIN space[s].pte = {}
  BY DEF Sharing
<1>1. PICK st : st = State(s)
  BY SMTT(30)
<1>2. Working(s, st) /\ Shaped(st)
  BY <1>0, <1>1, StateWorks, WorkingShaped DEF Placed
<1>3. st = [free |-> free, mem |-> mem, cache |-> cache, swap |-> swap, lost |-> lost,
            sp |-> space[s]]
  BY <1>1 DEF State
<1>4. /\ st.free = free /\ st.mem = mem /\ st.cache = cache /\ st.swap = swap
      /\ st.lost = lost /\ st.sp = space[s]
  BY ONLY <1>3
<1>5. st.sp \in AddressSpaces
  BY <1>2 DEF Working
<1>6. PICK fr : fr = [p \in ps |-> fs[p - r.start + 1]]
  OBVIOUS
<1>7. PICK n : n = SharedSpace(space[s], r, fr, ps)
  OBVIOUS
<1>8. m = SharedRecord(st, r, fs, ps)
  BY <1>1
<1>9. m = [free |-> st.free, mem |-> st.mem, cache |-> st.cache, swap |-> st.swap,
           lost |-> st.lost, sp |-> SharedSpace(st.sp, r, fr, ps)]
  BY <1>2, <1>5, <1>6, <1>8, SharedFields
<1>10. m = [free |-> free, mem |-> mem, cache |-> cache, swap |-> swap, lost |-> lost, sp |-> n]
  BY ONLY <1>4, <1>7, <1>9
<1>11. m.sp = n
  BY ONLY <1>10
<1>12. /\ Inv(v) /\ v.space[s] = n /\ IsLive(v.space, s) /\ n \in AddressSpaces
       /\ ~stale => \A t \in Spaces, q \in Pages : \A j \in DOMAIN fs :
             Maps(v.space, t, q, fs[j]) => t = s /\ q \in ps
  <2>1. Changed(v, s, n, [creating EXCEPT ![s] = 0])
    BY <1>11
  <2> QED BY <1>0, <1>6, <1>7, <2>1, ShareKeeps
<1>13. n.regions = space[s].regions \cup {r}
  BY ONLY <1>7 DEF SharedSpace
<1> QED BY ONLY <1>10, <1>11, <1>12, <1>13 DEF SharedTo

(* All frames are mapped.                                                  *)
LEMMA SharedAllKeeps ==
  ASSUME IInv, NEW s \in Spaces, NEW fs, NEW len, NEW r, NEW k, NEW ps,
         Sharing(s, fs, len, r, k, ps), Commit(s, SharedRecord(State(s), r, fs, ps)),
         creating' = [creating EXCEPT ![s] = 0], UNCHANGED <<surface, value, stale>>
  PROVE  IInv'
<1>3. PICK a : a = SharedRecord(State(s), r, fs, ps)
  OBVIOUS
<1>1. PICK w : w = [free |-> free, mem |-> mem, cache |-> cache, swap |-> swap,
                    lost |-> lost, space |-> [space EXCEPT ![s] = a.sp], surface |-> surface,
                    creating |-> [creating EXCEPT ![s] = 0], value |-> value, stale |-> stale]
  OBVIOUS
<1>2. Changed(w, s, a.sp, [creating EXCEPT ![s] = 0])
  BY <1>1 DEF Changed
<1>10. SharedTo(s, fs, r, ps, a, w)
  BY <1>2, <1>3, SharedState
<1>4. /\ Inv(w)
      /\ a = [free |-> free, mem |-> mem, cache |-> cache, swap |-> swap, lost |-> lost,
              sp |-> a.sp]
  BY ONLY <1>10 DEF SharedTo
<1>5. /\ a.free = free /\ a.mem = mem /\ a.cache = cache /\ a.swap = swap /\ a.lost = lost
  BY ONLY <1>4
<1>6. mem' = Abandoned(mem, free)
  BY <1>3, <1>5 DEF Commit
<1>7. mem \in [Frames -> Contents]
  BY NowTyped
<1>8. mem' \in [Frames -> Contents] /\ \A f \in Frames : f \notin w.free => mem'[f] = w.mem[f]
  BY <1>1, <1>6, <1>7, Abandons
<1>9. Stands(w)
  BY <1>1, <1>3, <1>5, <1>8 DEF Stands, Commit
<1> QED BY <1>4, <1>9, Settle

(* Behind the space's other pages nothing but the first pages is mapped,   *)
(* so that to unmap those is to unmap the region.                          *)
LEMMA FirstPagesOnly ==
  ASSUME IInv, NEW s \in Spaces, NEW fs, NEW len, NEW r, NEW k, NEW ps,
         Sharing(s, fs, len, r, k, ps), NEW a, a = SharedRecord(State(s), r, fs, ps)
  PROVE  /\ ps \subseteq PagesOf(r)
         /\ \A p \in PagesOf(r) \cap DOMAIN a.sp.pte : p \in ps
         /\ PagesOf(r) \cap DOMAIN a.sp.swapped = {}
<1>1. PICK sp, st : sp = space[s] /\ st = State(s)
  OBVIOUS
<1>2. PICK fr : fr = [p \in ps |-> fs[p - r.start + 1]]
  OBVIOUS
<1>3. /\ Placed(s, fs, len, r) /\ k \in 0 .. len /\ ps = FirstPages(r, k)
  BY DEF Sharing
<1>4. /\ SpaceOK(s, sp) /\ sp \in AddressSpaces /\ len \in Nat /\ AreaOK(s, r) /\ r.start = sp.next
      /\ r.end = sp.next + len /\ st.sp = sp /\ sp.next \in Nat
  <2>1. SpaceOK(s, sp)
    BY <1>1, <1>3, PlacedRegion
  <2> QED BY <1>1, <1>3, <2>1, PlacedRegion DEF State, SpaceOK
<1>5. DOMAIN a.sp.pte = DOMAIN sp.pte \cup ps /\ a.sp.swapped = sp.swapped
  <2>1. Shaped(st)
    BY <1>1, <1>3, StateWorks, WorkingShaped DEF Placed
  <2>2. a.sp = SharedSpace(sp, r, fr, ps)
    BY <1>1, <1>2, <1>4, <2>1, SharedFields
  <2> QED BY <2>2 DEF SharedSpace
<1>6. ASSUME NEW p \in PagesOf(r) PROVE p \in Int /\ sp.next <= p /\ p < sp.next + len
  BY <1>4, <1>6 DEF PagesOf
<1>7. ASSUME NEW p \in ps PROVE p \in PagesOf(r)
  <2>1. PICK d : d = sp.next
    OBVIOUS
  <2>2. PICK j \in 1 .. k : p = d + j - 1
    BY <1>3, <1>4, <1>7, <2>1 DEF FirstPages
  <2>3. p \in d .. d + len - 1
    BY <1>3, <1>4, <2>1, <2>2
  <2> QED BY <1>4, <2>1, <2>3 DEF PagesOf
<1>8. ASSUME NEW p \in PagesOf(r), p \in DOMAIN sp.pte PROVE FALSE
  <2>1. p < sp.next
    BY <1>4, <1>8 DEF SpaceOK
  <2> QED BY <1>4, <1>6, <2>1
<1>9. ASSUME NEW p \in PagesOf(r), p \in DOMAIN sp.swapped PROVE FALSE
  <2>1. PICK q \in sp.regions : InRegion(q, p)
    BY <1>4, <1>9 DEF SpaceOK
  <2>2. PICK e : e = q.end
    OBVIOUS
  <2>3. e <= sp.next /\ e \in Nat
    BY <1>4, <2>1, <2>2 DEF SpaceOK, AreaOK, Areas
  <2>4. p < e
    BY <2>1, <2>2 DEF InRegion
  <2> QED BY <1>4, <1>6, <2>3, <2>4
<1> QED BY <1>5, <1>7, <1>8, <1>9

(* One is not: those before it are unmapped, and the surface goes.         *)
LEMMA SharedUndoneKeeps ==
  ASSUME IInv, NEW s \in Spaces, NEW fs, NEW len, NEW r, NEW k, NEW ps,
         Sharing(s, fs, len, r, k, ps),
         Undone(s, UnmapRecord(SharedRecord(State(s), r, fs, ps), ps, r))
  PROVE  IInv'
<1>0. /\ Placed(s, fs, len, r) /\ CanRegister(space[s], r) /\ k \in 0 .. len
      /\ ps = FirstPages(r, k) /\ ps \cap DOMAIN space[s].pte = {}
  BY DEF Sharing
<1>1. PICK a : a = SharedRecord(State(s), r, fs, ps)
  OBVIOUS
<1>2. PICK w : w = [free |-> free, mem |-> mem, cache |-> cache, swap |-> swap,
                    lost |-> lost, space |-> [space EXCEPT ![s] = a.sp], surface |-> surface,
                    creating |-> [creating EXCEPT ![s] = 0], value |-> value, stale |-> stale]
  OBVIOUS
<1>3. Changed(w, s, a.sp, [creating EXCEPT ![s] = 0])
  BY <1>2 DEF Changed
<1>4. /\ Inv(w) /\ w.space[s] = a.sp /\ IsLive(w.space, s) /\ a.sp \in AddressSpaces
      /\ ~stale => \A t \in Spaces, q \in Pages : \A j \in DOMAIN fs :
            Maps(w.space, t, q, fs[j]) => t = s /\ q \in ps
      /\ a = [free |-> free, mem |-> mem, cache |-> cache, swap |-> swap, lost |-> lost,
              sp |-> a.sp]
      /\ a.sp.regions = space[s].regions \cup {r}
  <2>1. SharedTo(s, fs, r, ps, a, w)
    BY <1>1, <1>3, SharedState
  <2> QED BY ONLY <2>1 DEF SharedTo
<1>5. Typed(w) /\ SpaceOK(s, a.sp)
  <2>1. Typed(w)
    BY <1>4 DEF Inv
  <2> QED BY <1>4, <2>1, Here
<1>6. /\ a.free = free /\ a.mem = mem /\ a.cache = cache /\ a.swap = swap /\ a.lost = lost
  BY ONLY <1>4
<1>7. Shaped(a)
  <2>1. a.sp = [owned |-> a.sp.owned, tables |-> a.sp.tables, regions |-> a.sp.regions,
                pte |-> a.sp.pte, swapped |-> a.sp.swapped, next |-> a.sp.next]
    BY <1>4, SpaceFields
  <2> QED BY <1>4, <1>6, <2>1 DEF Shaped
<1>8. PICK P, Q, cnt, G, X :
         /\ P = PagesOf(r) /\ Q = P \ DOMAIN a.sp.swapped /\ cnt = Uses(a.sp, Q)
         /\ G = {a.sp.pte[p].frame : p \in Q \cap DOMAIN a.sp.pte} \cap a.sp.owned
         /\ X = {a.sp.swapped[p] : p \in P \cap DOMAIN a.sp.swapped}
  OBVIOUS
<1>9. PICK m : m = UnmapRecord(a, ps, r)
  OBVIOUS
<1>10. PICK R : R = a.sp.regions \ {r}
  OBVIOUS
<1>11. /\ m.free = (a.free \cup FramesDropped(a.cache, cnt)) \cup G /\ m.mem = a.mem
       /\ m.cache = CacheAfter(a.cache, cnt) /\ m.swap = Beyond(a.swap, X)
       /\ m.lost = a.lost
       /\ m.sp = [owned |-> a.sp.owned \ G, tables |-> a.sp.tables,
                  regions |-> R, pte |-> Beyond(a.sp.pte, Q),
                  swapped |-> Beyond(a.sp.swapped, P), next |-> a.sp.next]
       /\ m = [free |-> m.free, mem |-> m.mem, cache |-> m.cache, swap |-> m.swap,
               lost |-> m.lost, sp |-> m.sp]
  <2>1. UnmapUses(a, P, Q, cnt, G, X)
    BY ONLY <1>8 DEF UnmapUses
  <2>3. /\ ps \subseteq P /\ \A p \in P \cap DOMAIN a.sp.pte : p \in ps
        /\ P \cap DOMAIN a.sp.swapped = {}
    BY <1>0, <1>1, <1>8, FirstPagesOnly
  <2>2. UnmapLeaves(a, P, Q, r, cnt, G, X, m)
    BY ONLY <1>7, <1>9, <2>1, <2>3, SameUnmap
  <2> QED BY ONLY <1>10, <2>2 DEF UnmapLeaves
<1>12. PICK v : v = [free |-> m.free, mem |-> m.mem, cache |-> m.cache, swap |-> m.swap,
                     lost |-> m.lost, space |-> [space EXCEPT ![s] = m.sp], surface |-> surface,
                     creating |-> [creating EXCEPT ![s] = 0], value |-> value, stale |-> stale]
  OBVIOUS
<1>13. /\ r \in a.sp.regions /\ P \subseteq Pages /\ R \subseteq a.sp.regions
       /\ \A q \in R, p \in P : ~InRegion(q, p)
       /\ \A q \in a.sp.regions \ R, p \in Pages : InRegion(q, p) => p \in P
       /\ \A p \in Pages : InRegion(r, p) => p \in P
  <2>1. r \in a.sp.regions
    BY <1>4
  <2>2. /\ P \subseteq Pages
        /\ \A p \in Pages : InRegion(r, p) <=> p \in P
        /\ \A q \in a.sp.regions \ {r}, p \in P : ~InRegion(q, p)
    BY <1>5, <1>8, <2>1, RegionPages
  <2> QED BY <1>10, <2>1, <2>2
<1>14. /\ v.free = (w.free \cup FramesDropped(w.cache, cnt)) \cup G
       /\ v.mem = w.mem /\ v.cache = CacheAfter(w.cache, cnt)
       /\ v.lost = w.lost /\ v.swap = Beyond(w.swap, X) /\ Rest(w, v)
  BY <1>2, <1>6, <1>11, <1>12 DEF Rest
<1>15. Replaced(w, v, s, m.sp)
  <2>1. space = [t \in Spaces |-> space[t]]
    BY NowTyped
  <2>2. w.space = [space EXCEPT ![s] = a.sp] /\ v.space = [space EXCEPT ![s] = m.sp]
    BY <1>2, <1>12
  <2> QED BY <2>1, <2>2 DEF Replaced
<1>16. /\ a.sp = w.space[s] /\ Q \subseteq P
       /\ ~w.stale => \A p \in P \cap DOMAIN a.sp.pte : p \in Q
  <2>1. ~w.stale => \A p \in DOMAIN a.sp.pte : p \notin DOMAIN a.sp.swapped
    BY <1>4, MappedOrStaged
  <2> QED BY <1>4, <1>8, <2>1
<1>17. Unmapped(w, v, s, a.sp, m.sp, P, Q, Q, R, cnt, G, X)
  BY ONLY Zenon, <1>8, <1>11, <1>13, <1>14, <1>15, <1>16 DEF Unmapped
<1>18. /\ Inv(v)
       /\ ~v.stale => \A t \in Spaces, q \in Pages, h \in Frames :
             Maps(v.space, t, q, h) <=> Maps(w.space, t, q, h) /\ ~(t = s /\ q \in P)
  BY SMTT(30), <1>4, <1>17, UnmapKeeps
<1>19. /\ ps \subseteq P /\ \A j \in DOMAIN fs : fs[j] \in Frames
       /\ fs = surface[creating[s]].frames /\ creating[s] # 0
  <2>1. /\ SpaceOK(s, space[s]) /\ len \in Nat \ {0} /\ AreaOK(s, r) /\ r.start = space[s].next
        /\ r.end = space[s].next + len /\ \A j \in DOMAIN fs : fs[j] \in Frames
    BY <1>0, PlacedRegion
  <2>2. len \in Nat
    BY <2>1
  <2>3. ps \subseteq Pages /\ \A p \in ps : InRegion(r, p)
    BY <1>0, <2>1, <2>2, FirstPagesFit
  <2> QED BY <1>0, <1>13, <2>1, <2>3 DEF Placed
<1>20. ASSUME ~stale
       PROVE  \A t \in Spaces, q \in Pages : \A j \in DOMAIN surface[creating[s]].frames :
                 ~Maps(v.space, t, q, surface[creating[s]].frames[j])
  <2>1. \A t \in Spaces, q \in Pages, h \in Frames :
           Maps(v.space, t, q, h) <=> Maps(w.space, t, q, h) /\ ~(t = s /\ q \in P)
    BY <1>12, <1>18, <1>20
  <2>2. \A t \in Spaces, q \in Pages : \A j \in DOMAIN fs :
           Maps(w.space, t, q, fs[j]) => t = s /\ q \in ps
    BY <1>4, <1>20
  <2>3. \A t \in Spaces, q \in Pages : \A j \in DOMAIN fs : ~Maps(v.space, t, q, fs[j])
    BY ONLY <1>19, <2>1, <2>2
  <2> QED BY <1>19, <2>3
<1>21. Holds(v, s, m)
  <2>1. m = [free |-> m.free, mem |-> m.mem, cache |-> m.cache, swap |-> m.swap,
             lost |-> m.lost, sp |-> m.sp]
    BY <1>11
  <2> QED BY ONLY <1>12, <2>1 DEF Holds
<1>22. Undone(s, m)
  BY <1>1, <1>8, <1>9
<1> QED BY <1>18, <1>19, <1>20, <1>21, <1>22, SurfaceUndone

LEMMA MapSurfaceKeeps ==
  ASSUME IInv, NEW s \in Spaces, MapSurface(s)
  PROVE  IInv'
<1>1. PICK fs, len : fs = surface[creating[s]].frames /\ len = Len(fs)
  OBVIOUS
<1>2. creating[s] # 0
  BY DEF MapSurface
<1>3. space[s] # NoSpace /\ len \in Nat
  <2>1. PICK w : w = Now
    OBVIOUS
  <2>2. Typed(w) /\ w.creating[s] # 0 /\ w.space = space /\ w.surface = surface
        /\ w.creating = creating
    BY <1>2, <2>1, NowTyped DEF Now
  <2>3. IsLive(w.space, s) /\ w.creating[s] \in DOMAIN w.surface
    BY <2>2, CreatingTypes
  <2>4. Len(w.surface[w.creating[s]].frames) \in 1 .. MaxRegion
    BY <2>2, <2>3, SurfaceTypes
  <2> QED BY <1>1, <2>2, <2>3, <2>4 DEF IsLive
<1>4. CASE Undone(s, State(s))
  BY <1>2, <1>3, <1>4, NotPlacedKeeps
<1>5. CASE \E r : Placed(s, fs, len, r) /\ Undone(s, [State(s) EXCEPT !.sp = Reserve(@, r)])
  BY <1>5, NotRegisteredKeeps
<1>6. CASE \E r : /\ Placed(s, fs, len, r) /\ CanRegister(space[s], r)
                  /\ FirstPages(r, len) \cap DOMAIN space[s].pte = {}
                  /\ Commit(s, SharedRecord(State(s), r, fs, FirstPages(r, len)))
                  /\ creating' = [creating EXCEPT ![s] = 0]
                  /\ UNCHANGED <<surface, value, stale>>
  <2>1. PICK k : k = len
    OBVIOUS
  <2>2. k \in 0 .. len
    BY <1>3, <2>1
  <2>3. PICK r : /\ Placed(s, fs, len, r) /\ CanRegister(space[s], r)
                 /\ FirstPages(r, k) \cap DOMAIN space[s].pte = {}
                 /\ Commit(s, SharedRecord(State(s), r, fs, FirstPages(r, k)))
                 /\ creating' = [creating EXCEPT ![s] = 0]
                 /\ UNCHANGED <<surface, value, stale>>
    BY <1>6, <2>1
  <2>4. PICK ps : ps = FirstPages(r, k)
    OBVIOUS
  <2>5. Sharing(s, fs, len, r, k, ps)
    BY <2>2, <2>3, <2>4 DEF Sharing
  <2> QED BY <2>3, <2>4, <2>5, SharedAllKeeps
<1>7. CASE \E r : \E k \in 0 .. len :
              /\ Placed(s, fs, len, r) /\ CanRegister(space[s], r)
              /\ FirstPages(r, k) \cap DOMAIN space[s].pte = {}
              /\ Undone(s, UnmapRecord(SharedRecord(State(s), r, fs, FirstPages(r, k)),
                                       FirstPages(r, k), r))
  <2>1. PICK r : \E k \in 0 .. len :
              /\ Placed(s, fs, len, r) /\ CanRegister(space[s], r)
              /\ FirstPages(r, k) \cap DOMAIN space[s].pte = {}
              /\ Undone(s, UnmapRecord(SharedRecord(State(s), r, fs, FirstPages(r, k)),
                                       FirstPages(r, k), r))
    BY <1>7
  <2>2. PICK k \in 0 .. len :
              /\ Placed(s, fs, len, r) /\ CanRegister(space[s], r)
              /\ FirstPages(r, k) \cap DOMAIN space[s].pte = {}
              /\ Undone(s, UnmapRecord(SharedRecord(State(s), r, fs, FirstPages(r, k)),
                                       FirstPages(r, k), r))
    BY <2>1
  <2>3. PICK ps : ps = FirstPages(r, k)
    OBVIOUS
  <2>4. Sharing(s, fs, len, r, k, ps)
    BY <2>2, <2>3 DEF Sharing
  <2> QED BY <2>2, <2>3, <2>4, SharedUndoneKeeps
<1> QED BY <1>1, <1>3, <1>4, <1>5, <1>6, <1>7, MapSurfaceCases

-----------------------------------------------------------------------------
(* The invariant. *)
LEMMA InitHolds ==
  ASSUME Init
  PROVE  IInv
<1>1. PICK w : w = Now
  OBVIOUS
<1>2. /\ w.free = Frames /\ w.mem = [f \in Frames |-> Junk] /\ w.cache = <<>> /\ w.swap = <<>>
      /\ w.lost = {} /\ w.space = [s \in Spaces |-> NoSpace] /\ w.surface = <<>>
      /\ w.creating = [s \in Spaces |-> 0]
      /\ w.value = [s \in Spaces |-> [p \in Pages |-> Zero]] /\ w.stale = FALSE
  BY <1>1 DEF Init, Now
<1>3. DOMAIN w.cache = {} /\ DOMAIN w.swap = {} /\ DOMAIN w.surface = {}
  BY <1>2
<1>4. \A s \in Spaces : ~IsLive(w.space, s) /\ w.creating[s] = 0
  BY <1>2 DEF IsLive
<1>5. /\ \A f : ~IsCached(w.cache, f) /\ ~IsOnSurface(w.surface, f) /\ ~IsOwned(w.space, f)
      /\ \A s \in Spaces : \A p, f : ~Maps(w.space, s, p, f) /\ ~Owns(w.space, s, f)
      /\ \A s \in Spaces : \A p, x : ~Shows(w.space, s, p, x) /\ ~Untouched(w.space, s, p, x)
  BY <1>3, <1>4 DEF IsCached, IsOnSurface, IsOwned, Owns, Maps, Shows, Untouched
<1>6. Typed(w)
  <2>1. IsFiniteSet({}) /\ Cardinality({}) = 0
    BY FS_EmptySet
  <2>2. IsFiniteSet(DOMAIN w.cache) /\ Cardinality(DOMAIN w.cache) <= MaxCachePages
    BY <1>3, <2>1, MemoryAssumption
  <2>3. /\ w.mem \in [Frames -> Contents] /\ w.value \in [Spaces -> [Pages -> Contents]]
        /\ w.space = [s \in Spaces |-> w.space[s]]
        /\ w.creating = [s \in Spaces |-> w.creating[s]]
        /\ w.free \subseteq Frames /\ w.lost \subseteq Frames /\ w.stale \in BOOLEAN
    <3>1. Zero \in Contents /\ Junk \in Contents
      BY DEF Contents
    <3>2. w.mem \in [Frames -> Contents] /\ w.value \in [Spaces -> [Pages -> Contents]]
      BY <1>2, <3>1
    <3>3. /\ w.space = [s \in Spaces |-> w.space[s]]
          /\ w.creating = [s \in Spaces |-> w.creating[s]]
      BY <1>2
    <3>4. w.free \subseteq Frames /\ w.lost \subseteq Frames
      BY <1>2
    <3>5. w.stale \in BOOLEAN
      BY ONLY <1>2
    <3> QED BY <3>2, <3>3, <3>4, <3>5
  <2> QED BY <1>3, <1>4, <2>2, <2>3 DEF Typed
<1>7. Hands(w)
  BY <1>2, <1>3, <1>5 DEF Hands
<1>8. SwapKept(w)
  BY <1>3, <1>5 DEF SwapKept
<1>9. Backed(w)
  BY <1>3, <1>4, <1>5 DEF Backed
<1>10. Kept(w)
  <2>1. \A s \in Spaces, p \in Pages : w.value[s][p] = Zero
    BY <1>2
  <2> QED BY <1>3, <1>4, <1>5, <2>1 DEF Kept
<1> QED BY <1>1, <1>6, <1>7, <1>8, <1>9, <1>10 DEF IInv, Inv

LEMMA StepKeeps ==
  ASSUME IInv, [Next]_vars
  PROVE  IInv'
<1>1. ASSUME UNCHANGED <<free, mem, space, cache, swap, surface, creating, value, stale, lost>>
      PROVE  IInv'
  <2>1. Now' = Now
    BY <1>1 DEF Now
  <2> QED BY <2>1 DEF IInv
<1>2. CASE UNCHANGED vars
  BY <1>1, <1>2 DEF vars
<1>3. CASE Next
  <2>1. ASSUME NEW s \in Spaces, Create(s) PROVE IInv'
    BY <2>1, CreateKeeps
  <2>2. ASSUME NEW s \in Spaces, Destroy(s) PROVE IInv'
    BY <2>2, DestroyKeeps
  <2>3. ASSUME NEW s \in Spaces, Munmap(s) PROVE IInv'
    BY <2>3, MunmapKeeps
  <2>4. ASSUME NEW s \in Spaces, MapSurface(s) PROVE IInv'
    BY <2>4, MapSurfaceKeeps
  <2>5. ASSUME NEW s \in Spaces, NEW p \in Pages, NEW write \in BOOLEAN, PageFault(s, p, write)
        PROVE  IInv'
    BY <2>5, PageFaultKeeps
  <2>6. ASSUME NEW s \in Spaces, NEW i \in Surfaces, SurfaceDestroy(s, i) PROVE IInv'
    BY <2>6, SurfaceDestroyKeeps
  <2>7. ASSUME NEW s \in Spaces, NEW n \in 1 .. MaxRegion, MmapAnon(s, n) PROVE IInv'
    BY <2>7, MmapKeeps
  <2>8. ASSUME NEW s \in Spaces, NEW n \in 1 .. MaxRegion, AllocSurface(s, n) PROVE IInv'
    BY <2>8, AllocSurfaceKeeps
  <2>9. ASSUME NEW s \in Spaces, NEW x \in Files, NEW private \in BOOLEAN,
               MmapFile(s, x, private)
        PROVE  IInv'
    BY <2>9, MmapKeeps
  <2>10. ASSUME ~stale, NEW s \in Spaces, NEW p \in Pages, Store(s, p) PROVE IInv'
    BY <2>10, StoreStepKeeps
  <2>11. ASSUME NEW x \in readable, Unlink(x) PROVE IInv'
    BY <1>1, <2>11 DEF Unlink
  <2> QED BY <1>3, <2>1, <2>2, <2>3, <2>4, <2>5, <2>6, <2>7, <2>8, <2>9, <2>10, <2>11 DEF Next
<1> QED BY <1>2, <1>3

(* What IInv says holds of every state, whatever the number of spaces,     *)
(* frames, pages, files and surfaces and the sizes of the tables.          *)
THEOREM MemoryInvariant == Spec => []IInv
<1>1. Init => IInv
  BY InitHolds
<1>2. IInv /\ [Next]_vars => IInv'
  BY StepKeeps
<1> QED BY <1>1, <1>2, PTL DEF Spec

(* The words of Memory for the relations of the invariant.                 *)
LEMMA HandsNamed ==
  /\ \A f : f \in CacheFrames <=> IsCached(cache, f)
  /\ \A f : f \in SurfacePages <=> IsOnSurface(surface, f)
  /\ \A f : f \in OwnedFrames <=> IsOwned(space, f)
BY DEF CacheFrames, SurfacePages, SurfaceFrames, OwnedFrames, Live, IsCached, IsOnSurface,
       IsOwned, Owns, IsLive

LEMMA InvFields ==
  ASSUME IInv, NEW w, w = Now
  PROVE  /\ Typed(w) /\ Hands(w) /\ SwapKept(w) /\ (~stale => Backed(w) /\ Kept(w))
         /\ w.free = free /\ w.mem = mem /\ w.cache = cache /\ w.swap = swap
         /\ w.lost = lost /\ w.space = space /\ w.surface = surface
         /\ w.creating = creating /\ w.value = value /\ w.stale = stale
<1>1. /\ w.free = free /\ w.mem = mem /\ w.cache = cache /\ w.swap = swap
      /\ w.lost = lost /\ w.space = space /\ w.surface = surface
      /\ w.creating = creating /\ w.value = value /\ w.stale = stale
  BY DEF Now
<1> QED BY <1>1, NowTyped

LEMMA TypesFollow ==
  ASSUME IInv
  PROVE  TypeOK
<1>1. PICK w : w = Now
  OBVIOUS
<1>2. /\ Typed(w)
      /\ w.free = free /\ w.mem = mem /\ w.cache = cache /\ w.swap = swap
      /\ w.lost = lost /\ w.space = space /\ w.surface = surface
      /\ w.creating = creating /\ w.value = value /\ w.stale = stale
  BY <1>1, InvFields
<1>3. \A s \in Spaces : space[s] # NoSpace => SpaceOK(s, space[s])
  BY <1>2 DEF Typed, IsLive
<1>4. space \in [Spaces -> AddressSpaces \cup {NoSpace}]
  <2>1. space = [s \in Spaces |-> space[s]]
    BY <1>2 DEF Typed
  <2>2. \A s \in Spaces : space[s] \in AddressSpaces \cup {NoSpace}
    BY <1>3 DEF SpaceOK
  <2> QED BY <2>1, <2>2
<1>5. \A s \in Live : /\ Cardinality(space[s].owned) <= MaxOwned
                      /\ Cardinality(space[s].regions) <= MaxVmAreas
  BY <1>3 DEF SpaceOK, Live
<1>6. \A s \in Spaces : creating[s] # 0 => s \in Live /\ creating[s] \in DOMAIN surface
  BY <1>2 DEF Typed, IsLive, Live
<1> QED BY <1>2, <1>4, <1>5, <1>6 DEF TypeOK, Typed

LEMMA AccountsFollow ==
  ASSUME IInv
  PROVE  Accounted
<1>1. PICK w : w = Now
  OBVIOUS
<1>2. /\ Typed(w) /\ Hands(w) /\ SwapKept(w)
      /\ w.free = free /\ w.mem = mem /\ w.cache = cache /\ w.swap = swap
      /\ w.lost = lost /\ w.space = space /\ w.surface = surface
      /\ w.creating = creating /\ w.value = value /\ w.stale = stale
  BY <1>1, InvFields
<1>3. /\ free \subseteq Frames /\ lost \subseteq Frames
      /\ \A f : IsCached(cache, f) => f \in Frames
      /\ \A f : IsOnSurface(surface, f) => f \in Frames
      /\ \A f : IsOwned(space, f) => f \in Frames
  <2>1. free \subseteq Frames /\ lost \subseteq Frames
    BY <1>2 DEF Typed
  <2>2. \A f : IsCached(cache, f) => f \in Frames
    BY <1>2, CacheTypes
  <2>3. \A f : IsOnSurface(surface, f) => f \in Frames
    BY <1>2, SurfaceTypes DEF IsOnSurface
  <2>4. ASSUME NEW f, NEW s \in Spaces, Owns(space, s, f) PROVE f \in Frames
    <3>1. IsLive(w.space, s) /\ f \in w.space[s].owned
      BY <1>2, <2>4 DEF Owns
    <3>2. w.space[s] \in AddressSpaces
      BY <1>2, <3>1, Here
    <3> QED BY <3>1, <3>2, SpaceFields
  <2> QED BY <2>1, <2>2, <2>3, <2>4 DEF IsOwned
<1>4. /\ \A f \in Frames :
            \/ f \in free \/ f \in lost \/ IsCached(cache, f)
            \/ IsOnSurface(surface, f) \/ IsOwned(space, f)
      /\ \A f \in Frames :
            /\ f \in free => /\ f \notin lost /\ ~IsCached(cache, f)
                             /\ ~IsOnSurface(surface, f) /\ ~IsOwned(space, f)
            /\ f \in lost => /\ ~IsCached(cache, f)
                             /\ ~IsOnSurface(surface, f) /\ ~IsOwned(space, f)
            /\ IsCached(cache, f) => ~IsOnSurface(surface, f) /\ ~IsOwned(space, f)
            /\ IsOnSurface(surface, f) => ~IsOwned(space, f)
  BY <1>2 DEF Hands
<1>5. /\ Frames = free \cup lost \cup CacheFrames \cup SurfacePages \cup OwnedFrames
      /\ free \cap (lost \cup CacheFrames \cup SurfacePages \cup OwnedFrames) = {}
      /\ lost \cap (CacheFrames \cup SurfacePages \cup OwnedFrames) = {}
      /\ CacheFrames \cap (SurfacePages \cup OwnedFrames) = {}
      /\ SurfacePages \cap OwnedFrames = {}
  BY ONLY <1>3, <1>4, HandsNamed
<1>6. /\ \A x, y \in DOMAIN cache : cache[x].frame = cache[y].frame => x = y
      /\ \A i, j \in DOMAIN surface :
            \A k \in DOMAIN surface[i].frames, l \in DOMAIN surface[j].frames :
               surface[i].frames[k] = surface[j].frames[l] => i = j /\ k = l
  BY <1>2 DEF Hands
<1>7. \A s, t \in Live : s # t => space[s].owned \cap space[t].owned = {}
  <2>1. SUFFICES ASSUME NEW s \in Live, NEW t \in Live, NEW f, f \in space[s].owned,
                        f \in space[t].owned
                 PROVE  s = t
    OBVIOUS
  <2>2. s \in Spaces /\ t \in Spaces /\ Owns(w.space, s, f) /\ Owns(w.space, t, f)
    BY <1>2, <2>1 DEF Live, Owns, IsLive
  <2>3. f \in Frames
    BY <1>2, <1>3, <2>2 DEF IsOwned
  <2> QED BY <1>2, <2>2, <2>3 DEF Hands
<1>8. \A s \in Live : \A p, x : Shows(w.space, s, p, x) <=>
         p \in DOMAIN space[s].swapped /\ space[s].swapped[p] = x
  BY <1>2 DEF Live, Shows, IsLive
<1>9. \A s \in Live : \A p \in DOMAIN space[s].swapped :
         p \in Pages /\ space[s].swapped[p] \in Slots /\ s \in Spaces
  <2>1. ASSUME NEW s \in Live PROVE s \in Spaces /\ space[s] \in AddressSpaces
    <3>1. s \in Spaces /\ IsLive(w.space, s)
      BY <1>2 DEF Live, IsLive
    <3> QED BY <1>2, <3>1, Here
  <2> QED BY <2>1, SpaceFields
<1>10. ~stale => DOMAIN swap = UNION {{space[s].swapped[p] : p \in DOMAIN space[s].swapped} :
                                      s \in Live}
  <2>1. SUFFICES ASSUME ~stale, NEW x
                 PROVE  x \in DOMAIN swap <=>
                           \E s \in Live : \E p \in DOMAIN space[s].swapped :
                              x = space[s].swapped[p]
    BY SMTT(30)
  <2>2. ASSUME x \in DOMAIN swap
        PROVE  \E s \in Live : \E p \in DOMAIN space[s].swapped : x = space[s].swapped[p]
    <3>1. PICK s \in Spaces, p \in Pages : Shows(w.space, s, p, x)
      BY <1>2, <2>1, <2>2 DEF SwapKept
    <3>2. s \in Live /\ p \in DOMAIN space[s].swapped /\ x = space[s].swapped[p]
      BY <1>2, <3>1 DEF Shows, Live, IsLive
    <3> QED BY <3>2
  <2>3. ASSUME NEW s \in Live, NEW p \in DOMAIN space[s].swapped, x = space[s].swapped[p]
        PROVE  x \in DOMAIN swap
    <3>1. Shows(w.space, s, p, x) /\ s \in Spaces /\ p \in Pages /\ x \in Slots
      BY <1>8, <1>9, <2>3
    <3> QED BY <1>2, <3>1 DEF SwapKept
  <2> QED BY <2>2, <2>3
<1>11. ASSUME NEW s \in Live, NEW t \in Live,
              NEW p \in DOMAIN space[s].swapped, NEW q \in DOMAIN space[t].swapped,
              space[s].swapped[p] = space[t].swapped[q]
       PROVE  s = t /\ p = q
  <2>1. PICK x : x = space[s].swapped[p]
    OBVIOUS
  <2>2. Shows(w.space, s, p, x) /\ Shows(w.space, t, q, x)
    BY <1>8, <1>11, <2>1
  <2>3. s \in Spaces /\ t \in Spaces /\ p \in Pages /\ q \in Pages /\ x \in Slots
    BY <1>9, <2>1
  <2> QED BY <1>2, <2>2, <2>3 DEF SwapKept
<1> QED BY <1>5, <1>6, <1>7, <1>10, <1>11 DEF Accounted

LEMMA BackingFollows ==
  ASSUME IInv
  PROVE  MappingsBacked
<1>1. SUFFICES ASSUME ~stale
               PROVE  /\ \A s \in Live : \A p \in DOMAIN space[s].pte :
                            space[s].pte[p].frame \in
                               space[s].owned \cup CacheFrames \cup SurfacePages
                      /\ \A x \in DOMAIN cache :
                            cache[x].refs = Cardinality(Mappers(cache[x].frame))
  BY DEF MappingsBacked
<1>2. PICK w : w = Now
  OBVIOUS
<1>3. /\ Typed(w) /\ Backed(w)
      /\ w.cache = cache /\ w.space = space /\ w.surface = surface
  BY <1>1, <1>2, InvFields
<1>4. ASSUME NEW s \in Live, NEW p \in DOMAIN space[s].pte
      PROVE  space[s].pte[p].frame \in space[s].owned \cup CacheFrames \cup SurfacePages
  <2>1. PICK f : f = space[s].pte[p].frame
    OBVIOUS
  <2>2. s \in Spaces /\ Maps(w.space, s, p, f)
    BY <1>3, <2>1 DEF Live, Maps, IsLive
  <2>3. p \in Pages /\ f \in Frames
    BY <1>3, <2>2, MapsTypes
  <2>4. Owns(space, s, f) \/ IsCached(cache, f) \/ IsOnSurface(surface, f)
    BY <1>3, <2>2, <2>3 DEF Backed
  <2> QED BY <2>1, <2>4, HandsNamed DEF Owns
<1>5. ASSUME NEW x \in DOMAIN cache PROVE cache[x].refs = Cardinality(Mappers(cache[x].frame))
  <2>1. PICK f : f = cache[x].frame
    OBVIOUS
  <2>2. Mappers(f) = MappersIn(space, f)
    BY DEF Mappers, MappersIn, Maps, Live, IsLive, Mapped
  <2>3. cache[x].refs = Cardinality(MappersIn(space, f))
    BY <1>3, <2>1 DEF Backed
  <2> QED BY <2>1, <2>2, <2>3
<1> QED BY <1>4, <1>5

LEMMA ContentFollows ==
  ASSUME IInv
  PROVE  ContentKept
<1>1. SUFFICES ASSUME ~stale, NEW s \in Live, NEW p \in Pages
               PROVE  Visible(s, p) = value[s][p]
  BY DEF ContentKept
<1>2. PICK w : w = Now
  OBVIOUS
<1>3. /\ Typed(w) /\ Kept(w) /\ w.mem = mem /\ w.swap = swap
      /\ w.space = space /\ w.value = value
  BY <1>1, <1>2, InvFields
<1>4. s \in Spaces /\ IsLive(space, s) /\ space[s] \in AddressSpaces
  <2>1. s \in Spaces /\ IsLive(w.space, s)
    BY <1>3 DEF Live, IsLive
  <2> QED BY <1>3, <2>1, Here
<1>5. CASE Mapped(space[s], p)
  <2>1. PICK f : f = space[s].pte[p].frame
    OBVIOUS
  <2>2. Maps(w.space, s, p, f)
    BY <1>3, <1>4, <1>5, <2>1 DEF Maps, Mapped
  <2>3. f \in Frames
    BY <1>3, <1>4, <2>2, MapsTypes
  <2>4. mem[f] = value[s][p]
    BY <1>3, <1>4, <2>2, <2>3 DEF Kept
  <2> QED BY <1>5, <2>1, <2>4 DEF Visible
<1>6. CASE ~Mapped(space[s], p) /\ Swapped(space[s], p)
  <2>1. PICK x : x = space[s].swapped[p]
    OBVIOUS
  <2>2. Shows(w.space, s, p, x)
    BY <1>3, <1>4, <1>6, <2>1 DEF Shows, Swapped
  <2>3. x \in Slots
    BY <1>4, <1>6, <2>1, SpaceFields DEF Swapped
  <2>4. swap[x] = value[s][p]
    BY <1>3, <1>4, <2>2, <2>3 DEF Kept
  <2> QED BY <1>6, <2>1, <2>4 DEF Visible
<1>7. CASE ~Mapped(space[s], p) /\ ~Swapped(space[s], p)
  BY <1>7 DEF Visible
<1> QED BY <1>5, <1>6, <1>7

(* TypeOK holds in every state: the tables of a space, the cache and the   *)
(* surfaces name frames that exist and stay within their limits.           *)
THEOREM MemoryTypes == Spec => []TypeOK
BY MemoryInvariant, TypesFollow, PTL

(* Accounted: the allocator, the spaces, the page cache and the surfaces   *)
(* never share a frame and none gets away but to an unreadable file, and a *)
(* swap slot is one page's, whatever fails half way or is torn down.       *)
THEOREM FramesAccounted == Spec => []Accounted
BY MemoryInvariant, AccountsFollow, PTL

(* MappingsBacked: as long as no surface was freed under its mapping, what *)
(* a page maps has an owner, and a cached page counts its mappings.        *)
THEOREM EveryMappingBacked == Spec => []MappingsBacked
BY MemoryInvariant, BackingFollows, PTL

(* ContentKept: as long, a page reads as it was last written, through      *)
(* faults, copies on write, swapping and the sharing of cached pages.      *)
THEOREM PagesKeepContent == Spec => []ContentKept
BY MemoryInvariant, ContentFollows, PTL
=============================================================================
