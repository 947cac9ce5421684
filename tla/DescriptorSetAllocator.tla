------------------------ MODULE DescriptorSetAllocator ------------------------
(***************************************************************************)
(* class DescriptorSetAllocator (layer.hpp, layer.cpp): the pools behind   *)
(* the descriptor sets of emulated push descriptors.  Every operation runs *)
(* under the allocator's own mutex from its first to its last statement,   *)
(* driver calls included, so an operation is one step.                     *)
(*                                                                         *)
(* The driver's side of a pool is `live`: the pools that exist and the     *)
(* sets each one holds.  The callers' side is `held`: the (pool, set)      *)
(* pairs allocate returned and free has not taken back, which the code     *)
(* keeps in command_buffer::liveDescriptorSets.  The vector exhaustedPools *)
(* is a set here: find_if takes its first vacant pool, the model any.      *)
(***************************************************************************)
EXTENDS Naturals, FiniteSets

CONSTANTS Pools,                   \* VkDescriptorPool handles
          Sets,                    \* VkDescriptorSet handles
          NoPool,                  \* VK_NULL_HANDLE
          MaxSets,                 \* PoolSizes::maxSets
          MaxEmptyPoolsToReserve   \* the member of that name

ASSUME HandlesAssumption ==
    /\ IsFiniteSet(Pools)
    /\ IsFiniteSet(Sets)
    /\ NoPool \notin Pools

ASSUME SizesAssumption ==
    /\ MaxSets \in Nat \ {0}
    /\ MaxEmptyPoolsToReserve \in Nat

VARIABLES open,             \* the device still owns its allocator
          activePool, exhaustedPools, occupancy, allocated_count,
          live, held

vars == <<open, activePool, exhaustedPools, occupancy, allocated_count,
          live, held>>

-------------------------------------------------------------------------------
\* f with v at key p, as an assignment to an unordered_map element does.
With(f, p, v) == [q \in DOMAIN f \cup {p} |-> IF q = p THEN v ELSE f[q]]

\* f without key p (unordered_map::erase).
Without(f, p) == [q \in DOMAIN f \ {p} |-> f[q]]

LiveSets == UNION {live[q] : q \in DOMAIN live}

\* Faulty variant: occupancy is not consulted when a pool is picked.
VacantAnyMutant(P) == P
\* The pools of P that hold no set according to occupancy.
Vacant(P) == {p \in P : occupancy[p] = 0}

\* Faulty variant: the full pool is dropped instead of being remembered.
RetiredForgetsMutant == exhaustedPools
\* exhaustedPools once the pool that refused to allocate has been pushed.
Retired == exhaustedPools \cup ({activePool} \ {NoPool})

-------------------------------------------------------------------------------
\* The driver creates pool p with no sets; the code notes occupancy 0.
Init ==
    /\ open = TRUE
    /\ exhaustedPools = {}
    /\ allocated_count = 0
    /\ held = {}
    /\ activePool \in Pools \cup {NoPool}
    /\ live = [p \in {activePool} \ {NoPool} |-> {}]
    /\ occupancy = [p \in {activePool} \ {NoPool} |-> 0]

\* Faulty variant: allocated_count is not told of the success.
SucceedUntalliedMutant(p, lv, occ) ==
    /\ Cardinality(lv[p]) < MaxSets
    /\ \E s \in Sets \ LiveSets :
         /\ live' = With(lv, p, lv[p] \cup {s})
         /\ held' = held \cup {<<p, s>>}
    /\ occupancy' = With(occ, p, occ[p] + 1)
    /\ UNCHANGED allocated_count

\* Faulty variant: success in a pool is not counted.
SucceedUncountedMutant(p, lv, occ) ==
    /\ Cardinality(lv[p]) < MaxSets
    /\ \E s \in Sets \ LiveSets :
         /\ live' = With(lv, p, lv[p] \cup {s})
         /\ held' = held \cup {<<p, s>>}
    /\ occupancy' = occ
    /\ allocated_count' = allocated_count + 1

\* vkAllocateDescriptorSets on p succeeds: the driver returns a handle that
\* is not live, the code counts it and returns the pool with it.
Succeed(p, lv, occ) ==
    /\ Cardinality(lv[p]) < MaxSets
    /\ \E s \in Sets \ LiveSets :
         /\ live' = With(lv, p, lv[p] \cup {s})
         /\ held' = held \cup {<<p, s>>}
    /\ occupancy' = With(occ, p, occ[p] + 1)
    /\ allocated_count' = allocated_count + 1

\* vkAllocateDescriptorSets fails; allocate returns the error.  The driver
\* may fail in a pool with room: fragmentation, a descriptor type used up,
\* memory.
Refuse(lv, occ) ==
    /\ live' = lv
    /\ occupancy' = occ
    /\ UNCHANGED <<allocated_count, held>>

\* allocate, when the active pool has room.
AllocateFromActive ==
    /\ open
    /\ activePool # NoPool
    /\ Succeed(activePool, live, occupancy)
    /\ UNCHANGED <<open, activePool, exhaustedPools>>

\* allocate, when the active pool is null or refuses and a vacant pool is
\* among the retired ones: it is reset, becomes the active pool, and the
\* driver is asked again.
AllocateFromVacant(p) ==
    /\ open
    /\ p \in Vacant(Retired)
    /\ activePool' = p
    /\ exhaustedPools' = Retired \ {p}
    /\ LET reset == With(live, p, {}) IN
         Succeed(p, reset, occupancy) \/ Refuse(reset, occupancy)
    /\ UNCHANGED open

\* allocate, when no retired pool is vacant and the driver creates pool p.
AllocateFromNew(p) ==
    /\ open
    /\ Vacant(Retired) = {}
    /\ p \in Pools \ DOMAIN live
    /\ activePool' = p
    /\ exhaustedPools' = Retired
    /\ LET created == With(live, p, {})
           counted == With(occupancy, p, 0)
       IN  Succeed(p, created, counted) \/ Refuse(created, counted)
    /\ UNCHANGED open

\* allocate, when no retired pool is vacant and no pool can be created: the
\* allocator is left without an active pool, and the error is returned.
AllocateNoPool ==
    /\ open
    /\ Vacant(Retired) = {}
    /\ activePool' = NoPool
    /\ exhaustedPools' = Retired
    /\ UNCHANGED <<open, occupancy, allocated_count, live, held>>

-------------------------------------------------------------------------------
\* Faulty variant: an emptied pool is never destroyed.
SurplusNeverMutant(pool, vacant) == FALSE
\* The emptied pool is one more than the allocator keeps in reserve.
Surplus(pool, vacant) ==
    /\ pool # activePool
    /\ pool \in vacant
    /\ Cardinality(vacant) > MaxEmptyPoolsToReserve

\* occupancy once a set of p is gone; the code never lets a count wrap.
Decremented(p) ==
    IF p \in DOMAIN occupancy /\ occupancy[p] > 0
    THEN With(occupancy, p, occupancy[p] - 1)
    ELSE occupancy

\* free: the driver frees the set, the counters follow, and a pool this
\* empties is destroyed when enough other exhausted pools are empty.
Free(pool, set) ==
    LET freed == With(live, pool, live[pool] \ {set})
        less  == Decremented(pool)
        vacant == {p \in exhaustedPools : less[p] = 0}
    IN  /\ open
        /\ <<pool, set>> \in held
        /\ held' = held \ {<<pool, set>>}
        /\ allocated_count' = allocated_count - 1
        /\ IF Surplus(pool, vacant)
           THEN /\ exhaustedPools' = exhaustedPools \ {pool}
                /\ live' = Without(freed, pool)
                /\ occupancy' = Without(less, pool)
           ELSE /\ live' = freed
                /\ occupancy' = less
                /\ UNCHANGED exhaustedPools
        /\ UNCHANGED <<open, activePool>>

\* cleanup, from DestroyDevice: every pool the allocator knows is destroyed
\* and the allocator goes with the device.  The application has destroyed
\* its command pools by then, which gives every set back.
Cleanup ==
    /\ open
    /\ held = {}
    /\ open' = FALSE
    /\ live' = [p \in DOMAIN live \ Retired |-> live[p]]
    /\ activePool' = NoPool
    /\ exhaustedPools' = {}
    /\ occupancy' = [p \in {} |-> 0]
    /\ UNCHANGED <<allocated_count, held>>

Next ==
    \/ AllocateFromActive
    \/ \E p \in Pools : AllocateFromVacant(p)
    \/ \E p \in Pools : AllocateFromNew(p)
    \/ AllocateNoPool
    \/ \E h \in held : Free(h[1], h[2])
    \/ Cleanup

Spec == Init /\ [][Next]_vars

-------------------------------------------------------------------------------
\* Handles are handles, and the counters, which are unsigned in the code, stay
\* natural numbers: allocated_count, decremented without a test, never wraps.
TypeOK ==
    /\ open \in BOOLEAN
    /\ activePool \in Pools \cup {NoPool}
    /\ exhaustedPools \in SUBSET Pools
    /\ DOMAIN occupancy \in SUBSET Pools
    /\ occupancy \in [DOMAIN occupancy -> Nat]
    /\ allocated_count \in Nat
    /\ DOMAIN live \in SUBSET Pools
    /\ live \in [DOMAIN live -> SUBSET Sets]
    /\ held \in SUBSET (Pools \X Sets)

\* The pools that exist in the driver are exactly the active and the
\* exhausted ones, and each has its entry in occupancy: no pool is leaked, no
\* destroyed pool is used again and occupancy.at never throws.
PoolsTracked ==
    /\ DOMAIN live = exhaustedPools \cup ({activePool} \ {NoPool})
    /\ DOMAIN occupancy = DOMAIN live
    /\ activePool \notin exhaustedPools

\* A pool's occupancy is the number of sets the driver has in it, and those
\* sets are the ones callers hold: the counter that decides whether a pool
\* may be reset or destroyed is never stale.
OccupancyExact ==
    /\ \A p \in DOMAIN live : occupancy[p] = Cardinality(live[p])
    /\ held = {h \in (DOMAIN live) \X Sets : h[2] \in live[h[1]]}

\* A set handle is live in one pool only.
SetsDisjoint ==
    \A p, q \in DOMAIN live : p # q => live[p] \cap live[q] = {}

\* At most maxEmptyPoolsToReserve exhausted pools sit empty, whatever the
\* order in which sets of different pools come back.
VacancyBounded ==
    Cardinality(Vacant(exhaustedPools)) <= MaxEmptyPoolsToReserve

\* The pools the driver has are bounded by the sets in use: every pool but
\* the active one and the reserve holds a set.
PoolsBounded ==
    Cardinality(DOMAIN live) <= Cardinality(held) + MaxEmptyPoolsToReserve + 1

\* allocatedCount() is the number of sets callers hold.
CountExact == allocated_count = Cardinality(held)

\* The allocator keeps the promise of SetLifetime: read as a store of leases,
\* it only ever ends the life of the one set its caller returns.
Lifetime == INSTANCE SetLifetime WITH
    issued <- {h[2] : h \in held},
    valid <- LiveSets

LifetimeSpec == Lifetime!Spec
===============================================================================
