-------------------------- MODULE DescriptorTracking --------------------------
(***************************************************************************)
(* The maps in which the layer notes what the application's descriptor     *)
(* objects are (descriptors.cpp, pipelines.cpp): the layout of every set   *)
(* and the sets of every pool, and one entry for every set layout, update  *)
(* template and pipeline layout.  The notes are made after the driver's    *)
(* call, in critical sections of their own; only the destruction of a pool *)
(* forgets first.  The driver meanwhile gives a freed handle to whichever  *)
(* thread asks next.                                                       *)
(*                                                                         *)
(* Vulkan makes the application use a pool or an object from one thread at *)
(* a time.  raced is history: the handles that were given out again while  *)
(* another thread had yet to erase their old entry.                        *)
(***************************************************************************)
EXTENDS FiniteSets

CONSTANTS Threads,
          Pools,      \* VkDescriptorPool handles
          Sets,       \* VkDescriptorSet handles
          Layouts,    \* what a set may be allocated with
          Handles,    \* of set layouts, update templates, pipeline layouts
          NoPool, NoLayout, NoObject


\* An object is named by its kind, for each kind has a map, and its handle.
Objects == {"setLayout", "updateTemplate", "pipelineLayout"} \X Handles

ASSUME NamesAssumption ==
    /\ NoPool \notin Pools
    /\ NoLayout \notin Layouts
    /\ NoObject \notin Objects

VARIABLES
    at, pool, batch,       \* thread: next step, its pool, the sets in its hands
    object,                \* thread: the object it creates or destroys
    poolOf, layoutOf,      \* driver: pool and layout of each set (none: free)
    objects,               \* driver: the objects that exist
    descriptorSetsMap,     \* set: its entry
    descriptorPoolsMap,    \* pool: its vector (empty: no entry)
    objectMaps,            \* the keys of descriptorSetLayoutsMap,
                           \* descriptorUpdateTemplatesMap, pipelineLayoutsMap
    raced, racedObjects

threadVars == <<at, pool, batch, object>>
driverVars == <<poolOf, layoutOf, objects>>
setVars    == <<descriptorSetsMap, descriptorPoolsMap, raced>>
objectVars == <<objectMaps, racedObjects>>
vars == <<threadVars, driverVars, setVars, objectVars>>

Init ==
    /\ at = [t \in Threads |-> "idle"]
    /\ pool = [t \in Threads |-> NoPool]
    /\ batch = [t \in Threads |-> {}]
    /\ object = [t \in Threads |-> NoObject]
    /\ poolOf = [s \in Sets |-> NoPool]
    /\ layoutOf = [s \in Sets |-> NoLayout]
    /\ objects = {}
    /\ descriptorSetsMap = [s \in Sets |-> NoLayout]
    /\ descriptorPoolsMap = [p \in Pools |-> {}]
    /\ objectMaps = {}
    /\ raced = {}
    /\ racedObjects = {}

\* f with the value v for the keys in S.
Assign(f, S, v) == [x \in DOMAIN f |-> IF x \in S THEN v ELSE f[x]]

Step(t, from, to) ==
    /\ at[t] = from
    /\ at' = [at EXCEPT ![t] = to]

\* A call on pool p begins with the driver's part, which changes the sets S.
Enter(t, p, S, to) ==
    /\ Step(t, "idle", to)
    /\ \A u \in Threads : pool[u] # p
    /\ pool' = [pool EXCEPT ![t] = p]
    /\ batch' = [batch EXCEPT ![t] = S]
    /\ UNCHANGED object

Return(t, from) ==
    /\ Step(t, from, "idle")
    /\ pool' = [pool EXCEPT ![t] = NoPool]
    /\ batch' = [batch EXCEPT ![t] = {}]
    /\ UNCHANGED object

OfPool(p) == {s \in Sets : poolOf[s] = p}

\* The sets a thread that has been to the driver has yet to erase.
Erasing(t) ==
    CASE at[t] \in {"untrackSets", "untrackPools", "eraseSets"} -> batch[t]
      [] at[t] = "takeVector" -> descriptorPoolsMap[pool[t]]
      [] OTHER -> {}

-------------------------------------------------------------------------------
(***************************************************************************)
(* Sets and their pools.                                                   *)
(***************************************************************************)

\* vkAllocateDescriptorSets succeeds for some sets with their layouts; a
\* failure returns at once.
AllocateDescriptorSets(t, p, S, l) ==
    /\ Enter(t, p, S, "trackSets")
    /\ S # {} /\ \A s \in S : poolOf[s] = NoPool
    /\ poolOf' = Assign(poolOf, S, p)
    /\ layoutOf' = [s \in Sets |-> IF s \in S THEN l[s] ELSE layoutOf[s]]
    /\ raced' = raced \cup (S \cap UNION {Erasing(u) : u \in Threads})
    /\ UNCHANGED <<objects, descriptorSetsMap, descriptorPoolsMap, objectVars>>

\* Faulty variant: a set keeps the entry its handle had before.
TrackSetsOnceMutant(t) ==
    /\ Step(t, "trackSets", "trackPool")
    /\ descriptorSetsMap' = [s \in Sets |->
         IF s \in batch[t] /\ descriptorSetsMap[s] = NoLayout
         THEN layoutOf[s] ELSE descriptorSetsMap[s]]
    /\ UNCHANGED <<pool, batch, object, driverVars, descriptorPoolsMap, raced,
                   objectVars>>

\* track_descriptor_sets: first the one map...
TrackSets(t) ==
    /\ Step(t, "trackSets", "trackPool")
    /\ descriptorSetsMap' =
         [s \in Sets |-> IF s \in batch[t] THEN layoutOf[s] ELSE descriptorSetsMap[s]]
    /\ UNCHANGED <<pool, batch, object, driverVars, descriptorPoolsMap, raced,
                   objectVars>>

\* ... then the other.
TrackPool(t) ==
    /\ Return(t, "trackPool")
    /\ descriptorPoolsMap' = [descriptorPoolsMap EXCEPT ![pool[t]] = @ \cup batch[t]]
    /\ UNCHANGED <<driverVars, descriptorSetsMap, raced, objectVars>>

\* vkFreeDescriptorSets succeeds.
FreeDescriptorSets(t, p, S) ==
    /\ Enter(t, p, S, "untrackSets")
    /\ S # {} /\ S \subseteq OfPool(p)
    /\ poolOf' = Assign(poolOf, S, NoPool)
    /\ layoutOf' = Assign(layoutOf, S, NoLayout)
    /\ raced' = raced \ S
    /\ UNCHANGED <<objects, descriptorSetsMap, descriptorPoolsMap, objectVars>>

\* untrack_descriptor_sets.
UntrackSets(t) ==
    /\ Step(t, "untrackSets", "untrackPools")
    /\ descriptorSetsMap' = Assign(descriptorSetsMap, batch[t], NoLayout)
    /\ UNCHANGED <<pool, batch, object, driverVars, descriptorPoolsMap, raced,
                   objectVars>>

\* Faulty variant: the entry of one pool is updated, whichever it is.
UntrackPoolsMutant(t) ==
    /\ Return(t, "untrackPools")
    /\ \E p \in Pools :
         descriptorPoolsMap' = [descriptorPoolsMap EXCEPT ![p] = @ \ batch[t]]
    /\ UNCHANGED <<driverVars, descriptorSetsMap, raced, objectVars>>

UntrackPools(t) ==
    /\ Return(t, "untrackPools")
    /\ descriptorPoolsMap' = [p \in Pools |-> descriptorPoolsMap[p] \ batch[t]]
    /\ UNCHANGED <<driverVars, descriptorSetsMap, raced, objectVars>>

\* vkResetDescriptorPool succeeds.
ResetDescriptorPool(t, p) ==
    /\ Enter(t, p, {}, "takeVector")
    /\ poolOf' = Assign(poolOf, OfPool(p), NoPool)
    /\ layoutOf' = Assign(layoutOf, OfPool(p), NoLayout)
    /\ raced' = raced \ OfPool(p)
    /\ UNCHANGED <<objects, descriptorSetsMap, descriptorPoolsMap, objectVars>>

\* Faulty variant: the driver destroys the pool first, as it frees sets first.
DestroyFirstMutant(t, p) ==
    /\ Enter(t, p, {}, "takeVectorFirst")
    /\ poolOf' = Assign(poolOf, OfPool(p), NoPool)
    /\ layoutOf' = Assign(layoutOf, OfPool(p), NoLayout)
    /\ raced' = raced \ OfPool(p)
    /\ UNCHANGED <<objects, descriptorSetsMap, descriptorPoolsMap, objectVars>>

\* DestroyDescriptorPool untracks the pool first.
DestroyDescriptorPool(t, p) ==
    /\ Enter(t, p, {}, "takeVectorFirst")
    /\ UNCHANGED <<driverVars, setVars, objectVars>>

\* untrack_descriptor_pool: the pool's vector is taken...
TakeVector(t) ==
    /\ Step(t, "takeVector", "eraseSets") \/ Step(t, "takeVectorFirst", "eraseSetsFirst")
    /\ batch' = [batch EXCEPT ![t] = descriptorPoolsMap[pool[t]]]
    /\ descriptorPoolsMap' = [descriptorPoolsMap EXCEPT ![pool[t]] = {}]
    /\ UNCHANGED <<pool, object, driverVars, descriptorSetsMap, raced, objectVars>>

\* ... and then the entries of the sets in it are erased.
EraseSets(t) ==
    /\ descriptorSetsMap' = Assign(descriptorSetsMap, batch[t], NoLayout)
    /\ \/ Return(t, "eraseSets")
       \/ Step(t, "eraseSetsFirst", "destroy") /\ UNCHANGED <<pool, batch, object>>
    /\ UNCHANGED <<driverVars, descriptorPoolsMap, raced, objectVars>>

\* The driver destroys the pool; its handle may name a new one at once, so
\* a pool always exists here.
DriverDestroyPool(t) ==
    /\ Return(t, "destroy")
    /\ poolOf' = Assign(poolOf, OfPool(pool[t]), NoPool)
    /\ layoutOf' = Assign(layoutOf, OfPool(pool[t]), NoLayout)
    /\ raced' = raced \ OfPool(pool[t])
    /\ UNCHANGED <<objects, descriptorSetsMap, descriptorPoolsMap, objectVars>>

-------------------------------------------------------------------------------
(***************************************************************************)
(* Set layouts, update templates and pipeline layouts: the driver creates  *)
(* or destroys the object, then its entry is inserted or erased.           *)
(***************************************************************************)

Create(t, o) ==
    /\ Step(t, "idle", "insert")
    /\ o \notin objects
    /\ objects' = objects \cup {o}
    /\ object' = [object EXCEPT ![t] = o]
    /\ racedObjects' =
         racedObjects \cup ({o} \cap {object[u] : u \in {v \in Threads : at[v] = "erase"}})
    /\ UNCHANGED <<pool, batch, poolOf, layoutOf, setVars, objectMaps>>

\* A map's operator[] replaces an entry that is still there.
Insert(t) ==
    /\ Step(t, "insert", "idle")
    /\ objectMaps' = objectMaps \cup {object[t]}
    /\ object' = [object EXCEPT ![t] = NoObject]
    /\ UNCHANGED <<pool, batch, driverVars, setVars, racedObjects>>

Destroy(t, o) ==
    /\ Step(t, "idle", "erase")
    /\ o \in objects
    /\ \A u \in Threads : ~(at[u] = "insert" /\ object[u] = o)
    /\ objects' = objects \ {o}
    /\ object' = [object EXCEPT ![t] = o]
    /\ racedObjects' = racedObjects \ {o}
    /\ UNCHANGED <<pool, batch, poolOf, layoutOf, setVars, objectMaps>>

\* Faulty variant: the entry is left behind.
EraseNeverMutant(t) ==
    /\ Step(t, "erase", "idle")
    /\ object' = [object EXCEPT ![t] = NoObject]
    /\ UNCHANGED <<pool, batch, driverVars, setVars, objectVars>>

Erase(t) ==
    /\ Step(t, "erase", "idle")
    /\ objectMaps' = objectMaps \ {object[t]}
    /\ object' = [object EXCEPT ![t] = NoObject]
    /\ UNCHANGED <<pool, batch, driverVars, setVars, racedObjects>>

CreateDescriptorSetLayout(t, h)       == Create(t, <<"setLayout", h>>)
CreateDescriptorUpdateTemplate(t, h)  == Create(t, <<"updateTemplate", h>>)
CreatePipelineLayout(t, h)            == Create(t, <<"pipelineLayout", h>>)
DestroyDescriptorSetLayout(t, h)      == Destroy(t, <<"setLayout", h>>)
DestroyDescriptorUpdateTemplate(t, h) == Destroy(t, <<"updateTemplate", h>>)
DestroyPipelineLayout(t, h)           == Destroy(t, <<"pipelineLayout", h>>)

-------------------------------------------------------------------------------
Next == \E t \in Threads :
    \/ \E p \in Pools, S \in SUBSET Sets :
         \/ \E l \in [S -> Layouts] : AllocateDescriptorSets(t, p, S, l)
         \/ FreeDescriptorSets(t, p, S)
    \/ \E p \in Pools : ResetDescriptorPool(t, p) \/ DestroyDescriptorPool(t, p)
    \/ TrackSets(t) \/ TrackPool(t) \/ UntrackSets(t) \/ UntrackPools(t)
    \/ TakeVector(t) \/ EraseSets(t) \/ DriverDestroyPool(t)
    \/ \E h \in Handles :
         \/ CreateDescriptorSetLayout(t, h) \/ DestroyDescriptorSetLayout(t, h)
         \/ CreateDescriptorUpdateTemplate(t, h) \/ DestroyDescriptorUpdateTemplate(t, h)
         \/ CreatePipelineLayout(t, h) \/ DestroyPipelineLayout(t, h)
    \/ Insert(t) \/ Erase(t)

Spec == Init /\ [][Next]_vars

-------------------------------------------------------------------------------
\* The type of every variable; a set that has a pool has a layout.
TypeOK ==
    /\ at \in [Threads -> {"idle", "trackSets", "trackPool", "untrackSets",
                           "untrackPools", "takeVector", "takeVectorFirst",
                           "eraseSets", "eraseSetsFirst", "destroy", "insert", "erase"}]
    /\ pool \in [Threads -> Pools \cup {NoPool}]
    /\ batch \in [Threads -> SUBSET Sets]
    /\ object \in [Threads -> Objects \cup {NoObject}]
    /\ poolOf \in [Sets -> Pools \cup {NoPool}]
    /\ layoutOf \in [Sets -> Layouts \cup {NoLayout}]
    /\ \A s \in Sets : poolOf[s] = NoPool <=> layoutOf[s] = NoLayout
    /\ objects \in SUBSET Objects
    /\ descriptorSetsMap \in [Sets -> Layouts \cup {NoLayout}]
    /\ descriptorPoolsMap \in [Pools -> SUBSET Sets]
    /\ objectMaps \in SUBSET Objects
    /\ raced \in SUBSET Sets
    /\ racedObjects \in SUBSET Objects

\* The sets whose allocation has returned.
Allocated ==
    {s \in Sets : poolOf[s] # NoPool}
      \ UNION {batch[t] : t \in {u \in Threads : at[u] \in {"trackSets", "trackPool"}}}

\* The pools a thread is destroying.
Doomed ==
    {pool[t] : t \in {u \in Threads : at[u] \in {"takeVectorFirst", "eraseSetsFirst",
                                                 "destroy"}}}

\* A set the application may use is never taken for one of another layout,
\* whatever its handle was before and whoever else is using the maps: a fixup
\* may miss its hints, but does not apply those of another layout.
EntriesTrue ==
    \A s \in Allocated : descriptorSetsMap[s] \in {layoutOf[s], NoLayout}

\* A set loses its entry, or its place in its pool's vector, only when its pool
\* is being destroyed or when its handle was freed by a thread that had not
\* updated the maps yet: no other order of calls loses one.
EntriesKept ==
    \A s \in Allocated \ raced : poolOf[s] \notin Doomed =>
        /\ descriptorSetsMap[s] = layoutOf[s]
        /\ s \in descriptorPoolsMap[poolOf[s]]

\* A pool's vector names no set of another pool, so resetting the pool cannot
\* make the layer forget one, but for the handles of the same window.
VectorsOwned ==
    \A p \in Pools : \A s \in descriptorPoolsMap[p] :
        \/ poolOf[s] = p
        \/ \E t \in Threads : s \in Erasing(t)

\* Every live object has its entry, but for handles of that window, and no
\* entry outlives its object once the call that destroys it has returned.
ObjectsKnown ==
    LET In(step) == {object[t] : t \in {u \in Threads : at[u] = step}}
    IN  /\ objects \ (racedObjects \cup In("insert")) \subseteq objectMaps
        /\ objectMaps \ objects \subseteq In("erase")
===============================================================================
