---------------------------- MODULE CommandBuffers ----------------------------
(***************************************************************************)
(* Command buffers and the descriptor sets of emulated push descriptors    *)
(* (command_buffer.cpp, push_descriptors.cpp, the tracking of descriptors  *)
(* .cpp).  Each push binds a fresh set; the set stays in the command       *)
(* buffer's liveDescriptorSets until the command buffer is begun again,    *)
(* reset or freed, or its pool is reset or destroyed.                      *)
(*                                                                         *)
(* Vulkan makes the application use a command pool and its buffers from    *)
(* one thread at a time, so a thread is named by its pool.  Threads meet   *)
(* in global_lock, the layer's maps, the allocator and the driver, which   *)
(* gives a handle freed by one thread to another at once.                  *)
(*                                                                         *)
(* The allocator appears as SetLifetime, the abstraction it is proved to   *)
(* implement, with its calls to (un)track_descriptor_sets: free untracks a *)
(* set before its handle can come back.  A critical section in which no    *)
(* other thread can be told apart from one outside it is one step.         *)
(***************************************************************************)
EXTENDS FiniteSets

CONSTANTS CommandPools,    \* VkCommandPool handles, and their threads
          CommandBuffers,  \* VkCommandBuffer handles
          Sets,            \* VkDescriptorSet handles
          NoPool, NoBuffer, NoSet, Nobody,
          EmulatePush      \* device::emulate_push_descriptors

ASSUME NamesAssumption ==
    /\ NoPool \notin CommandPools
    /\ Nobody \notin CommandPools
    /\ NoBuffer \notin CommandBuffers
    /\ NoSet \notin Sets
    /\ EmulatePush \in BOOLEAN

VARIABLES
    global_lock,          \* its holder between steps
    at, cb, set,          \* thread: next step, its command buffer, its new set
    pools, owner,         \* driver: the pools, and the pool of each buffer
    state, bound,         \* driver: state of each buffer, and the sets its
                          \* commands refer to
    commandBuffersMap,    \* its keys
    commandPoolsMap,      \* pool: its vector (empty: no entry)
    liveDescriptorSets,   \* buffer: that member of its object
    issued,               \* the sets the allocator has handed out
    descriptorSetsMap     \* the ones with an entry in that map

threadVars == <<at, cb, set>>
driverVars == <<pools, owner, state, bound>>
mapVars    == <<commandBuffersMap, commandPoolsMap>>
setVars    == <<liveDescriptorSets, issued, descriptorSetsMap>>
vars == <<global_lock, threadVars, driverVars, mapVars, setVars>>

Init ==
    /\ global_lock = Nobody
    /\ at = [p \in CommandPools |-> "idle"]
    /\ cb = [p \in CommandPools |-> NoBuffer]
    /\ set = [p \in CommandPools |-> NoSet]
    /\ pools = {}
    /\ owner = [c \in CommandBuffers |-> NoPool]
    /\ state = [c \in CommandBuffers |-> "initial"]
    /\ bound = [c \in CommandBuffers |-> {}]
    /\ commandBuffersMap = {}
    /\ commandPoolsMap = [p \in CommandPools |-> {}]
    /\ liveDescriptorSets = [c \in CommandBuffers |-> {}]
    /\ issued = {}
    /\ descriptorSetsMap = {}

Free == global_lock = Nobody

Goto(p, step, c) ==
    /\ at' = [at EXCEPT ![p] = step]
    /\ cb' = [cb EXCEPT ![p] = c]

Done(p) == Goto(p, "idle", NoBuffer)

OfPool(p) == {c \in CommandBuffers : owner[c] = p}

\* The driver's state of the buffers C becomes initial, their commands go.
Clear(C) ==
    /\ state' = [c \in CommandBuffers |-> IF c \in C THEN "initial" ELSE state[c]]
    /\ bound' = [c \in CommandBuffers |-> IF c \in C THEN {} ELSE bound[c]]

\* The sets in the vectors of the buffers C.
Held(C) == UNION {liveDescriptorSets[c] : c \in C}

\* Faulty variant: the vector is not cleared.
KillKeepsMutant(C) ==
    /\ issued' = issued \ Held(C)
    /\ descriptorSetsMap' = descriptorSetsMap \ Held(C)
    /\ UNCHANGED liveDescriptorSets

\* kill_descriptor_sets for the buffers C: every set goes back to the
\* allocator and the vectors are cleared.
kill_descriptor_sets(C) ==
    /\ issued' = issued \ Held(C)
    /\ descriptorSetsMap' = descriptorSetsMap \ Held(C)
    /\ liveDescriptorSets' =
         [c \in CommandBuffers |-> IF c \in C THEN {} ELSE liveDescriptorSets[c]]

-------------------------------------------------------------------------------
(***************************************************************************)
(* Command pools and the two maps.                                         *)
(***************************************************************************)

\* vkCreateCommandPool is not intercepted.
CreateCommandPool(p) ==
    /\ at[p] = "idle" /\ p \notin pools
    /\ pools' = pools \cup {p}
    /\ UNCHANGED <<global_lock, threadVars, owner, state, bound, mapVars, setVars>>

\* AllocateCommandBuffers, first half: the driver's call, without a lock.
AllocateCommandBuffers(p, c) ==
    /\ at[p] = "idle" /\ p \in pools
    /\ owner[c] = NoPool
    /\ owner' = [owner EXCEPT ![c] = p]
    /\ Goto(p, "register", c)
    /\ UNCHANGED <<global_lock, set, pools, state, bound, mapVars, setVars>>

\* Second half: a new object replaces whatever the handle meant before.
Register(p) ==
    /\ at[p] = "register"
    /\ Free
    /\ commandBuffersMap' = commandBuffersMap \cup {cb[p]}
    /\ commandPoolsMap' = [commandPoolsMap EXCEPT ![p] = @ \cup {cb[p]}]
    /\ liveDescriptorSets' = [liveDescriptorSets EXCEPT ![cb[p]] = {}]
    /\ Done(p)
    /\ UNCHANGED <<global_lock, set, driverVars, issued, descriptorSetsMap>>

\* Faulty variant: the lock is dropped before the maps are updated.
FreeUnlockedMutant(p, c) ==
    /\ at[p] = "idle" /\ owner[c] = p /\ state[c] # "pending"
    /\ Free
    /\ kill_descriptor_sets({c} \cap commandBuffersMap)
    /\ Clear({c})
    /\ owner' = [owner EXCEPT ![c] = NoPool]
    /\ Goto(p, "erase", c)
    /\ UNCHANGED <<global_lock, set, pools, mapVars>>

\* FreeCommandBuffers holds global_lock from its first to its last
\* statement; in between the driver is free to give the handle away.
FreeCommandBuffers(p, c) ==
    /\ at[p] = "idle" /\ owner[c] = p /\ state[c] # "pending"
    /\ Free
    /\ global_lock' = p
    /\ kill_descriptor_sets({c} \cap commandBuffersMap)
    /\ Clear({c})
    /\ owner' = [owner EXCEPT ![c] = NoPool]
    /\ Goto(p, "erase", c)
    /\ UNCHANGED <<set, pools, mapVars>>

Erase(p) ==
    /\ at[p] = "erase"
    /\ global_lock' = Nobody
    /\ commandBuffersMap' = commandBuffersMap \ {cb[p]}
    /\ commandPoolsMap' = [commandPoolsMap EXCEPT ![p] = @ \ {cb[p]}]
    /\ Done(p)
    /\ UNCHANGED <<set, driverVars, setVars>>

\* Faulty variant: the sets of the pool's buffers are forgotten.
DestroyForgetsMutant(p) ==
    /\ at[p] = "idle" /\ p \in pools
    /\ \A c \in OfPool(p) : state[c] # "pending"
    /\ Free
    /\ commandPoolsMap' = [commandPoolsMap EXCEPT ![p] = {}]
    /\ Goto(p, "destroyPool", NoBuffer)
    /\ UNCHANGED <<global_lock, set, driverVars, commandBuffersMap, setVars>>

\* DestroyCommandPool: the entries of commandBuffersMap stay behind.
DestroyCommandPool(p) ==
    /\ at[p] = "idle" /\ p \in pools
    /\ \A c \in OfPool(p) : state[c] # "pending"
    /\ Free
    /\ kill_descriptor_sets(commandPoolsMap[p] \cap commandBuffersMap)
    /\ commandPoolsMap' = [commandPoolsMap EXCEPT ![p] = {}]
    /\ Goto(p, "destroyPool", NoBuffer)
    /\ UNCHANGED <<global_lock, set, driverVars, commandBuffersMap>>

\* The driver destroys the pool and frees its buffers.  A one-shot comes
\* straight here, its only buffer freed.
DriverDestroyPool(p) ==
    /\ \/ at[p] = "destroyPool"
       \/ at[p] = "idle" /\ p \in pools /\ OfPool(p) = {}
    /\ pools' = pools \ {p}
    /\ owner' = [c \in CommandBuffers |-> IF owner[c] = p THEN NoPool ELSE owner[c]]
    /\ Clear(OfPool(p))
    /\ Done(p)
    /\ UNCHANGED <<global_lock, set, mapVars, setVars>>

-------------------------------------------------------------------------------
(***************************************************************************)
(* The life of a command buffer.                                           *)
(***************************************************************************)

\* BeginCommandBuffer and ResetCommandBuffer first kill the sets...
BeginCommandBuffer(p, c) ==
    /\ at[p] = "idle" /\ owner[c] = p
    /\ state[c] \in {"initial", "executable"}
    /\ Free
    /\ kill_descriptor_sets({c})
    /\ Goto(p, "begin", c)
    /\ UNCHANGED <<global_lock, set, driverVars, mapVars>>

ResetCommandBuffer(p, c) ==
    /\ at[p] = "idle" /\ owner[c] = p
    /\ state[c] # "pending"
    /\ Free
    /\ kill_descriptor_sets({c})
    /\ Goto(p, "reset", c)
    /\ UNCHANGED <<global_lock, set, driverVars, mapVars>>

\* ... and then call the driver.
DriverBegin(p) ==
    /\ at[p] = "begin"
    /\ state' = [state EXCEPT ![cb[p]] = "recording"]
    /\ bound' = [bound EXCEPT ![cb[p]] = {}]
    /\ Done(p)
    /\ UNCHANGED <<global_lock, set, pools, owner, mapVars, setVars>>

DriverReset(p) ==
    /\ at[p] = "reset"
    /\ Clear({cb[p]})
    /\ Done(p)
    /\ UNCHANGED <<global_lock, set, pools, owner, mapVars, setVars>>

\* Faulty variant: no buffer is told.
ResetPoolForgetsMutant(p) ==
    /\ at[p] = "idle" /\ p \in pools
    /\ \A c \in OfPool(p) : state[c] # "pending"
    /\ Free
    /\ Goto(p, "resetPool", NoBuffer)
    /\ UNCHANGED <<global_lock, set, driverVars, mapVars, setVars>>

ResetCommandPool(p) ==
    /\ at[p] = "idle" /\ p \in pools
    /\ \A c \in OfPool(p) : state[c] # "pending"
    /\ Free
    /\ kill_descriptor_sets(commandPoolsMap[p] \cap commandBuffersMap)
    /\ Goto(p, "resetPool", NoBuffer)
    /\ UNCHANGED <<global_lock, set, driverVars, mapVars>>

DriverResetPool(p) ==
    /\ at[p] = "resetPool"
    /\ Clear(OfPool(p))
    /\ Done(p)
    /\ UNCHANGED <<global_lock, set, pools, owner, mapVars, setVars>>

EndCommandBuffer(p, c) ==
    /\ at[p] = "idle" /\ owner[c] = p
    /\ state[c] = "recording"
    /\ state' = [state EXCEPT ![c] = "executable"]
    /\ UNCHANGED <<global_lock, threadVars, pools, owner, bound, mapVars, setVars>>

\* QueueSubmit leaves liveDescriptorSets alone; any thread may submit a
\* buffer whose pool's thread lets it.
Submit(c) ==
    /\ state[c] = "executable"
    /\ at[owner[c]] = "idle"
    /\ Free
    /\ state' = [state EXCEPT ![c] = "pending"]
    /\ UNCHANGED <<global_lock, threadVars, pools, owner, bound, mapVars, setVars>>

\* The device is done with the buffer.
Complete(c) ==
    /\ state[c] = "pending"
    /\ state' = [state EXCEPT ![c] = "executable"]
    /\ UNCHANGED <<global_lock, threadVars, pools, owner, bound, mapVars, setVars>>

-------------------------------------------------------------------------------
(***************************************************************************)
(* CmdPushDescriptorSetKHR and its WithTemplate variant.  A layout that is *)
(* not found and an allocation that fails end the call with nothing done.  *)
(* Whether the layout is emulated only decides if the driver's own push    *)
(* comes first: control falls through to the emulated path either way.     *)
(***************************************************************************)
PushAllocate(p, c) ==
    /\ at[p] = "idle" /\ owner[c] = p
    /\ state[c] = "recording"
    /\ \E s \in Sets \ issued :
         /\ issued' = issued \cup {s}
         /\ set' = [set EXCEPT ![p] = s]
    /\ Goto(p, "remember", c)
    /\ UNCHANGED <<global_lock, driverVars, mapVars, liveDescriptorSets,
                   descriptorSetsMap>>

\* liveDescriptorSets.push_back, under global_lock.
PushRemember(p) ==
    /\ at[p] = "remember"
    /\ Free
    /\ liveDescriptorSets' = [liveDescriptorSets EXCEPT ![cb[p]] = @ \cup {set[p]}]
    /\ Goto(p, "track", cb[p])
    /\ UNCHANGED <<global_lock, set, driverVars, mapVars, issued, descriptorSetsMap>>

PushTrack(p) ==
    /\ at[p] = "track"
    /\ descriptorSetsMap' = descriptorSetsMap \cup {set[p]}
    /\ Goto(p, "bind", cb[p])
    /\ UNCHANGED <<global_lock, set, driverVars, mapVars, liveDescriptorSets, issued>>

\* The set is written and bound.
PushBind(p) ==
    /\ at[p] = "bind"
    /\ bound' = [bound EXCEPT ![cb[p]] = @ \cup {set[p]}]
    /\ set' = [set EXCEPT ![p] = NoSet]
    /\ Done(p)
    /\ UNCHANGED <<global_lock, pools, owner, state, mapVars, setVars>>

-------------------------------------------------------------------------------
Recording(p, c) ==
    \/ AllocateCommandBuffers(p, c) \/ FreeCommandBuffers(p, c)
    \/ BeginCommandBuffer(p, c) \/ ResetCommandBuffer(p, c)
    \/ EndCommandBuffer(p, c) \/ PushAllocate(p, c)

Finishing(p) ==
    \/ Register(p) \/ Erase(p)
    \/ DriverBegin(p) \/ DriverReset(p) \/ DriverResetPool(p)
    \/ PushRemember(p) \/ PushTrack(p) \/ PushBind(p)

Pooling(p) ==
    \/ CreateCommandPool(p) \/ ResetCommandPool(p)
    \/ DestroyCommandPool(p) \/ DriverDestroyPool(p)

Next ==
    \/ \E p \in CommandPools, c \in CommandBuffers : Recording(p, c)
    \/ \E p \in CommandPools : Finishing(p) \/ Pooling(p)
    \/ \E c \in CommandBuffers : Submit(c) \/ Complete(c)

Spec == Init /\ [][Next]_vars

-------------------------------------------------------------------------------
\* Handles are handles: no null set is remembered, tracked or bound, and a
\* thread inside a call names the buffer it works on.
TypeOK ==
    /\ global_lock \in CommandPools \cup {Nobody}
    /\ at \in [CommandPools -> {"idle", "register", "erase", "destroyPool", "begin",
                                "reset", "resetPool", "remember", "track", "bind"}]
    /\ cb \in [CommandPools -> CommandBuffers \cup {NoBuffer}]
    /\ set \in [CommandPools -> Sets \cup {NoSet}]
    /\ pools \in SUBSET CommandPools
    /\ owner \in [CommandBuffers -> CommandPools \cup {NoPool}]
    /\ state \in [CommandBuffers -> {"initial", "recording", "executable", "pending"}]
    /\ bound \in [CommandBuffers -> SUBSET Sets]
    /\ commandBuffersMap \in SUBSET CommandBuffers
    /\ commandPoolsMap \in [CommandPools -> SUBSET CommandBuffers]
    /\ liveDescriptorSets \in [CommandBuffers -> SUBSET Sets]
    /\ issued \in SUBSET Sets
    /\ descriptorSetsMap \in SUBSET Sets
    /\ \A p \in CommandPools :
         at[p] \notin {"idle", "resetPool", "destroyPool"} => cb[p] \in CommandBuffers

\* The sets a push has taken from the allocator while its thread is at a step.
SetsAt(steps) == {set[p] : p \in {q \in CommandPools : at[q] \in steps}}

\* Command buffer c is between the layer's half of a reset and the driver's.
Condemned(c) ==
    \E p \in CommandPools :
        /\ owner[c] = p
        /\ \/ at[p] \in {"resetPool", "destroyPool"}
           \/ at[p] \in {"begin", "reset"} /\ cb[p] = c

\* A command buffer holds exactly the sets its recorded commands refer to,
\* and the one a push is about to bind: none is freed under commands that may
\* still execute, and none outlives them, whichever way the buffer ends.
BoundExact ==
    \A c \in CommandBuffers : ~Condemned(c) =>
        liveDescriptorSets[c] =
            bound[c] \cup {set[p] : p \in {q \in CommandPools :
                                   cb[q] = c /\ at[q] \in {"track", "bind"}}}

\* Every set the allocator has handed out is in one command buffer, or in the
\* hands of the thread that just got it: none is leaked, none freed twice.
IssuedOwned ==
    /\ issued = Held(CommandBuffers) \cup SetsAt({"remember"})
    /\ \A c, d \in CommandBuffers :
         c # d => liveDescriptorSets[c] \cap liveDescriptorSets[d] = {}
    /\ \A p \in CommandPools, c \in CommandBuffers :
         at[p] = "remember" => set[p] \notin liveDescriptorSets[c]

\* A set that is about to be written or bound has its layout recorded, and no
\* set that was freed does, although other threads get the same handles back.
TrackedExact ==
    descriptorSetsMap = issued \ SetsAt({"remember", "track"})

\* The maps know every command buffer the driver has, under the pool it
\* belongs to, although handles move between pools without a lock: neither
\* the killing of a pool's sets nor a lookup can miss one.
RegistryExact ==
    \A p \in CommandPools :
        /\ at[p] # "destroyPool" =>
             \A c \in OfPool(p) :
                 \/ c \in commandBuffersMap /\ c \in commandPoolsMap[p]
                 \/ at[p] = "register" /\ cb[p] = c
        /\ \A c \in commandPoolsMap[p] : owner[c] = p \/ (at[p] = "erase" /\ cb[p] = c)

\* "Emulated path" (command_buffer.cpp:300): sets are allocated for emulated
\* push descriptors only.
NativePushAllocatesNothing == EmulatePush \/ issued = {}
===============================================================================
