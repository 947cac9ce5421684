--------------------------- MODULE SparseResources ---------------------------
(***************************************************************************)
(* Creation and destruction of emulated sparse buffers and images          *)
(* (CreateBuffer, BindSparseBuffer, DestroyBuffer and their image          *)
(* counterparts) against the device's commit budget.  An emulated sparse   *)
(* resource is always resident: its whole memory is allocated, the shadow, *)
(* when it is created, and counted in device::sparseCommittedBytes.        *)
(*                                                                         *)
(* Threads share the counter, which is atomic, the map under global_lock,  *)
(* and the driver, which may give a handle freed by one thread to another  *)
(* at once.  A request has the size of a buffer, which the application     *)
(* asks for, and the size of memory that the driver requires.              *)
(* The clearing of a new buffer is a one-shot: StagingReclaim.             *)
(***************************************************************************)
EXTENDS Integers, FiniteSets

CONSTANTS Threads,
          Handles,     \* VkBuffer and VkImage handles
          Requests,    \* what may be created: records [kind, size, required]
          Budget,      \* GetSparseBudget()
          NoHandle, Nobody

ASSUME RequestsAssumption ==
    /\ Requests \subseteq [kind : {"buffer", "image"}, size : Nat, required : Nat]
    /\ \A r \in Requests : r.size <= r.required
    /\ Budget \in Nat
    /\ NoHandle \notin Handles
    /\ Nobody \notin Threads

\* A process has finitely many threads, and handles are of 64 bits.
ASSUME FinitenessAssumption == IsFiniteSet(Threads) /\ IsFiniteSet(Handles)

VARIABLES
    global_lock,            \* its holder between steps
    at, obj, req, before,   \* thread: next step, handle, request, and the
                            \* local variable before of ReserveBudget
    sparseCommittedBytes,
    resources,              \* the map: handle to the request it was made for
    handles,                \* driver: the handles that exist
    deviceMemory            \* driver: bytes of shadow memory allocated

threadVars == <<at, obj, req, before>>
driverVars == <<handles, deviceMemory>>
vars == <<global_lock, threadVars, sparseCommittedBytes, resources, driverVars>>

NoRequest == [kind |-> "none", size |-> 0, required |-> 0]

\* dense_sparse_resource::virtualSize: an image notes what the driver requires, a
\* buffer its own size.
VirtualSize(r) == IF r.kind = "image" THEN r.required ELSE r.size

Init ==
    /\ global_lock = Nobody
    /\ at = [t \in Threads |-> "idle"]
    /\ obj = [t \in Threads |-> NoHandle]
    /\ req = [t \in Threads |-> NoRequest]
    /\ before = [t \in Threads |-> 0]
    /\ sparseCommittedBytes = 0
    /\ resources = [h \in {} |-> NoRequest]
    /\ handles = {}
    /\ deviceMemory = 0

Free == global_lock = Nobody

Goto(t, from, to) ==
    /\ at[t] = from
    /\ at' = [at EXCEPT ![t] = to]

\* The thread returns from its call.
Return(t, from) ==
    /\ Goto(t, from, "idle")
    /\ obj' = [obj EXCEPT ![t] = NoHandle]
    /\ req' = [req EXCEPT ![t] = NoRequest]
    /\ before' = [before EXCEPT ![t] = 0]

-------------------------------------------------------------------------------
(***************************************************************************)
(* Creation.                                                               *)
(***************************************************************************)

\* The driver creates the resource without its sparse flags.
Create(t, h, r) ==
    /\ Goto(t, "idle", "reserve")
    /\ h \notin handles
    /\ handles' = handles \cup {h}
    /\ obj' = [obj EXCEPT ![t] = h]
    /\ req' = [req EXCEPT ![t] = r]
    /\ UNCHANGED <<global_lock, before, sparseCommittedBytes, resources, deviceMemory>>

CreateBuffer(t, h, r) == r.kind = "buffer" /\ Create(t, h, r)
CreateImage(t, h, r)  == r.kind = "image" /\ Create(t, h, r)

\* Faulty variant: the counter is compared first and raised afterwards.
ReserveReadMutant(t) ==
    /\ Goto(t, "reserve", "compare")
    /\ before' = [before EXCEPT ![t] = sparseCommittedBytes]
    /\ UNCHANGED <<global_lock, obj, req, sparseCommittedBytes, resources, driverVars>>

\* ReserveBudget: fetch_add.
Reserve(t) ==
    /\ Goto(t, "reserve", "compare")
    /\ before' = [before EXCEPT ![t] = sparseCommittedBytes]
    /\ sparseCommittedBytes' = sparseCommittedBytes + req[t].required
    /\ UNCHANGED <<global_lock, obj, req, resources, driverVars>>

\* The comparison with the budget.
Compare(t) ==
    /\ Goto(t, "compare",
            IF before[t] + req[t].required > Budget THEN "refuse" ELSE "allocate")
    /\ UNCHANGED <<global_lock, obj, req, before, sparseCommittedBytes, resources,
                   driverVars>>

\* The reservation exceeds the budget, or the shadow cannot be allocated: what
\* this thread has added is subtracted.
Refuse(t) ==
    /\ at[t] \in {"refuse", "allocate"}
    /\ at' = [at EXCEPT ![t] = "abandon"]
    /\ sparseCommittedBytes' = sparseCommittedBytes - req[t].required
    /\ UNCHANGED <<global_lock, obj, req, before, resources, driverVars>>

\* The handle is destroyed and the creation fails.
Abandon(t) ==
    /\ Return(t, "abandon")
    /\ handles' = handles \ {obj[t]}
    /\ UNCHANGED <<global_lock, sparseCommittedBytes, resources, deviceMemory>>

\* The shadow is allocated, bound and, for a buffer, cleared.
AllocateMemory(t) ==
    /\ Goto(t, "allocate", "insert")
    /\ deviceMemory' = deviceMemory + req[t].required
    /\ UNCHANGED <<global_lock, obj, req, before, sparseCommittedBytes, resources,
                   handles>>

\* The new object enters the map.
Insert(t) ==
    /\ Return(t, "insert")
    /\ Free
    /\ resources' = [h \in DOMAIN resources \cup {obj[t]} |->
                       IF h = obj[t] THEN req[t] ELSE resources[h]]
    /\ UNCHANGED <<global_lock, sparseCommittedBytes, driverVars>>

-------------------------------------------------------------------------------
(***************************************************************************)
(* Destruction, under global_lock from its first to its last statement.    *)
(***************************************************************************)

\* No thread is working on h: Vulkan makes the application see to it.
Unused(h) == \A t \in Threads : obj[t] # h

\* Faulty variant: the lock is not taken.
DestroyUnlockedMutant(t, h) ==
    /\ Goto(t, "idle", "free")
    /\ h \in DOMAIN resources /\ Unused(h)
    /\ handles' = handles \ {h}
    /\ obj' = [obj EXCEPT ![t] = h]
    /\ UNCHANGED <<global_lock, req, before, sparseCommittedBytes, resources, deviceMemory>>

\* The driver destroys the resource.
Destroy(t, h) ==
    /\ Goto(t, "idle", "free")
    /\ Free
    /\ h \in DOMAIN resources /\ Unused(h)
    /\ global_lock' = t
    /\ handles' = handles \ {h}
    /\ obj' = [obj EXCEPT ![t] = h]
    /\ UNCHANGED <<req, before, sparseCommittedBytes, resources, deviceMemory>>

\* Faulty variant: the shadow of the resource is forgotten.
FreeShadowForgetsMutant(t) ==
    /\ Goto(t, "free", "release")
    /\ UNCHANGED <<global_lock, obj, req, before, sparseCommittedBytes, resources,
                   driverVars>>

\* Its shadow is freed.
FreeShadow(t) ==
    /\ Goto(t, "free", "release")
    /\ obj[t] \in DOMAIN resources
    /\ deviceMemory' = deviceMemory - resources[obj[t]].required
    /\ UNCHANGED <<global_lock, obj, req, before, sparseCommittedBytes, resources,
                   handles>>

\* Its virtualSize is given back and its object erased.
Release(t) ==
    /\ Return(t, "release")
    /\ obj[t] \in DOMAIN resources
    /\ global_lock' = Nobody
    /\ sparseCommittedBytes' = sparseCommittedBytes - VirtualSize(resources[obj[t]])
    /\ resources' = [h \in DOMAIN resources \ {obj[t]} |-> resources[h]]
    /\ UNCHANGED driverVars

Next == \E t \in Threads :
    \/ \E h \in Handles, r \in Requests : CreateBuffer(t, h, r) \/ CreateImage(t, h, r)
    \/ Reserve(t) \/ Compare(t) \/ Refuse(t) \/ Abandon(t)
    \/ AllocateMemory(t) \/ Insert(t)
    \/ \E h \in Handles : Destroy(t, h)
    \/ FreeShadow(t) \/ Release(t)

Spec == Init /\ [][Next]_vars

-------------------------------------------------------------------------------
\* The type of every variable.  The counter, an unsigned integer in the code,
\* never goes below zero.
TypeOK ==
    /\ global_lock \in Threads \cup {Nobody}
    /\ at \in [Threads -> {"idle", "reserve", "compare", "refuse", "allocate",
                           "abandon", "insert", "free", "release"}]
    /\ obj \in [Threads -> Handles \cup {NoHandle}]
    /\ req \in [Threads -> Requests \cup {NoRequest}]
    /\ before \in [Threads -> Nat]
    /\ sparseCommittedBytes \in Nat
    /\ DOMAIN resources \in SUBSET Handles
    /\ \A h \in DOMAIN resources : resources[h] \in Requests
    /\ handles \in SUBSET Handles
    /\ deviceMemory \in Nat

\* The threads that are in one of the given steps.
In(steps) == {t \in Threads : at[t] \in steps}

\* The sum of f over S: the number of its bytes.
Total(f, S) == Cardinality(UNION {{x} \X (1 .. f[x]) : x \in S})

\* What the requests of some threads require.
Required(threads) == Total([t \in Threads |-> req[t].required], threads)

\* However creations and destructions interleave, shadow memory never exceeds
\* the budget that ReserveBudget enforces with an atomic counter and no lock.
BudgetKept == deviceMemory <= Budget

\* The counter never falls below what is allocated and what threads between
\* their reservation and its outcome may still allocate, so a successful
\* comparison is a right to allocate.
CommittedCovers ==
    sparseCommittedBytes >= deviceMemory + Required(In({"compare", "refuse", "allocate"}))

\* Every byte of shadow memory has one owner, an object in the map or a thread
\* about to enter one, though the driver reuses handles between the destruction
\* of a resource and the erasure of its object.
ShadowsOwned ==
    deviceMemory =
        Total([h \in DOMAIN resources |-> resources[h].required],
              DOMAIN resources \ {obj[t] : t \in In({"release"})})
          + Required(In({"insert"}))

\* The map holds the live handles, but for those a thread is creating or
\* abandoning, and one whose destruction is under way.
MapExact ==
    LET creating   == {obj[t] : t \in In({"reserve", "compare", "refuse", "allocate",
                                          "abandon", "insert"})}
        destroying == {obj[t] : t \in In({"free", "release"})}
    IN  /\ handles = (DOMAIN resources \ destroying) \cup creating
        /\ destroying \subseteq DOMAIN resources

\* A single thread is refused only what, by the message of the refusal, "would
\* exceed budget": its request does not fit beside the memory that is committed.
RefusalJustified ==
    \A t \in In({"refuse"}) : deviceMemory + req[t].required > Budget
===============================================================================
