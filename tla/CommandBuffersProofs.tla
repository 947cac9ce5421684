------------------------- MODULE CommandBuffersProofs -------------------------
(***************************************************************************)
(* Proofs about CommandBuffers for any number of threads, command buffers  *)
(* and sets, with or without emulated push descriptors.                    *)
(*                                                                         *)
(* The four properties of the module support each other.  That a buffer    *)
(* holds the sets its commands refer to (BoundExact) and that every issued *)
(* set has one holder (IssuedOwned) say that killing the sets of some      *)
(* buffers takes none from another buffer and none from a push in flight;  *)
(* that the maps know every buffer of a pool (RegistryExact) says that     *)
(* resetting, destroying or freeing kills all it should.  What they need   *)
(* besides is where each thread is: who holds the lock, whose buffer a     *)
(* thread works on, that pushes in flight have different sets, and that a  *)
(* buffer which is new, freed or half reset holds nothing.                 *)
(***************************************************************************)
EXTENDS CommandBuffers, TLAPS

\* The steps at which a thread works on a buffer of its own pool, and the ones
\* at which it has a new set in its hands.
OwnSteps  == {"register", "begin", "reset", "remember", "track", "bind"}
PushSteps == {"remember", "track", "bind"}

\* FreeCommandBuffers is the only call inside which the lock is seen held.
LockHeld == \A p \in CommandPools : at[p] = "erase" <=> global_lock = p

StepsOwned == \A p \in CommandPools : at[p] \in OwnSteps => owner[cb[p]] = p

SetsApart ==
    /\ \A p \in CommandPools : at[p] \in PushSteps => set[p] \in Sets
    /\ \A p, q \in CommandPools :
         p # q /\ at[p] \in PushSteps /\ at[q] \in PushSteps => set[p] # set[q]

\* The driver does not know the buffer, or the layer does not know it yet.
Fresh(c) ==
    \/ owner[c] = NoPool
    \/ \E p \in CommandPools : at[p] = "register" /\ cb[p] = c

\* Nothing is recorded in such a buffer, and a buffer whose sets were killed is
\* not in execution.
Emptied ==
    \A c \in CommandBuffers :
        /\ Fresh(c) => bound[c] = {} /\ state[c] = "initial"
        /\ Fresh(c) \/ Condemned(c) =>
              liveDescriptorSets[c] = {} /\ state[c] # "pending"

\* A handle the driver has given away again while its erasure is under way
\* waits, under the lock, to be registered.
ErasedGone ==
    \A p, q \in CommandPools :
        at[p] = "erase" /\ owner[cb[p]] = q => at[q] = "register" /\ cb[q] = cb[p]

DestroyedUnlisted ==
    \A p \in CommandPools : at[p] = "destroyPool" => commandPoolsMap[p] = {}

\* The inductive invariant.
IndInv ==
    /\ TypeOK
    /\ LockHeld
    /\ StepsOwned
    /\ SetsApart
    /\ Emptied
    /\ ErasedGone
    /\ DestroyedUnlisted
    /\ BoundExact
    /\ IssuedOwned
    /\ TrackedExact
    /\ RegistryExact

-------------------------------------------------------------------------------
(***************************************************************************)
(* What killing sets and moving a thread leave alone.                      *)
(***************************************************************************)

\* Thread p goes from one step to another, neither of them part of a push.
Outside(p, step, x) ==
    /\ Goto(p, step, x)
    /\ at[p] \notin PushSteps
    /\ step \notin PushSteps
    /\ UNCHANGED set

\* Such a move changes no set that a push has in its hands.
LEMMA SetsAtKept ==
  ASSUME TypeOK, NEW p \in CommandPools, NEW step, NEW x, Outside(p, step, x),
         NEW T \in SUBSET PushSteps
  PROVE  SetsAt(T)' = SetsAt(T)
<1>1. \A q \in CommandPools : at'[q] \in T <=> at[q] \in T
  BY DEF Outside, TypeOK, Goto, PushSteps
<1>2. {q \in CommandPools : at'[q] \in T} = {q \in CommandPools : at[q] \in T}
  BY <1>1
<1>3. QED
  BY <1>2 DEF SetsAt, Outside

\* Killed sets are taken from the buffers C and from nobody else.
LEMMA KillIssued ==
  ASSUME TypeOK, IssuedOwned, NEW C \in SUBSET CommandBuffers, kill_descriptor_sets(C),
         NEW p \in CommandPools, NEW step, NEW x, Outside(p, step, x)
  PROVE  IssuedOwned'
<1>1. SetsAt({"remember"})' = SetsAt({"remember"})
  BY SetsAtKept DEF PushSteps
<1>2. \A q \in CommandPools : at'[q] = "remember" => at[q] = "remember" /\ set'[q] = set[q]
  BY DEF Outside, Goto, TypeOK, PushSteps
<1>3. Held(CommandBuffers)' = Held(CommandBuffers) \ Held(C)
  BY DEF kill_descriptor_sets, Held, IssuedOwned
<1>4. SetsAt({"remember"}) \cap Held(C) = {}
  BY DEF IssuedOwned, SetsAt, Held
<1>5. (issued = Held(CommandBuffers) \cup SetsAt({"remember"}))'
  BY <1>1, <1>3, <1>4 DEF IssuedOwned, kill_descriptor_sets
<1>6. QED
  BY <1>2, <1>5 DEF IssuedOwned, kill_descriptor_sets

\* Killing the sets of some buffers keeps the map of tracked sets exact.
LEMMA KillTracked ==
  ASSUME TypeOK, TrackedExact, NEW C \in SUBSET CommandBuffers, kill_descriptor_sets(C),
         NEW p \in CommandPools, NEW step, NEW x, Outside(p, step, x)
  PROVE  TrackedExact'
<1>1. SetsAt({"remember", "track"})' = SetsAt({"remember", "track"})
  BY SetsAtKept DEF PushSteps
<1>2. QED
  BY <1>1 DEF TrackedExact, kill_descriptor_sets

\* So every issued set keeps one owner, and the map stays exact.
LEMMA KillKeeps ==
  ASSUME IndInv, NEW C \in SUBSET CommandBuffers, kill_descriptor_sets(C),
         NEW p \in CommandPools, NEW step, NEW x, Outside(p, step, x)
  PROVE  IssuedOwned' /\ TrackedExact'
BY KillIssued, KillTracked DEF IndInv

\* The set a push has in its hands is issued.
LEMMA PushedIssued ==
  ASSUME IndInv, NEW p \in CommandPools, at[p] \in PushSteps
  PROVE  set[p] \in issued
<1>1. CASE at[p] = "remember"
  BY <1>1 DEF IndInv, IssuedOwned, SetsAt
<1>2. CASE at[p] \in {"track", "bind"}
  <2>1. owner[cb[p]] = p /\ cb[p] \in CommandBuffers
    BY <1>2 DEF IndInv, StepsOwned, OwnSteps, TypeOK
  <2>2. ~Condemned(cb[p])
    BY <1>2, <2>1 DEF Condemned
  <2>3. set[p] \in liveDescriptorSets[cb[p]]
    BY <1>2, <2>1, <2>2 DEF IndInv, BoundExact
  <2>4. QED
    BY <2>1, <2>3 DEF IndInv, IssuedOwned, Held
<1>3. QED
  BY <1>1, <1>2 DEF PushSteps

-------------------------------------------------------------------------------
(***************************************************************************)
(* The invariant is inductive: one lemma for each action.                  *)
(***************************************************************************)
LEMMA InitInd == Init => IndInv
<1> SUFFICES ASSUME Init PROVE IndInv
  OBVIOUS
<1> USE DEF Init
<1>1. TypeOK /\ LockHeld /\ StepsOwned /\ SetsApart /\ ErasedGone
  BY NamesAssumption DEF TypeOK, LockHeld, StepsOwned, SetsApart, ErasedGone,
                         OwnSteps, PushSteps
<1>2. Emptied /\ DestroyedUnlisted /\ BoundExact
  BY DEF Emptied, DestroyedUnlisted, BoundExact
<1>3. IssuedOwned /\ TrackedExact
  BY DEF IssuedOwned, TrackedExact, SetsAt, Held
<1>4. RegistryExact
  BY NamesAssumption DEF RegistryExact, OfPool
<1>5. QED
  BY <1>1, <1>2, <1>3, <1>4 DEF IndInv

LEMMA CreateCommandPoolInd ==
  ASSUME NEW p \in CommandPools, IndInv, CreateCommandPool(p)
  PROVE  IndInv'
<1> USE DEF IndInv, CreateCommandPool, threadVars, mapVars, setVars
<1>1. TypeOK'
  BY DEF TypeOK
<1>2. LockHeld' /\ StepsOwned' /\ ErasedGone' /\ DestroyedUnlisted'
  BY DEF LockHeld, StepsOwned, ErasedGone, DestroyedUnlisted
<1>3. SetsApart'
  BY DEF SetsApart
<1>4. IssuedOwned' /\ TrackedExact'
  BY DEF IssuedOwned, TrackedExact, SetsAt, Held
<1>5. Emptied'
  BY DEF Emptied, Fresh, Condemned
<1>6. BoundExact'
  BY DEF BoundExact, Condemned
<1>7. RegistryExact'
  BY DEF RegistryExact, OfPool
<1>8. QED
  BY <1>1, <1>2, <1>3, <1>4, <1>5, <1>6, <1>7

LEMMA AllocateCommandBuffersInd ==
  ASSUME NEW p \in CommandPools, NEW c \in CommandBuffers,
         IndInv, AllocateCommandBuffers(p, c)
  PROVE  IndInv'
<1> USE DEF IndInv, AllocateCommandBuffers, Goto, mapVars, setVars
<1>1. TypeOK'
  BY DEF TypeOK
<1>2. LockHeld' /\ StepsOwned' /\ ErasedGone' /\ DestroyedUnlisted'
  BY NamesAssumption
     DEF TypeOK, LockHeld, StepsOwned, ErasedGone, DestroyedUnlisted
<1>3. SetsApart'
  BY DEF SetsApart, PushSteps
<1>4. IssuedOwned' /\ TrackedExact'
  BY DEF IssuedOwned, TrackedExact, SetsAt, Held
<1>5. Emptied'
  BY DEF TypeOK, Emptied, Fresh, Condemned
<1>6. BoundExact'
  BY DEF BoundExact, Condemned, Emptied, Fresh, StepsOwned, OwnSteps
<1>7. RegistryExact'
  BY NamesAssumption DEF TypeOK, RegistryExact, OfPool
<1>8. QED
  BY <1>1, <1>2, <1>3, <1>4, <1>5, <1>6, <1>7

LEMMA RegisterInd ==
  ASSUME NEW p \in CommandPools, IndInv, Register(p)
  PROVE  IndInv'
<1> USE DEF IndInv, Register, Done, Free, driverVars, Goto
<1>1. TypeOK'
  BY DEF TypeOK
<1>2. LockHeld' /\ StepsOwned' /\ ErasedGone' /\ DestroyedUnlisted'
  BY NamesAssumption
     DEF TypeOK, LockHeld, StepsOwned, ErasedGone, DestroyedUnlisted, OwnSteps
<1>3. SetsApart'
  BY DEF SetsApart, PushSteps
<1>4. IssuedOwned' /\ TrackedExact'
  BY DEF IssuedOwned, TrackedExact, SetsAt, Held, Emptied, Fresh
<1>5. Emptied'
  BY DEF TypeOK, Emptied, Fresh, Condemned
<1>6. BoundExact'
  BY DEF BoundExact, Condemned, Emptied, Fresh
<1>7. RegistryExact'
  BY DEF TypeOK, RegistryExact, OfPool, StepsOwned, OwnSteps
<1>8. QED
  BY <1>1, <1>2, <1>3, <1>4, <1>5, <1>6, <1>7

LEMMA FreeCommandBuffersInd ==
  ASSUME NEW p \in CommandPools, NEW c \in CommandBuffers,
         IndInv, FreeCommandBuffers(p, c)
  PROVE  IndInv'
<1> USE DEF IndInv, FreeCommandBuffers, Goto, Free, Clear, mapVars
<1>1. TypeOK'
  BY DEF TypeOK, kill_descriptor_sets
<1>2. LockHeld' /\ StepsOwned' /\ ErasedGone' /\ DestroyedUnlisted'
  BY NamesAssumption
     DEF TypeOK, LockHeld, StepsOwned, ErasedGone, DestroyedUnlisted, OwnSteps
<1>3. SetsApart'
  BY DEF SetsApart, PushSteps
<1>4. IssuedOwned' /\ TrackedExact'
  <2>1. Outside(p, "erase", c)
    BY DEF Outside, PushSteps
  <2>2. {c} \cap commandBuffersMap \in SUBSET CommandBuffers
    BY DEF TypeOK
  <2>3. QED
    BY <2>1, <2>2, KillKeeps
<1>5. Emptied'
  BY DEF Emptied, Fresh, Condemned, OfPool, RegistryExact, kill_descriptor_sets
<1>6. BoundExact'
  BY DEF BoundExact, Condemned, OfPool, RegistryExact, StepsOwned, OwnSteps,
         kill_descriptor_sets
<1>7. RegistryExact'
  BY NamesAssumption DEF TypeOK, RegistryExact, OfPool
<1>8. QED
  BY <1>1, <1>2, <1>3, <1>4, <1>5, <1>6, <1>7

LEMMA EraseInd ==
  ASSUME NEW p \in CommandPools, IndInv, Erase(p)
  PROVE  IndInv'
<1> USE DEF IndInv, Erase, Done, driverVars, setVars, Goto
<1>1. TypeOK'
  BY DEF TypeOK
<1>2. LockHeld' /\ StepsOwned' /\ ErasedGone' /\ DestroyedUnlisted'
  BY NamesAssumption
     DEF TypeOK, LockHeld, StepsOwned, ErasedGone, DestroyedUnlisted, OwnSteps
<1>3. SetsApart'
  BY DEF SetsApart, PushSteps
<1>4. IssuedOwned' /\ TrackedExact'
  BY DEF IssuedOwned, TrackedExact, SetsAt, Held
<1>5. Emptied'
  BY DEF Emptied, Fresh, Condemned
<1>6. BoundExact'
  BY DEF BoundExact, Condemned
<1>7. RegistryExact'
  BY DEF TypeOK, RegistryExact, OfPool, ErasedGone
<1>8. QED
  BY <1>1, <1>2, <1>3, <1>4, <1>5, <1>6, <1>7

LEMMA DestroyCommandPoolInd ==
  ASSUME NEW p \in CommandPools, IndInv, DestroyCommandPool(p)
  PROVE  IndInv'
<1> USE DEF IndInv, DestroyCommandPool, Goto, Free, driverVars
<1>1. TypeOK'
  BY DEF TypeOK, kill_descriptor_sets
<1>2. LockHeld' /\ StepsOwned' /\ ErasedGone' /\ DestroyedUnlisted'
  BY DEF TypeOK, LockHeld, StepsOwned, ErasedGone, DestroyedUnlisted, OwnSteps
<1>3. SetsApart'
  BY DEF SetsApart, PushSteps
<1>4. IssuedOwned' /\ TrackedExact'
  <2>1. Outside(p, "destroyPool", NoBuffer)
    BY DEF Outside, PushSteps
  <2>2. commandPoolsMap[p] \cap commandBuffersMap \in SUBSET CommandBuffers
    BY DEF TypeOK
  <2>3. QED
    BY <2>1, <2>2, KillKeeps
<1>5. Emptied'
  BY DEF Emptied, Fresh, Condemned, OfPool, RegistryExact, kill_descriptor_sets
<1>6. BoundExact'
  BY DEF TypeOK, BoundExact, Condemned, RegistryExact, kill_descriptor_sets
<1>7. RegistryExact'
  BY DEF TypeOK, RegistryExact, OfPool
<1>8. QED
  BY <1>1, <1>2, <1>3, <1>4, <1>5, <1>6, <1>7

LEMMA DriverDestroyPoolInd ==
  ASSUME NEW p \in CommandPools, IndInv, DriverDestroyPool(p)
  PROVE  IndInv'
<1> USE DEF IndInv, DriverDestroyPool, Done, Clear, mapVars, setVars, Goto
<1>1. TypeOK'
  BY DEF TypeOK
<1>2. LockHeld' /\ StepsOwned' /\ ErasedGone' /\ DestroyedUnlisted'
  BY DEF TypeOK, LockHeld, StepsOwned, ErasedGone, DestroyedUnlisted, OwnSteps
<1>3. SetsApart'
  BY DEF SetsApart, PushSteps
<1>4. IssuedOwned' /\ TrackedExact'
  BY DEF IssuedOwned, TrackedExact, SetsAt, Held
<1>5. Emptied'
  BY DEF Emptied, Fresh, Condemned, OfPool
<1>6. BoundExact'
  BY DEF BoundExact, Condemned, Emptied, OfPool, StepsOwned, OwnSteps
<1>7. RegistryExact'
  BY NamesAssumption DEF TypeOK, RegistryExact, OfPool, DestroyedUnlisted
<1>8. QED
  BY <1>1, <1>2, <1>3, <1>4, <1>5, <1>6, <1>7

LEMMA BeginCommandBufferInd ==
  ASSUME NEW p \in CommandPools, NEW c \in CommandBuffers,
         IndInv, BeginCommandBuffer(p, c)
  PROVE  IndInv'
<1> USE DEF IndInv, BeginCommandBuffer, Goto, Free, driverVars, mapVars
<1>1. TypeOK'
  BY DEF TypeOK, kill_descriptor_sets
<1>2. LockHeld' /\ StepsOwned' /\ ErasedGone' /\ DestroyedUnlisted'
  BY DEF TypeOK, LockHeld, StepsOwned, ErasedGone, DestroyedUnlisted
<1>3. SetsApart'
  BY DEF SetsApart, PushSteps
<1>4. IssuedOwned' /\ TrackedExact'
  <2>1. Outside(p, "begin", c)
    BY DEF Outside, PushSteps
  <2>2. {c} \in SUBSET CommandBuffers
    BY DEF TypeOK
  <2>3. QED
    BY <2>1, <2>2, KillKeeps
<1>5. Emptied'
  BY DEF TypeOK, Emptied, Fresh, Condemned, kill_descriptor_sets
<1>6. BoundExact'
  BY DEF TypeOK, BoundExact, Condemned, kill_descriptor_sets
<1>7. RegistryExact'
  BY DEF RegistryExact, OfPool
<1>8. QED
  BY <1>1, <1>2, <1>3, <1>4, <1>5, <1>6, <1>7

LEMMA ResetCommandBufferInd ==
  ASSUME NEW p \in CommandPools, NEW c \in CommandBuffers,
         IndInv, ResetCommandBuffer(p, c)
  PROVE  IndInv'
<1> USE DEF IndInv, ResetCommandBuffer, Goto, Free, driverVars, mapVars
<1>1. TypeOK'
  BY DEF TypeOK, kill_descriptor_sets
<1>2. LockHeld' /\ StepsOwned' /\ ErasedGone' /\ DestroyedUnlisted'
  BY DEF TypeOK, LockHeld, StepsOwned, ErasedGone, DestroyedUnlisted
<1>3. SetsApart'
  BY DEF SetsApart, PushSteps
<1>4. IssuedOwned' /\ TrackedExact'
  <2>1. Outside(p, "reset", c)
    BY DEF Outside, PushSteps
  <2>2. {c} \in SUBSET CommandBuffers
    BY DEF TypeOK
  <2>3. QED
    BY <2>1, <2>2, KillKeeps
<1>5. Emptied'
  BY DEF TypeOK, Emptied, Fresh, Condemned, kill_descriptor_sets
<1>6. BoundExact'
  BY DEF TypeOK, BoundExact, Condemned, kill_descriptor_sets
<1>7. RegistryExact'
  BY DEF RegistryExact, OfPool
<1>8. QED
  BY <1>1, <1>2, <1>3, <1>4, <1>5, <1>6, <1>7

LEMMA DriverBeginInd ==
  ASSUME NEW p \in CommandPools, IndInv, DriverBegin(p)
  PROVE  IndInv'
<1> USE DEF IndInv, DriverBegin, Done, mapVars, setVars, Goto
<1>1. TypeOK'
  BY DEF TypeOK
<1>2. LockHeld' /\ StepsOwned' /\ ErasedGone' /\ DestroyedUnlisted'
  BY DEF TypeOK, LockHeld, StepsOwned, ErasedGone, DestroyedUnlisted, OwnSteps
<1>3. SetsApart'
  BY DEF SetsApart, PushSteps
<1>4. IssuedOwned' /\ TrackedExact'
  BY DEF IssuedOwned, TrackedExact, SetsAt, Held
<1>5. Emptied'
  BY NamesAssumption DEF Emptied, Fresh, Condemned, StepsOwned, OwnSteps
<1>6. BoundExact'
  BY DEF TypeOK, BoundExact, Condemned, Emptied, StepsOwned, OwnSteps
<1>7. RegistryExact'
  BY DEF RegistryExact, OfPool
<1>8. QED
  BY <1>1, <1>2, <1>3, <1>4, <1>5, <1>6, <1>7

LEMMA DriverResetInd ==
  ASSUME NEW p \in CommandPools, IndInv, DriverReset(p)
  PROVE  IndInv'
<1> USE DEF IndInv, DriverReset, Done, Clear, mapVars, setVars, Goto
<1>1. TypeOK'
  BY DEF TypeOK
<1>2. LockHeld' /\ StepsOwned' /\ ErasedGone' /\ DestroyedUnlisted'
  BY DEF TypeOK, LockHeld, StepsOwned, ErasedGone, DestroyedUnlisted, OwnSteps
<1>3. SetsApart'
  BY DEF SetsApart, PushSteps
<1>4. IssuedOwned' /\ TrackedExact'
  BY DEF IssuedOwned, TrackedExact, SetsAt, Held
<1>5. Emptied'
  BY DEF TypeOK, Emptied, Fresh, Condemned
<1>6. BoundExact'
  BY DEF BoundExact, Condemned, Emptied, StepsOwned, OwnSteps
<1>7. RegistryExact'
  BY DEF RegistryExact, OfPool
<1>8. QED
  BY <1>1, <1>2, <1>3, <1>4, <1>5, <1>6, <1>7

LEMMA ResetCommandPoolInd ==
  ASSUME NEW p \in CommandPools, IndInv, ResetCommandPool(p)
  PROVE  IndInv'
<1> USE DEF IndInv, ResetCommandPool, Goto, Free, driverVars, mapVars
<1>1. TypeOK'
  BY DEF TypeOK, kill_descriptor_sets
<1>2. LockHeld' /\ StepsOwned' /\ ErasedGone' /\ DestroyedUnlisted'
  BY DEF LockHeld, StepsOwned, ErasedGone, DestroyedUnlisted, OwnSteps
<1>3. SetsApart'
  BY DEF SetsApart, PushSteps
<1>4. IssuedOwned' /\ TrackedExact'
  <2>1. Outside(p, "resetPool", NoBuffer)
    BY DEF Outside, PushSteps
  <2>2. commandPoolsMap[p] \cap commandBuffersMap \in SUBSET CommandBuffers
    BY DEF TypeOK
  <2>3. QED
    BY <2>1, <2>2, KillKeeps
<1>5. Emptied'
  BY DEF Emptied, Fresh, Condemned, OfPool, RegistryExact, kill_descriptor_sets
<1>6. BoundExact'
  BY DEF TypeOK, BoundExact, Condemned, RegistryExact, kill_descriptor_sets
<1>7. RegistryExact'
  BY DEF RegistryExact, OfPool
<1>8. QED
  BY <1>1, <1>2, <1>3, <1>4, <1>5, <1>6, <1>7

LEMMA DriverResetPoolInd ==
  ASSUME NEW p \in CommandPools, IndInv, DriverResetPool(p)
  PROVE  IndInv'
<1> USE DEF IndInv, DriverResetPool, Done, Clear, mapVars, setVars, Goto
<1>1. TypeOK'
  BY DEF TypeOK
<1>2. LockHeld' /\ StepsOwned' /\ ErasedGone' /\ DestroyedUnlisted'
  BY DEF LockHeld, StepsOwned, ErasedGone, DestroyedUnlisted, OwnSteps
<1>3. SetsApart'
  BY DEF SetsApart, PushSteps
<1>4. IssuedOwned' /\ TrackedExact'
  BY DEF IssuedOwned, TrackedExact, SetsAt, Held
<1>5. Emptied'
  BY DEF Emptied, Fresh, Condemned
<1>6. BoundExact'
  BY DEF BoundExact, Condemned, Emptied, OfPool, StepsOwned, OwnSteps
<1>7. RegistryExact'
  BY DEF RegistryExact, OfPool
<1>8. QED
  BY <1>1, <1>2, <1>3, <1>4, <1>5, <1>6, <1>7

LEMMA EndCommandBufferInd ==
  ASSUME NEW p \in CommandPools, NEW c \in CommandBuffers,
         IndInv, EndCommandBuffer(p, c)
  PROVE  IndInv'
<1> USE DEF IndInv, EndCommandBuffer, threadVars, mapVars, setVars
<1>1. TypeOK'
  BY DEF TypeOK
<1>2. LockHeld' /\ StepsOwned' /\ ErasedGone' /\ DestroyedUnlisted'
  BY DEF LockHeld, StepsOwned, ErasedGone, DestroyedUnlisted
<1>3. SetsApart'
  BY DEF SetsApart
<1>4. IssuedOwned' /\ TrackedExact'
  BY DEF IssuedOwned, TrackedExact, SetsAt, Held
<1>5. Emptied'
  BY DEF Emptied, Fresh, Condemned
<1>6. BoundExact'
  BY DEF BoundExact, Condemned
<1>7. RegistryExact'
  BY DEF RegistryExact, OfPool
<1>8. QED
  BY <1>1, <1>2, <1>3, <1>4, <1>5, <1>6, <1>7

LEMMA SubmitInd ==
  ASSUME NEW c \in CommandBuffers, IndInv, Submit(c)
  PROVE  IndInv'
<1> USE DEF IndInv, Submit, Free, threadVars, mapVars, setVars
<1>1. TypeOK'
  BY DEF TypeOK
<1>2. LockHeld' /\ StepsOwned' /\ ErasedGone' /\ DestroyedUnlisted'
  BY DEF LockHeld, StepsOwned, ErasedGone, DestroyedUnlisted
<1>3. SetsApart'
  BY DEF SetsApart
<1>4. IssuedOwned' /\ TrackedExact'
  BY DEF IssuedOwned, TrackedExact, SetsAt, Held
<1>5. Emptied'
  BY DEF Emptied, Fresh, Condemned
<1>6. BoundExact'
  BY DEF BoundExact, Condemned
<1>7. RegistryExact'
  BY DEF RegistryExact, OfPool
<1>8. QED
  BY <1>1, <1>2, <1>3, <1>4, <1>5, <1>6, <1>7

LEMMA CompleteInd ==
  ASSUME NEW c \in CommandBuffers, IndInv, Complete(c)
  PROVE  IndInv'
<1> USE DEF IndInv, Complete, threadVars, mapVars, setVars
<1>1. TypeOK'
  BY DEF TypeOK
<1>2. LockHeld' /\ StepsOwned' /\ ErasedGone' /\ DestroyedUnlisted'
  BY DEF LockHeld, StepsOwned, ErasedGone, DestroyedUnlisted
<1>3. SetsApart'
  BY DEF SetsApart
<1>4. IssuedOwned' /\ TrackedExact'
  BY DEF IssuedOwned, TrackedExact, SetsAt, Held
<1>5. Emptied'
  BY DEF Emptied, Fresh, Condemned
<1>6. BoundExact'
  BY DEF BoundExact, Condemned
<1>7. RegistryExact'
  BY DEF RegistryExact, OfPool
<1>8. QED
  BY <1>1, <1>2, <1>3, <1>4, <1>5, <1>6, <1>7

LEMMA PushAllocateInd ==
  ASSUME NEW p \in CommandPools, NEW c \in CommandBuffers,
         IndInv, PushAllocate(p, c)
  PROVE  IndInv'
<1> USE DEF IndInv, PushAllocate, Goto, driverVars, mapVars
<1>1. TypeOK'
  BY DEF TypeOK
<1>2. LockHeld' /\ StepsOwned' /\ ErasedGone' /\ DestroyedUnlisted'
  BY DEF TypeOK, LockHeld, StepsOwned, ErasedGone, DestroyedUnlisted
<1>3. SetsApart'
  <2>1. PICK s \in Sets \ issued : set' = [set EXCEPT ![p] = s]
    OBVIOUS
  <2>2. QED
    BY <2>1, PushedIssued DEF TypeOK, SetsApart, PushSteps
<1>4. IssuedOwned' /\ TrackedExact'
  BY DEF TypeOK, IssuedOwned, TrackedExact, SetsAt, Held
<1>5. Emptied'
  BY DEF Emptied, Fresh, Condemned
<1>6. BoundExact'
  BY DEF BoundExact, Condemned
<1>7. RegistryExact'
  BY DEF RegistryExact, OfPool
<1>8. QED
  BY <1>1, <1>2, <1>3, <1>4, <1>5, <1>6, <1>7

LEMMA PushRememberInd ==
  ASSUME NEW p \in CommandPools, IndInv, PushRemember(p)
  PROVE  IndInv'
<1> USE DEF IndInv, PushRemember, Goto, Free, driverVars, mapVars
<1>1. TypeOK'
  BY DEF TypeOK, SetsApart, PushSteps
<1>2. LockHeld' /\ StepsOwned' /\ ErasedGone' /\ DestroyedUnlisted'
  BY DEF LockHeld, StepsOwned, ErasedGone, DestroyedUnlisted, OwnSteps
<1>3. SetsApart'
  BY DEF SetsApart, PushSteps
<1>4. IssuedOwned' /\ TrackedExact'
  BY DEF TypeOK, IssuedOwned, TrackedExact, SetsAt, Held, SetsApart, PushSteps
<1>5. Emptied'
  BY NamesAssumption DEF Emptied, Fresh, Condemned, StepsOwned, OwnSteps
<1>6. BoundExact'
  BY DEF TypeOK, BoundExact, Condemned
<1>7. RegistryExact'
  BY DEF RegistryExact, OfPool
<1>8. QED
  BY <1>1, <1>2, <1>3, <1>4, <1>5, <1>6, <1>7

LEMMA PushTrackInd ==
  ASSUME NEW p \in CommandPools, IndInv, PushTrack(p)
  PROVE  IndInv'
<1> USE DEF IndInv, PushTrack, Goto, driverVars, mapVars
<1>1. TypeOK'
  BY DEF TypeOK, SetsApart, PushSteps
<1>2. LockHeld' /\ StepsOwned' /\ ErasedGone' /\ DestroyedUnlisted'
  BY DEF LockHeld, StepsOwned, ErasedGone, DestroyedUnlisted, OwnSteps
<1>3. SetsApart'
  BY DEF SetsApart, PushSteps
<1>4. IssuedOwned' /\ TrackedExact'
  <2>1. IssuedOwned'
    BY DEF TypeOK, IssuedOwned, SetsAt, Held
  <2>2. SetsAt({"remember", "track"})' = SetsAt({"remember", "track"}) \ {set[p]}
    BY DEF TypeOK, SetsAt, SetsApart, PushSteps
  <2>3. set[p] \in issued
    BY PushedIssued DEF PushSteps
  <2>4. QED
    BY <2>1, <2>2, <2>3 DEF TrackedExact
<1>5. Emptied'
  BY DEF Emptied, Fresh, Condemned
<1>6. BoundExact'
  BY DEF BoundExact, Condemned
<1>7. RegistryExact'
  BY DEF RegistryExact, OfPool
<1>8. QED
  BY <1>1, <1>2, <1>3, <1>4, <1>5, <1>6, <1>7

LEMMA PushBindInd ==
  ASSUME NEW p \in CommandPools, IndInv, PushBind(p)
  PROVE  IndInv'
<1> USE DEF IndInv, PushBind, Done, mapVars, setVars, Goto
<1>1. TypeOK'
  BY DEF TypeOK, SetsApart, PushSteps
<1>2. LockHeld' /\ StepsOwned' /\ ErasedGone' /\ DestroyedUnlisted'
  BY DEF TypeOK, LockHeld, StepsOwned, ErasedGone, DestroyedUnlisted, OwnSteps
<1>3. SetsApart'
  BY DEF TypeOK, SetsApart, PushSteps
<1>4. IssuedOwned' /\ TrackedExact'
  BY DEF IssuedOwned, TrackedExact, SetsAt, Held
<1>5. Emptied'
  BY NamesAssumption DEF Emptied, Fresh, Condemned, StepsOwned, OwnSteps
<1>6. BoundExact'
  BY DEF TypeOK, BoundExact, Condemned
<1>7. RegistryExact'
  BY DEF RegistryExact, OfPool
<1>8. QED
  BY <1>1, <1>2, <1>3, <1>4, <1>5, <1>6, <1>7

LEMMA StepInd == IndInv /\ [Next]_vars => IndInv'
<1> SUFFICES ASSUME IndInv, [Next]_vars PROVE IndInv'
  OBVIOUS
<1>1. ASSUME NEW p \in CommandPools, NEW c \in CommandBuffers, Recording(p, c)
      PROVE  IndInv'
  BY <1>1, AllocateCommandBuffersInd, FreeCommandBuffersInd,
     BeginCommandBufferInd, ResetCommandBufferInd, EndCommandBufferInd,
     PushAllocateInd DEF Recording
<1>2. ASSUME NEW p \in CommandPools, Finishing(p)
      PROVE  IndInv'
  BY <1>2, RegisterInd, EraseInd, DriverBeginInd, DriverResetInd,
     DriverResetPoolInd, PushRememberInd, PushTrackInd, PushBindInd
     DEF Finishing
<1>3. ASSUME NEW p \in CommandPools, Pooling(p)
      PROVE  IndInv'
  BY <1>3, CreateCommandPoolInd, ResetCommandPoolInd, DestroyCommandPoolInd,
     DriverDestroyPoolInd DEF Pooling
<1>4. ASSUME NEW c \in CommandBuffers, Submit(c) \/ Complete(c)
      PROVE  IndInv'
  BY <1>4, SubmitInd, CompleteInd
<1>5. CASE UNCHANGED vars
  <2> USE <1>5 DEF vars, threadVars, driverVars, mapVars, setVars, IndInv
  <2>1. TypeOK' /\ LockHeld' /\ StepsOwned' /\ SetsApart' /\ ErasedGone'
    BY DEF TypeOK, LockHeld, StepsOwned, SetsApart, ErasedGone
  <2>2. Emptied' /\ DestroyedUnlisted' /\ BoundExact'
    BY DEF Emptied, DestroyedUnlisted, BoundExact, Fresh, Condemned
  <2>3. IssuedOwned' /\ TrackedExact' /\ RegistryExact'
    BY DEF IssuedOwned, TrackedExact, RegistryExact, SetsAt, Held, OfPool
  <2>4. QED
    BY <2>1, <2>2, <2>3
<1>6. QED
  BY <1>1, <1>2, <1>3, <1>4, <1>5 DEF Next

-------------------------------------------------------------------------------
(***************************************************************************)
(* The theorems.                                                           *)
(***************************************************************************)
LEMMA Inductive == Spec => []IndInv
BY InitInd, StepInd, PTL DEF Spec

\* Every handle is one of its kind and a thread inside a call that works on a
\* command buffer names it (command_buffer.cpp).
THEOREM TypeCorrect == Spec => []TypeOK
<1>1. IndInv => TypeOK
  BY DEF IndInv
<1>2. QED
  BY <1>1, Inductive, PTL

\* A command buffer's liveDescriptorSets are the sets its commands refer to,
\* however begin, reset, free and the pool operations of any number of threads
\* interleave (begin_command_buffer and its like, command_buffer.cpp).
THEOREM VectorsAreExact == Spec => []BoundExact
<1>1. IndInv => BoundExact
  BY DEF IndInv
<1>2. QED
  BY <1>1, Inductive, PTL

\* No set of an emulated push is leaked and none is freed twice: the issued sets
\* are the ones in exactly one vector or with a push that has not stored it yet.
THEOREM NoSetLeaked == Spec => []IssuedOwned
<1>1. IndInv => IssuedOwned
  BY DEF IndInv
<1>2. QED
  BY <1>1, Inductive, PTL

\* descriptorSetsMap has the sets a push may write and no set that was freed,
\* although handles come back on other threads.
THEOREM TrackingIsExact == Spec => []TrackedExact
<1>1. IndInv => TrackedExact
  BY DEF IndInv
<1>2. QED
  BY <1>1, Inductive, PTL

\* commandBuffersMap and commandPoolsMap know every buffer of every pool,
\* although the driver hands a freed handle to another thread before the layer
\* has forgotten it (FreeCommandBuffers holds global_lock across both).
THEOREM MapsAreExact == Spec => []RegistryExact
<1>1. IndInv => RegistryExact
  BY DEF IndInv
<1>2. QED
  BY <1>1, Inductive, PTL

\* No descriptor set is freed under a command buffer in execution: whatever a
\* pending buffer refers to is still issued.
PendingSetsIssued ==
    \A c \in CommandBuffers : state[c] = "pending" => bound[c] \subseteq issued

\* The device never reads a set that was freed (kill_descriptor_sets, begin and
\* reset of command_buffer.cpp).
THEOREM NoSetFreedInUse == Spec => []PendingSetsIssued
<1>1. IndInv => PendingSetsIssued
  <2> SUFFICES ASSUME IndInv, NEW c \in CommandBuffers, state[c] = "pending"
               PROVE  bound[c] \subseteq issued
    BY DEF PendingSetsIssued
  <2>1. ~Condemned(c)
    BY DEF IndInv, Emptied
  <2>2. bound[c] \subseteq liveDescriptorSets[c]
    BY <2>1 DEF IndInv, BoundExact
  <2>3. QED
    BY <2>2 DEF IndInv, IssuedOwned, Held
<1>2. QED
  BY <1>1, Inductive, PTL
===============================================================================
