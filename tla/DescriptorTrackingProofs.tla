----------------------- MODULE DescriptorTrackingProofs -----------------------
(***************************************************************************)
(* Proofs about DescriptorTracking for any threads, pools, sets, layouts   *)
(* and handles.                                                            *)
(*                                                                         *)
(* The driver and the layer's maps are changed in steps of their own, so   *)
(* between them a map is behind the driver: an entry may be missing for a  *)
(* set that was just allocated, and one may remain for a set that is gone. *)
(* The invariant says whose work each difference is. A pool is in the      *)
(* hands of one thread at a time (Holding), so the sets a thread is        *)
(* entering are its pool's (Tracking), a set in a pool's vector is one of  *)
(* that pool or one whose erasure is under way (VectorsHeld), and a handle *)
(* that the driver gives out again while the erasure of its old entry is   *)
(* under way is noted (RacesNoted): such an entry may be lost, no other.   *)
(***************************************************************************)
EXTENDS DescriptorTracking, TLAPS

\* The steps of a thread at work on a pool.
PoolSteps == {"trackSets", "trackPool", "untrackSets", "untrackPools",
              "takeVector", "takeVectorFirst", "eraseSets", "eraseSetsFirst",
              "destroy"}

\* A pool is in the hands of one thread.
Holding ==
    /\ \A t \in Threads : pool[t] # NoPool <=> at[t] \in PoolSteps
    /\ \A t, u \in Threads : t # u /\ pool[t] = pool[u] => pool[t] = NoPool

\* What a thread is about to enter is of its pool; and its first half has
\* been entered, or was raced.
Tracking ==
    \A t \in Threads :
        /\ at[t] \in {"trackSets", "trackPool", "eraseSetsFirst"} =>
             \A s \in batch[t] : poolOf[s] = pool[t]
        /\ at[t] = "trackPool" => \A s \in batch[t] :
             descriptorSetsMap[s] = layoutOf[s] \/ (s \in raced /\ descriptorSetsMap[s] = NoLayout)

\* A set that exists and whose old entry is being erased is noted.
RacesNoted ==
    \A t \in Threads : \A s \in Erasing(t) : poolOf[s] # NoPool => s \in raced

\* A pool that was reset has no sets, and before it is destroyed no vector.
Emptying ==
    \A t \in Threads :
        /\ at[t] \in {"takeVector", "eraseSets"} => OfPool(pool[t]) = {}
        /\ at[t] \in {"eraseSets", "eraseSetsFirst", "destroy"} =>
             descriptorPoolsMap[pool[t]] = {}

\* A set in a pool's vector is the pool's, or being erased by the thread that
\* has the pool.
VectorsHeld ==
    \A p \in Pools : \A s \in descriptorPoolsMap[p] :
        poolOf[s] = p \/ \E t \in Threads : pool[t] = p /\ s \in Erasing(t)

\* The objects threads are at work on.
ObjectSteps ==
    \A t \in Threads :
        /\ at[t] = "insert" => object[t] \in objects
        /\ at[t] = "erase" => object[t] \in Objects
        /\ at[t] = "erase" /\ object[t] \in objects => object[t] \in racedObjects

\* The inductive invariant.
IndInv ==
    /\ TypeOK
    /\ Holding
    /\ Tracking
    /\ RacesNoted
    /\ Emptying
    /\ VectorsHeld
    /\ ObjectSteps
    /\ EntriesTrue
    /\ EntriesKept
    /\ ObjectsKnown

-------------------------------------------------------------------------------
(***************************************************************************)
(* One lemma per action.                                                   *)
(***************************************************************************)

\* The new sets are noted if an old entry of theirs is being erased.
LEMMA AllocateDescriptorSetsInd ==
  ASSUME NEW t \in Threads, NEW p \in Pools, NEW S \in SUBSET Sets, NEW l \in [S -> Layouts],
         IndInv, AllocateDescriptorSets(t, p, S, l)
  PROVE  IndInv'
<1> USE DEF IndInv, AllocateDescriptorSets, Enter, Assign, objectVars, Step
<1>1. TypeOK'
  BY NamesAssumption DEF TypeOK
<1>2. Holding'
  BY DEF TypeOK, Holding, PoolSteps
<1>3. Tracking'
  BY DEF TypeOK, Tracking, Holding, PoolSteps
<1>4. RacesNoted'
  BY DEF TypeOK, RacesNoted, Erasing, Holding, PoolSteps
<1>5. Emptying'
  BY DEF TypeOK, Emptying, OfPool
<1>6. VectorsHeld'
  <2>1. \A u \in Threads : u # t => Erasing(u)' = Erasing(u)
    BY DEF TypeOK, Erasing
  <2>2. Erasing(t) = {} /\ pool[t] = NoPool
    BY DEF TypeOK, Erasing, Holding, PoolSteps
  <2>3. \A s \in Sets : poolOf[s] \in Pools => poolOf'[s] = poolOf[s]
    BY NamesAssumption DEF TypeOK
  <2>4. \A u \in Threads : u # t => pool'[u] = pool[u]
    BY DEF TypeOK
  <2>5. UNCHANGED descriptorPoolsMap /\ descriptorPoolsMap \in [Pools -> SUBSET Sets]
    BY DEF TypeOK
  <2>6. VectorsHeld
    OBVIOUS
  <2> HIDE DEF IndInv, AllocateDescriptorSets
  <2>7. QED
    BY <2>1, <2>2, <2>3, <2>4, <2>5, <2>6 DEF VectorsHeld
<1>7. ObjectSteps'
  BY DEF ObjectSteps
<1>8. EntriesTrue'
  BY DEF TypeOK, EntriesTrue, Allocated
<1>9. EntriesKept'
  BY DEF TypeOK, EntriesKept, Allocated, Doomed
<1>10. ObjectsKnown'
  BY DEF ObjectsKnown
<1>11. QED
  BY <1>1, <1>2, <1>3, <1>4, <1>5, <1>6, <1>7, <1>8, <1>9, <1>10

\* The sets are the pool's.
LEMMA TrackSetsInd ==
  ASSUME NEW t \in Threads, IndInv, TrackSets(t)
  PROVE  IndInv'
<1> USE DEF IndInv, TrackSets, Step, driverVars, objectVars
<1>1. TypeOK'
  BY DEF TypeOK
<1>2. Holding'
  BY DEF Holding, PoolSteps
<1>3. Tracking'
  BY DEF TypeOK, Tracking
<1>4. RacesNoted'
  BY DEF RacesNoted, Erasing
<1>5. Emptying'
  BY DEF Emptying, OfPool
<1>6. VectorsHeld'
  BY DEF VectorsHeld, Erasing
<1>7. ObjectSteps'
  BY DEF ObjectSteps
<1>8. EntriesTrue'
  BY DEF EntriesTrue, Allocated
<1>9. EntriesKept'
  BY DEF EntriesKept, Allocated, Doomed
<1>10. ObjectsKnown'
  BY DEF ObjectsKnown
<1>11. QED
  BY <1>1, <1>2, <1>3, <1>4, <1>5, <1>6, <1>7, <1>8, <1>9, <1>10

\* And go into its vector.
LEMMA TrackPoolInd ==
  ASSUME NEW t \in Threads, IndInv, TrackPool(t)
  PROVE  IndInv'
<1> USE DEF IndInv, TrackPool, Return, driverVars, objectVars, Step
<1>1. TypeOK'
  BY DEF TypeOK, Holding, PoolSteps
<1>2. Holding'
  BY DEF TypeOK, Holding, PoolSteps
<1>3. Tracking'
  BY DEF TypeOK, Tracking
<1>4. RacesNoted'
  BY NamesAssumption DEF TypeOK, RacesNoted, Erasing, Holding
<1>5. Emptying'
  BY NamesAssumption DEF TypeOK, Emptying, OfPool, Holding
<1>6. VectorsHeld'
  BY DEF VectorsHeld, Erasing, Tracking
<1>7. ObjectSteps'
  BY DEF ObjectSteps
<1>8. EntriesTrue'
  BY DEF EntriesTrue, Allocated, Tracking
<1>9. EntriesKept'
  BY DEF TypeOK, EntriesKept, Allocated, Doomed, Tracking
<1>10. ObjectsKnown'
  BY DEF ObjectsKnown
<1>11. QED
  BY <1>1, <1>2, <1>3, <1>4, <1>5, <1>6, <1>7, <1>8, <1>9, <1>10

\* The sets are gone, their entries are this thread's to erase.
LEMMA FreeDescriptorSetsInd ==
  ASSUME NEW t \in Threads, NEW p \in Pools, NEW S \in SUBSET Sets,
         IndInv, FreeDescriptorSets(t, p, S)
  PROVE  IndInv'
<1> USE DEF IndInv, FreeDescriptorSets, Enter, Assign, OfPool, objectVars, Step
<1>1. TypeOK'
  BY DEF TypeOK
<1>2. Holding'
  BY DEF TypeOK, Holding, PoolSteps
<1>3. Tracking'
  BY DEF TypeOK, Tracking
<1>4. RacesNoted'
  BY DEF TypeOK, RacesNoted, Erasing, Holding, PoolSteps
<1>5. Emptying'
  BY DEF TypeOK, Emptying, Holding, PoolSteps
<1>6. VectorsHeld'
  BY DEF TypeOK, VectorsHeld, Erasing
<1>7. ObjectSteps'
  BY DEF ObjectSteps
<1>8. EntriesTrue'
  BY DEF TypeOK, EntriesTrue, Allocated
<1>9. EntriesKept'
  BY DEF TypeOK, EntriesKept, Allocated, Doomed
<1>10. ObjectsKnown'
  BY DEF ObjectsKnown
<1>11. QED
  BY <1>1, <1>2, <1>3, <1>4, <1>5, <1>6, <1>7, <1>8, <1>9, <1>10

\* An entry erased is of a set that is gone, or noted.
LEMMA UntrackSetsInd ==
  ASSUME NEW t \in Threads, IndInv, UntrackSets(t)
  PROVE  IndInv'
<1> USE DEF IndInv, UntrackSets, Step, Assign, driverVars, objectVars
<1>1. TypeOK'
  BY DEF TypeOK
<1>2. Holding'
  BY DEF Holding, PoolSteps
<1>3. Tracking'
  BY DEF TypeOK, Tracking, RacesNoted, Erasing
<1>4. RacesNoted'
  BY DEF RacesNoted, Erasing
<1>5. Emptying'
  BY DEF Emptying, OfPool
<1>6. VectorsHeld'
  BY DEF VectorsHeld, Erasing
<1>7. ObjectSteps'
  BY DEF ObjectSteps
<1>8. EntriesTrue'
  BY DEF TypeOK, EntriesTrue, Allocated
<1>9. EntriesKept'
  BY DEF TypeOK, EntriesKept, Allocated, Doomed, RacesNoted, Erasing
<1>10. ObjectsKnown'
  BY DEF ObjectsKnown
<1>11. QED
  BY <1>1, <1>2, <1>3, <1>4, <1>5, <1>6, <1>7, <1>8, <1>9, <1>10

\* And so for the vector.
LEMMA UntrackPoolsInd ==
  ASSUME NEW t \in Threads, IndInv, UntrackPools(t)
  PROVE  IndInv'
<1> USE DEF IndInv, UntrackPools, Return, driverVars, objectVars, Step
<1>1. TypeOK'
  BY DEF TypeOK
<1>2. Holding'
  BY DEF TypeOK, Holding, PoolSteps
<1>3. Tracking'
  BY DEF Tracking
<1>4. RacesNoted'
  BY DEF TypeOK, RacesNoted, Erasing, Holding, PoolSteps
<1>5. Emptying'
  BY DEF TypeOK, Emptying, OfPool, Holding, PoolSteps
<1>6. VectorsHeld'
  <2> SUFFICES ASSUME NEW p \in Pools, NEW s \in descriptorPoolsMap'[p],
                      poolOf[s] # p
               PROVE  \E u \in Threads : pool'[u] = p /\ s \in Erasing(u)'
    BY DEF VectorsHeld
  <2>1. s \in descriptorPoolsMap[p] /\ s \notin batch[t]
    BY DEF TypeOK
  <2>2. PICK u \in Threads : pool[u] = p /\ s \in Erasing(u)
    BY <2>1 DEF VectorsHeld
  <2>3. u # t
    BY <2>1, <2>2 DEF Erasing
  <2>4. pool'[u] = p /\ at'[u] = at[u] /\ batch'[u] = batch[u]
    BY <2>2, <2>3 DEF TypeOK
  <2>5. s \in Erasing(u)'
    BY <2>1, <2>2, <2>4 DEF Erasing, TypeOK
  <2>6. QED
    BY <2>4, <2>5
<1>7. ObjectSteps'
  BY DEF ObjectSteps
<1>8. EntriesTrue'
  BY DEF EntriesTrue, Allocated
<1>9. EntriesKept'
  BY DEF TypeOK, EntriesKept, Allocated, Doomed, RacesNoted, Erasing
<1>10. ObjectsKnown'
  BY DEF ObjectsKnown
<1>11. QED
  BY <1>1, <1>2, <1>3, <1>4, <1>5, <1>6, <1>7, <1>8, <1>9, <1>10

\* All sets of the pool are gone.
LEMMA ResetDescriptorPoolInd ==
  ASSUME NEW t \in Threads, NEW p \in Pools, IndInv, ResetDescriptorPool(t, p)
  PROVE  IndInv'
<1> USE DEF IndInv, ResetDescriptorPool, Enter, Assign, OfPool, objectVars, Step
<1>1. TypeOK'
  BY DEF TypeOK
<1>2. Holding'
  BY DEF TypeOK, Holding, PoolSteps
<1>3. Tracking'
  BY DEF TypeOK, Tracking
<1>4. RacesNoted'
  BY DEF TypeOK, RacesNoted, Erasing, Holding, PoolSteps, VectorsHeld
<1>5. Emptying'
  BY DEF TypeOK, Emptying, Holding, PoolSteps
<1>6. VectorsHeld'
  BY DEF TypeOK, VectorsHeld, Erasing
<1>7. ObjectSteps'
  BY DEF ObjectSteps
<1>8. EntriesTrue'
  BY DEF TypeOK, EntriesTrue, Allocated
<1>9. EntriesKept'
  BY DEF TypeOK, EntriesKept, Allocated, Doomed
<1>10. ObjectsKnown'
  BY DEF ObjectsKnown
<1>11. QED
  BY <1>1, <1>2, <1>3, <1>4, <1>5, <1>6, <1>7, <1>8, <1>9, <1>10

\* No thread has the pool.
LEMMA DestroyDescriptorPoolInd ==
  ASSUME NEW t \in Threads, NEW p \in Pools,
         IndInv, DestroyDescriptorPool(t, p)
  PROVE  IndInv'
<1> USE DEF IndInv, DestroyDescriptorPool, Enter, driverVars, setVars, objectVars, Step
<1>1. TypeOK'
  BY DEF TypeOK
<1>2. Holding'
  BY DEF TypeOK, Holding, PoolSteps
<1>3. Tracking'
  BY DEF Tracking
<1>4. RacesNoted'
  BY DEF RacesNoted, Erasing
<1>5. Emptying'
  BY DEF Emptying, OfPool
<1>6. VectorsHeld'
  BY DEF VectorsHeld, Erasing
<1>7. ObjectSteps'
  BY DEF ObjectSteps
<1>8. EntriesTrue'
  BY DEF EntriesTrue, Allocated
<1>9. EntriesKept'
  BY DEF EntriesKept, Allocated, Doomed
<1>10. ObjectsKnown'
  BY DEF ObjectsKnown
<1>11. QED
  BY <1>1, <1>2, <1>3, <1>4, <1>5, <1>6, <1>7, <1>8, <1>9, <1>10

\* The vector of the pool is emptied.
LEMMA TakeVectorInd ==
  ASSUME NEW t \in Threads, IndInv, TakeVector(t)
  PROVE  IndInv'
<1> USE DEF IndInv, TakeVector, Step, driverVars, objectVars
<1>1. TypeOK'
  BY DEF TypeOK, Holding, PoolSteps
<1>2. Holding'
  BY DEF TypeOK, Holding, PoolSteps
<1>3. Tracking'
  BY DEF TypeOK, Tracking, Holding, PoolSteps, VectorsHeld, Erasing
<1>4. RacesNoted'
  BY DEF TypeOK, RacesNoted, Erasing
<1>5. Emptying'
  BY DEF TypeOK, Emptying, OfPool, Holding, PoolSteps
<1>6. VectorsHeld'
  BY DEF TypeOK, VectorsHeld, Erasing
<1>7. ObjectSteps'
  BY DEF TypeOK, ObjectSteps
<1>8. EntriesTrue'
  BY DEF TypeOK, EntriesTrue, Allocated
<1>9. EntriesKept'
  <2>1. Allocated' = Allocated /\ Doomed' = Doomed
    BY DEF TypeOK, Allocated, Doomed
  <2>2. \A s \in Allocated : poolOf[s] \notin Doomed =>
          descriptorPoolsMap'[poolOf[s]] = descriptorPoolsMap[poolOf[s]]
    BY DEF TypeOK, Allocated, Doomed, Emptying, OfPool
  <2>3. QED
    BY <2>1, <2>2 DEF EntriesKept
<1>10. ObjectsKnown'
  BY DEF TypeOK, ObjectsKnown
<1>11. QED
  BY <1>1, <1>2, <1>3, <1>4, <1>5, <1>6, <1>7, <1>8, <1>9, <1>10

\* The entries of what it held go.
LEMMA EraseSetsInd ==
  ASSUME NEW t \in Threads, IndInv, EraseSets(t)
  PROVE  IndInv'
<1> USE DEF IndInv, EraseSets, Step, Return, Assign, driverVars, objectVars
<1>1. TypeOK'
  BY DEF TypeOK
<1>2. Holding'
  BY DEF TypeOK, Holding, PoolSteps
<1>3. Tracking'
  BY DEF TypeOK, Tracking, Holding, RacesNoted, Erasing
<1>4. RacesNoted'
  BY DEF TypeOK, RacesNoted, Erasing, Holding
<1>5. Emptying'
  BY DEF TypeOK, Emptying, OfPool
<1>6. VectorsHeld'
  BY DEF TypeOK, VectorsHeld, Erasing, Emptying
<1>7. ObjectSteps'
  BY DEF TypeOK, ObjectSteps
<1>8. EntriesTrue'
  BY DEF TypeOK, EntriesTrue, Allocated
<1>9. EntriesKept'
  BY DEF TypeOK, EntriesKept, Allocated, Doomed, Tracking, RacesNoted,
         Emptying, Erasing
<1>10. ObjectsKnown'
  BY DEF TypeOK, ObjectsKnown
<1>11. QED
  BY <1>1, <1>2, <1>3, <1>4, <1>5, <1>6, <1>7, <1>8, <1>9, <1>10

\* The sets of the pool go with it.
LEMMA DriverDestroyPoolInd ==
  ASSUME NEW t \in Threads, IndInv, DriverDestroyPool(t)
  PROVE  IndInv'
<1> USE DEF IndInv, DriverDestroyPool, Return, Assign, OfPool, objectVars, Step
<1>1. TypeOK'
  BY DEF TypeOK
<1>2. Holding'
  BY DEF TypeOK, Holding, PoolSteps
<1>3. Tracking'
  BY DEF TypeOK, Tracking, Holding
<1>4. RacesNoted'
  BY DEF TypeOK, RacesNoted, Erasing, Holding, PoolSteps
<1>5. Emptying'
  BY DEF TypeOK, Emptying, Holding, PoolSteps
<1>6. VectorsHeld'
  BY DEF TypeOK, VectorsHeld, Erasing, Emptying
<1>7. ObjectSteps'
  BY DEF ObjectSteps
<1>8. EntriesTrue'
  BY DEF TypeOK, EntriesTrue, Allocated
<1>9. EntriesKept'
  BY DEF TypeOK, EntriesKept, Allocated, Doomed
<1>10. ObjectsKnown'
  BY DEF ObjectsKnown
<1>11. QED
  BY <1>1, <1>2, <1>3, <1>4, <1>5, <1>6, <1>7, <1>8, <1>9, <1>10

\* The handle is noted if its entry is being erased.
LEMMA CreateInd ==
  ASSUME NEW t \in Threads, NEW o \in Objects, IndInv, Create(t, o)
  PROVE  IndInv'
<1> USE DEF IndInv, Create, Step, setVars
<1>1. TypeOK'
  BY DEF TypeOK
<1>2. Holding'
  BY DEF Holding, PoolSteps
<1>3. Tracking'
  BY DEF Tracking
<1>4. RacesNoted'
  BY DEF RacesNoted, Erasing
<1>5. Emptying'
  BY DEF Emptying, OfPool
<1>6. VectorsHeld'
  BY DEF VectorsHeld, Erasing
<1>7. ObjectSteps'
  BY DEF TypeOK, ObjectSteps
<1>8. EntriesTrue'
  BY DEF EntriesTrue, Allocated
<1>9. EntriesKept'
  BY DEF EntriesKept, Allocated, Doomed
<1>10. ObjectsKnown'
  BY DEF TypeOK, ObjectsKnown
<1>11. QED
  BY <1>1, <1>2, <1>3, <1>4, <1>5, <1>6, <1>7, <1>8, <1>9, <1>10

\* What is entered exists.
LEMMA InsertInd ==
  ASSUME NEW t \in Threads, IndInv, Insert(t)
  PROVE  IndInv'
<1> USE DEF IndInv, Insert, Step, driverVars, setVars
<1>1. TypeOK'
  <2>1. object[t] \in Objects /\ object[t] \in objects
    BY DEF TypeOK, ObjectSteps
  <2>2. QED
    BY <2>1 DEF TypeOK
<1>2. Holding'
  BY DEF Holding, PoolSteps
<1>3. Tracking'
  BY DEF Tracking
<1>4. RacesNoted'
  BY DEF RacesNoted, Erasing
<1>5. Emptying'
  BY DEF Emptying, OfPool
<1>6. VectorsHeld'
  BY DEF VectorsHeld, Erasing
<1>7. ObjectSteps'
  BY DEF TypeOK, ObjectSteps
<1>8. EntriesTrue'
  BY DEF EntriesTrue, Allocated
<1>9. EntriesKept'
  BY DEF EntriesKept, Allocated, Doomed
<1>10. ObjectsKnown'
  BY DEF ObjectsKnown, ObjectSteps
<1>11. QED
  BY <1>1, <1>2, <1>3, <1>4, <1>5, <1>6, <1>7, <1>8, <1>9, <1>10

\* The entry is this thread's to erase.
LEMMA DestroyInd ==
  ASSUME NEW t \in Threads, NEW o \in Objects, IndInv, Destroy(t, o)
  PROVE  IndInv'
<1> USE DEF IndInv, Destroy, Step, setVars
<1>1. TypeOK'
  BY DEF TypeOK
<1>2. Holding'
  BY DEF Holding, PoolSteps
<1>3. Tracking'
  BY DEF Tracking
<1>4. RacesNoted'
  BY DEF RacesNoted, Erasing
<1>5. Emptying'
  BY DEF Emptying, OfPool
<1>6. VectorsHeld'
  BY DEF VectorsHeld, Erasing
<1>7. ObjectSteps'
  BY DEF TypeOK, ObjectSteps
<1>8. EntriesTrue'
  BY DEF EntriesTrue, Allocated
<1>9. EntriesKept'
  BY DEF EntriesKept, Allocated, Doomed
<1>10. ObjectsKnown'
  BY DEF TypeOK, ObjectsKnown
<1>11. QED
  BY <1>1, <1>2, <1>3, <1>4, <1>5, <1>6, <1>7, <1>8, <1>9, <1>10

\* What is erased is gone, or noted.
LEMMA EraseInd ==
  ASSUME NEW t \in Threads, IndInv, Erase(t)
  PROVE  IndInv'
<1> USE DEF IndInv, Erase, Step, driverVars, setVars
<1>1. TypeOK'
  BY DEF TypeOK
<1>2. Holding'
  BY DEF Holding, PoolSteps
<1>3. Tracking'
  BY DEF Tracking
<1>4. RacesNoted'
  BY DEF RacesNoted, Erasing
<1>5. Emptying'
  BY DEF Emptying, OfPool
<1>6. VectorsHeld'
  BY DEF VectorsHeld, Erasing
<1>7. ObjectSteps'
  BY DEF TypeOK, ObjectSteps
<1>8. EntriesTrue'
  BY DEF EntriesTrue, Allocated
<1>9. EntriesKept'
  BY DEF EntriesKept, Allocated, Doomed
<1>10. ObjectsKnown'
  BY DEF ObjectsKnown, ObjectSteps
<1>11. QED
  BY <1>1, <1>2, <1>3, <1>4, <1>5, <1>6, <1>7, <1>8, <1>9, <1>10

-------------------------------------------------------------------------------
(***************************************************************************)
(* The invariant and the theorems.                                         *)
(***************************************************************************)

\* There is nothing.
LEMMA InitInd == Init => IndInv
<1> SUFFICES ASSUME Init PROVE IndInv
  OBVIOUS
<1> USE DEF Init
<1>1. TypeOK
  BY DEF TypeOK
<1>2. Holding /\ Tracking /\ RacesNoted /\ Emptying /\ VectorsHeld
  BY DEF Holding, PoolSteps, Tracking, RacesNoted, Emptying, VectorsHeld,
         Erasing
<1>3. ObjectSteps /\ ObjectsKnown
  BY DEF ObjectSteps, ObjectsKnown
<1>4. EntriesTrue /\ EntriesKept
  BY DEF EntriesTrue, EntriesKept, Allocated
<1>5. QED
  BY <1>1, <1>2, <1>3, <1>4 DEF IndInv

\* Every step preserves the invariant.
LEMMA StepInd == IndInv /\ [Next]_vars => IndInv'
<1> SUFFICES ASSUME IndInv, [Next]_vars PROVE IndInv'
  OBVIOUS
<1>1. ASSUME NEW t \in Threads, NEW p \in Pools, NEW S \in SUBSET Sets,
             \/ \E l \in [S -> Layouts] : AllocateDescriptorSets(t, p, S, l)
             \/ FreeDescriptorSets(t, p, S)
      PROVE  IndInv'
  BY <1>1, AllocateDescriptorSetsInd, FreeDescriptorSetsInd
<1>2. ASSUME NEW t \in Threads, NEW p \in Pools,
             ResetDescriptorPool(t, p) \/ DestroyDescriptorPool(t, p)
      PROVE  IndInv'
  BY <1>2, ResetDescriptorPoolInd, DestroyDescriptorPoolInd
<1>3. ASSUME NEW t \in Threads,
             \/ TrackSets(t) \/ TrackPool(t) \/ UntrackSets(t) \/ UntrackPools(t)
             \/ TakeVector(t) \/ EraseSets(t) \/ DriverDestroyPool(t)
             \/ Insert(t) \/ Erase(t)
      PROVE  IndInv'
  BY <1>3, TrackSetsInd, TrackPoolInd, UntrackSetsInd, UntrackPoolsInd,
     TakeVectorInd, EraseSetsInd, DriverDestroyPoolInd, InsertInd, EraseInd
<1>4. ASSUME NEW t \in Threads, NEW h \in Handles,
             \/ CreateDescriptorSetLayout(t, h) \/ DestroyDescriptorSetLayout(t, h)
             \/ CreateDescriptorUpdateTemplate(t, h)
             \/ DestroyDescriptorUpdateTemplate(t, h)
             \/ CreatePipelineLayout(t, h) \/ DestroyPipelineLayout(t, h)
      PROVE  IndInv'
  <2>1. PICK o \in Objects : Create(t, o) \/ Destroy(t, o)
    BY <1>4
       DEF Objects, CreateDescriptorSetLayout, DestroyDescriptorSetLayout,
           CreateDescriptorUpdateTemplate, DestroyDescriptorUpdateTemplate,
           CreatePipelineLayout, DestroyPipelineLayout
  <2>2. QED
    BY <2>1, CreateInd, DestroyInd
<1>5. CASE UNCHANGED vars
  <2> USE <1>5 DEF IndInv, vars, threadVars, driverVars, setVars, objectVars
  <2>1. TypeOK' /\ ObjectSteps' /\ ObjectsKnown'
    BY DEF TypeOK, ObjectSteps, ObjectsKnown
  <2>2. Holding' /\ Tracking' /\ RacesNoted' /\ Emptying' /\ VectorsHeld'
    BY DEF Holding, Tracking, RacesNoted, Emptying, VectorsHeld, Erasing,
           OfPool
  <2>3. EntriesTrue' /\ EntriesKept'
    BY DEF EntriesTrue, EntriesKept, Allocated, Doomed
  <2>4. QED
    BY <2>1, <2>2, <2>3
<1>6. QED
  BY <1>1, <1>2, <1>3, <1>4, <1>5 DEF Next

\* The invariant holds in every state.
LEMMA Inductive == Spec => []IndInv
BY InitInd, StepInd, PTL DEF Spec

\* Threads, pools, sets, objects and maps are what they should be
\* (descriptors.cpp).
THEOREM TypeCorrect == Spec => []TypeOK
<1>1. IndInv => TypeOK
  BY DEF IndInv
<1>2. QED
  BY <1>1, Inductive, PTL

\* What the map says of a descriptor set that its owner may use is true: it
\* has the layout the set was allocated with, whatever other threads free,
\* reset or destroy meanwhile (AllocateDescriptorSets, FreeDescriptorSets,
\* ResetDescriptorPool and DestroyDescriptorPool).
THEOREM EntriesAreTrue == Spec => []EntriesTrue
<1>1. IndInv => EntriesTrue
  BY DEF IndInv
<1>2. QED
  BY <1>1, Inductive, PTL

\* A set that was allocated keeps its entry until it is freed or its pool is
\* reset or destroyed, unless its handle came back before the old entry was
\* erased (the same calls).
THEOREM EntriesAreKept == Spec => []EntriesKept
<1>1. IndInv => EntriesKept
  BY DEF IndInv
<1>2. QED
  BY <1>1, Inductive, PTL

\* The vector of a pool holds sets of that pool only, but for those whose
\* erasure is under way: a reset takes no entry of another pool (TrackPool,
\* UntrackPools and TakeVector).
THEOREM VectorsAreOwned == Spec => []VectorsOwned
<1>1. IndInv => VectorsOwned
  BY DEF IndInv, VectorsHeld, VectorsOwned
<1>2. QED
  BY <1>1, Inductive, PTL

\* Set layouts, update templates and pipeline layouts have their entries from
\* the return of their creation to the call that destroys them, unless a
\* handle came back before its old entry was erased (the create and destroy
\* calls of these objects).
THEOREM ObjectsAreKnown == Spec => []ObjectsKnown
<1>1. IndInv => ObjectsKnown
  BY DEF IndInv
<1>2. QED
  BY <1>1, Inductive, PTL
===============================================================================
