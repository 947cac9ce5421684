---------------------------- MODULE DevicesProofs -----------------------------
(***************************************************************************)
(* Proofs about DeviceSetup, DeviceLife and Samplers for any physical      *)
(* devices, requests, threads, handles and dispatch keys.                  *)
(*                                                                         *)
(* DeviceSetup: what the driver is asked for does not change afterwards,   *)
(* so all is in the step CreateDevice, and there in one fact about the     *)
(* steps before it: as long as the application's structures have not been  *)
(* used they hold what the application put there (Composed). Every         *)
(* structure is then masked by the features of this very device, whatever  *)
(* the caches hold; only what goes by the caches needs that they describe  *)
(* it.                                                                     *)
(*                                                                         *)
(* DeviceLife: the layer finds a device by the first word of the object,   *)
(* which is the loader's. What makes the map right is that no two devices  *)
(* have the same word (KeysHeld), and that the word of a device which is   *)
(* gone is not given to another before DestroyDevice returns (KeysLeft).   *)
(* DestroyDevice reads it from the freed object once more, to erase its    *)
(* entry: that it still is what it was (WordsLeft) is true only while the  *)
(* memory has not been used again, and all that depends on it is said      *)
(* under ~raced. An entry that was not erased does no harm, for the next   *)
(* device with that word writes its own over it.                           *)
(*                                                                         *)
(* Samplers: a fallback is created outside the lock, so several threads    *)
(* may create one and all but the last are kept when the device is         *)
(* destroyed. That there are no more of them than threads is an invariant  *)
(* of numbers (Counted): a thread is about to create one only if it has    *)
(* seen none, and while none is stored every fallback that was created is  *)
(* in the hands of a thread that is about to store it.                     *)
(***************************************************************************)
EXTENDS DeviceSetup, DeviceLife, Samplers, FiniteSetTheorems, TLAPS

-------------------------------------------------------------------------------
(***************************************************************************)
(* Devices.                                                                *)
(***************************************************************************)

\* The types of what is kept of devices.
LifeTypeOK ==
    /\ dev_pc \in [DeviceThreads ->
                     {"idle", "insert", "stop", "destroy", "erase", "return"}]
    /\ device \in [DeviceThreads -> Addresses \cup {NoAddress}]
    /\ dev \in [DeviceThreads -> Nat \cup {NoId}]
    /\ dispatch \in [DeviceThreads -> Keys \cup {NoKey}]
    /\ word \in [Addresses -> Keys \cup {NoKey}]
    /\ driver \in SUBSET Addresses
    /\ loader \in SUBSET Keys
    /\ deviceMap \in [Keys -> Nat \cup {NoId}]
    /\ nextDeviceIdCounter \in Nat
    /\ own \in [Addresses -> Nat \cup {NoId}]
    /\ objects \in SUBSET Nat
    /\ finalizers \in SUBSET Nat
    /\ raced \in BOOLEAN
    /\ \A t \in DeviceThreads :
         /\ dev_pc[t] # "idle" => device[t] \in Addresses
         /\ dev_pc[t] = "insert" => dev[t] \in Nat

\* The threads at work on a device that the driver still has.
Working == {t \in DeviceThreads : dev_pc[t] \in {"insert", "stop", "destroy"}}

\* The devices the driver has, but for those that DestroyDevice did not find.
Alive == {a \in Addresses : own[a] # NoId} \cup {device[t] : t \in Working}

\* The threads whose device is gone and whose entry may remain.
Leaving == {t \in DeviceThreads : dev_pc[t] \in {"erase", "return"}}

\* The driver has the devices alive, and a device that is being created or
\* destroyed is in the hands of one thread.
AddressesHeld ==
    /\ Alive \subseteq driver
    /\ \A t \in Working : own[device[t]] = NoId
    /\ \A t, u \in Working : device[t] = device[u] => t = u

\* No two devices alive have the same first word.
KeysHeld ==
    /\ \A a \in Alive : word[a] \in loader
    /\ \A a, b \in Alive : word[a] = word[b] => a = b
    /\ \A t \in DeviceThreads : 
         dev_pc[t] \in {"stop", "destroy"} => dispatch[t] = word[device[t]]

\* The key of a device that has just gone is not another's yet.
KeysLeft ==
    \A t \in Leaving :
        /\ dispatch[t] \in loader
        /\ \A a \in Alive : word[a] # dispatch[t]
        /\ \A u \in Leaving : dispatch[u] = dispatch[t] => u = t

\* Memory that is given back holds the old key, or nothing.
WordsLeft ==
    ~raced => \A t \in DeviceThreads : dev_pc[t] = "erase" =>
        /\ device[t] \notin driver
        /\ word[device[t]] \in {dispatch[t], NoKey}

\* What is looked up is what was entered.
EntriesFound ==
    ~raced =>
        /\ \A a \in Addresses : own[a] # NoId => deviceMap[word[a]] = own[a]
        /\ \A t \in DeviceThreads : dev_pc[t] \in {"stop", "destroy"} =>
             dev[t] # NoId /\ deviceMap[word[device[t]]] = dev[t]

\* The objects that an application's device or a thread stands for.
Kept == {own[a] : a \in Addresses} \cup {dev[t] : t \in Working}

\* They exist, and a finalizer runs only for one of them.
ObjectsKept ==
    ~raced => /\ Kept \ {NoId} \subseteq objects
              /\ \A i \in finalizers :
                   \/ \E a \in Addresses : own[a] = i
                   \/ \E t \in DeviceThreads :
                        dev_pc[t] \in {"insert", "stop"} /\ dev[t] = i

\* The inductive invariant.
LifeIndInv ==
    /\ LifeTypeOK
    /\ AddressesHeld
    /\ KeysHeld
    /\ KeysLeft
    /\ WordsLeft
    /\ EntriesFound
    /\ ObjectsKept

-------------------------------------------------------------------------------
(***************************************************************************)
(* One lemma per action.                                                   *)
(***************************************************************************)

\* The driver gives an address it had not given, and the loader a key.
LEMMA DriverCreateInd ==
  ASSUME NEW t \in DeviceThreads, NEW a \in Addresses, NEW k \in Keys,
         LifeIndInv, DriverCreate(t, a, k)
  PROVE  LifeIndInv'
<1> USE DEF LifeIndInv, DriverCreate, Step
<1>1. LifeTypeOK'
  BY DEF LifeTypeOK
<1>2. AddressesHeld'
  BY DEF LifeTypeOK, AddressesHeld, Alive, Working
<1>3. KeysHeld'
  BY DEF LifeTypeOK, KeysHeld, Alive, Working, AddressesHeld
<1>4. KeysLeft'
  BY DEF LifeTypeOK, KeysLeft, Alive, Working, Leaving
<1>5. WordsLeft'
  <2> SUFFICES ASSUME ~raced', NEW u \in DeviceThreads, dev_pc'[u] = "erase"
               PROVE  /\ device'[u] \notin driver'
                      /\ word'[device'[u]] \in {dispatch'[u], NoKey}
    BY DEF WordsLeft
  <2>1. u # t /\ dev_pc[u] = "erase" /\ device'[u] = device[u]
    BY DEF LifeTypeOK
  <2>2. ~raced /\ device[u] # a
    BY <2>1
  <2>3. device[u] \notin driver /\ word[device[u]] \in {dispatch[u], NoKey}
    BY <2>1, <2>2 DEF WordsLeft
  <2>4. device[u] \in Addresses
    BY <2>1 DEF LifeTypeOK
  <2>5. QED
    BY <2>1, <2>2, <2>3, <2>4 DEF LifeTypeOK
<1>6. EntriesFound'
  BY DEF LifeTypeOK, EntriesFound, AddressesHeld, Alive, Working
<1>7. ObjectsKept'
  BY DEF LifeTypeOK, ObjectsKept, Kept, Working
<1>8. QED
  BY <1>1, <1>2, <1>3, <1>4, <1>5, <1>6, <1>7

\* The new object replaces no other in the map, for its key is its own.
LEMMA InsertDeviceInd ==
  ASSUME NEW t \in DeviceThreads, LifeIndInv, InsertDevice(t)
  PROVE  LifeIndInv'
<1> USE DEF LifeIndInv, InsertDevice, Step, Held
<1>1. LifeTypeOK'
  BY DEF LifeTypeOK
<1>2. AddressesHeld'
  BY DEF LifeTypeOK, AddressesHeld, Alive, Working
<1>3. KeysHeld'
  BY DEF KeysHeld, Alive, Working
<1>4. KeysLeft'
  BY DEF KeysLeft, Alive, Working, Leaving
<1>5. WordsLeft'
  BY DEF WordsLeft
<1>6. EntriesFound'
  BY DEF LifeTypeOK, EntriesFound, AddressesHeld, KeysHeld, Alive, Working
<1>7. ObjectsKept'
  BY DeviceNamesAssumption
     DEF LifeTypeOK, ObjectsKept, Kept, Working, AddressesHeld, KeysHeld,
         EntriesFound, Alive
<1>8. QED
  BY <1>1, <1>2, <1>3, <1>4, <1>5, <1>6, <1>7

\* The thread finds the object of its device, or raced is set.
LEMMA FindDeviceInd ==
  ASSUME NEW t \in DeviceThreads, NEW a \in Addresses, LifeIndInv, FindDevice(t, a)
  PROVE  LifeIndInv'
<1> USE DEF LifeIndInv, FindDevice, Step, get_device
<1>1. LifeTypeOK'
  BY DEF LifeTypeOK
<1>2. AddressesHeld'
  BY DEF LifeTypeOK, AddressesHeld, Alive, Working
<1>3. KeysHeld'
  BY DEF LifeTypeOK, KeysHeld, Alive, Working
<1>4. KeysLeft'
  BY DEF LifeTypeOK, KeysLeft, Alive, Working, Leaving, AddressesHeld, KeysHeld
<1>5. WordsLeft'
  BY DEF WordsLeft
<1>6. EntriesFound'
  BY DEF LifeTypeOK, EntriesFound
<1>7. ObjectsKept'
  BY DeviceNamesAssumption
     DEF LifeTypeOK, ObjectsKept, Kept, Working, KeysHeld, EntriesFound, Alive
<1>8. QED
  BY <1>1, <1>2, <1>3, <1>4, <1>5, <1>6, <1>7

\* The finalizer stops while the object is there.
LEMMA StopFinalizerInd ==
  ASSUME NEW t \in DeviceThreads, LifeIndInv, StopFinalizer(t)
  PROVE  LifeIndInv'
<1> USE DEF LifeIndInv, StopFinalizer, Step
<1>1. LifeTypeOK'
  BY DEF LifeTypeOK
<1>2. AddressesHeld'
  BY DEF AddressesHeld, Alive, Working
<1>3. KeysHeld'
  BY DEF KeysHeld, Alive, Working
<1>4. KeysLeft'
  BY DEF KeysLeft, Alive, Working, Leaving
<1>5. WordsLeft'
  BY DEF WordsLeft
<1>6. EntriesFound'
  BY DEF EntriesFound
<1>7. ObjectsKept'
  BY DEF ObjectsKept, Kept, Working
<1>8. QED
  BY <1>1, <1>2, <1>3, <1>4, <1>5, <1>6, <1>7

\* The memory of the device is free, and holds what it held or no word of the
\* loader.
LEMMA DriverDestroyInd ==
  ASSUME NEW t \in DeviceThreads, LifeIndInv, DriverDestroy(t)
  PROVE  LifeIndInv'
<1> USE DEF LifeIndInv, DriverDestroy, Step
<1>1. LifeTypeOK'
  BY DEF LifeTypeOK
<1>2. AddressesHeld'
  BY DEF LifeTypeOK, AddressesHeld, Alive, Working
<1>3. KeysHeld'
  BY DEF LifeTypeOK, KeysHeld, Alive, Working, AddressesHeld
<1>4. KeysLeft'
  BY DEF LifeTypeOK, KeysLeft, Alive, Working, Leaving, AddressesHeld, KeysHeld
<1>5. WordsLeft'
  BY DEF WordsLeft, KeysHeld
<1>6. EntriesFound'
  BY DEF LifeTypeOK, EntriesFound, AddressesHeld, Working
<1>7. ObjectsKept'
  BY DEF ObjectsKept, Kept, Working
<1>8. QED
  BY <1>1, <1>2, <1>3, <1>4, <1>5, <1>6, <1>7

\* The entry erased is that of the device, if any, or raced is set.
LEMMA EraseDeviceInd ==
  ASSUME NEW t \in DeviceThreads, LifeIndInv, EraseDevice(t)
  PROVE  LifeIndInv'
<1> USE DEF LifeIndInv, EraseDevice, Step, Held
<1>1. LifeTypeOK'
  BY DEF LifeTypeOK
<1>2. AddressesHeld'
  BY DEF AddressesHeld, Alive, Working
<1>3. KeysHeld'
  BY DEF KeysHeld, Alive, Working
<1>4. KeysLeft'
  BY DEF KeysLeft, Alive, Working, Leaving
<1>5. WordsLeft'
  BY DEF WordsLeft
<1>6. EntriesFound'
  BY DEF EntriesFound, KeysLeft, WordsLeft, Alive, Working, Leaving
<1>7. ObjectsKept'
  BY DEF LifeTypeOK, ObjectsKept, Kept, Working, KeysHeld, KeysLeft, WordsLeft,
         EntriesFound, Alive, Leaving
<1>8. QED
  BY <1>1, <1>2, <1>3, <1>4, <1>5, <1>6, <1>7

\* The key may be given out again: no device has it.
LEMMA ReturnInd ==
  ASSUME NEW t \in DeviceThreads, LifeIndInv, Return(t)
  PROVE  LifeIndInv'
<1> USE DEF LifeIndInv, Return, Step
<1>1. LifeTypeOK'
  BY DEF LifeTypeOK
<1>2. AddressesHeld'
  BY DEF AddressesHeld, Alive, Working
<1>3. KeysHeld'
  BY DEF KeysHeld, Alive, Working, KeysLeft, Leaving
<1>4. KeysLeft'
  BY DEF LifeTypeOK, KeysLeft, Alive, Working, Leaving
<1>5. WordsLeft'
  BY DEF WordsLeft
<1>6. EntriesFound'
  BY DEF EntriesFound
<1>7. ObjectsKept'
  BY DEF ObjectsKept, Kept, Working
<1>8. QED
  BY <1>1, <1>2, <1>3, <1>4, <1>5, <1>6, <1>7

-------------------------------------------------------------------------------
(***************************************************************************)
(* The invariant and the theorems.                                         *)
(***************************************************************************)

\* There is no device.
LEMMA LifeInitInd == LifeInit => LifeIndInv
<1> SUFFICES ASSUME LifeInit PROVE LifeIndInv
  OBVIOUS
<1> USE DEF LifeInit
<1>1. LifeTypeOK
  BY DEF LifeTypeOK
<1>2. Alive = {} /\ Working = {} /\ Leaving = {}
  BY DEF Alive, Working, Leaving
<1>3. AddressesHeld /\ KeysHeld /\ KeysLeft
  BY <1>2 DEF AddressesHeld, KeysHeld, KeysLeft
<1>4. WordsLeft /\ EntriesFound /\ ObjectsKept
  BY <1>2 DEF WordsLeft, EntriesFound, ObjectsKept, Kept
<1>5. QED
  BY <1>1, <1>3, <1>4 DEF LifeIndInv

\* Every step preserves the invariant.
LEMMA LifeStepInd == LifeIndInv /\ [LifeNext]_deviceLifeVars => LifeIndInv'
<1> SUFFICES ASSUME LifeIndInv, [LifeNext]_deviceLifeVars PROVE LifeIndInv'
  OBVIOUS
<1>1. CASE LifeNext
  BY <1>1, DriverCreateInd, FindDeviceInd, InsertDeviceInd, StopFinalizerInd,
     DriverDestroyInd, EraseDeviceInd, ReturnInd DEF LifeNext
<1>2. CASE UNCHANGED deviceLifeVars
  BY <1>2
     DEF deviceLifeVars, LifeIndInv, LifeTypeOK, AddressesHeld, KeysHeld,
         KeysLeft, WordsLeft, EntriesFound, ObjectsKept, Alive, Working,
         Leaving, Kept
<1>3. QED
  BY <1>1, <1>2

\* The invariant holds in every state.
LEMMA LifeInductive == LifeSpec => []LifeIndInv
BY LifeInitInd, LifeStepInd, PTL DEF LifeSpec

\* DevicesFound is a part of what the invariant says.
LEMMA FoundByInvariant == LifeIndInv => DevicesFound
<1> SUFFICES ASSUME LifeIndInv, ~raced PROVE DevicesFound
  BY DEF DevicesFound
<1>1. ASSUME NEW a \in Addresses, own[a] # NoId
      PROVE  get_device(a) = own[a]
  <2>1. word[a] \in Keys
    BY <1>1 DEF LifeIndInv, LifeTypeOK, KeysHeld, Alive
  <2>2. QED
    BY <1>1, <2>1, DeviceNamesAssumption
       DEF LifeIndInv, EntriesFound, get_device
<1>2. ASSUME NEW t \in DeviceThreads, dev_pc[t] \in {"stop", "destroy"}
      PROVE  dev[t] \in objects
  BY <1>2 DEF LifeIndInv, ObjectsKept, EntriesFound, Kept, Working
<1>3. finalizers \subseteq objects
  BY DeviceNamesAssumption
     DEF LifeIndInv, LifeTypeOK, ObjectsKept, Kept, Working
<1>4. QED
  BY <1>1, <1>2, <1>3 DEF DevicesFound

\* Threads, addresses, keys and the map of devices are what they should be
\* (vkCreateDevice and vkDestroyDevice of layer.cpp).
THEOREM LifeTypeCorrect == LifeSpec => []LifeTypeOK
<1>1. LifeIndInv => LifeTypeOK
  BY DEF LifeIndInv
<1>2. QED
  BY <1>1, LifeInductive, PTL

\* Unless the memory of a device was used again before DestroyDevice had read
\* it for the last time, a device that the application has is found by its
\* first word, DestroyDevice works on an object that exists, and a finalizer
\* thread runs only for an object that exists (CreateDevice, get_device,
\* DestroyDevice).
THEOREM DevicesAreFound == LifeSpec => []DevicesFound
BY FoundByInvariant, LifeInductive, PTL

-------------------------------------------------------------------------------
(***************************************************************************)
(* Samplers.                                                               *)
(***************************************************************************)

\* The types of what is kept of samplers.
SamplersTypeOK ==
    /\ smp_pc \in [SamplerThreads -> {"idle", "track", "look", "make", "store",
                                      "destroy", "patch"}]
    /\ sampler \in [SamplerThreads -> SamplerHandles \cup {NoSampler}]
    /\ fallback \in [SamplerThreads -> SamplerHandles \cup {NoSampler}]
    /\ samplers \in SUBSET SamplerHandles
    /\ conversions \in SUBSET SamplerHandles
    /\ fallbacks \in SUBSET SamplerHandles
    /\ ycbcrSamplers \in SUBSET SamplerHandles
    /\ fallbackSampler \in SamplerHandles \cup {NoSampler}
    /\ available \in SUBSET SamplerHandles
    /\ layouts \in SUBSET [asked : SamplerHandles, got : SamplerHandles]
    /\ open \in BOOLEAN
    /\ refused \in BOOLEAN

\* Threads inside CreateSampler, inside DestroySampler, about to create a
\* fallback, and with a new fallback in their hands.
Creating ==
    {t \in SamplerThreads : smp_pc[t] \in {"track", "look", "make", "store"}}
Destroying == {t \in SamplerThreads : smp_pc[t] = "destroy"}
Making == {t \in SamplerThreads : smp_pc[t] = "make"}
Storing == {t \in SamplerThreads : smp_pc[t] = "store"}

\* A sampler is a fallback, or one the application has, or one that a single
\* thread creates or destroys.
Owners ==
    /\ samplers = UNION {fallbacks, available,
                         {sampler[t] : t \in Creating \cup Destroying}}
    /\ fallbacks \cap available = {}
    /\ \A t \in Creating \cup Destroying : sampler[t] \notin fallbacks \cup available
    /\ \A t, u \in Creating \cup Destroying : sampler[t] = sampler[u] => t = u
    /\ ~open => available = {} /\ Creating \cup Destroying = {}

\* The set of samplers with a conversion holds those that are the
\* application's, and no other than such.
Tracked ==
    /\ conversions \subseteq samplers \ fallbacks
    /\ ycbcrSamplers \subseteq conversions
    /\ available \cap conversions \subseteq ycbcrSamplers
    /\ \A t \in Creating : sampler[t] \in conversions
    /\ \A t \in Creating : smp_pc[t] # "track" => sampler[t] \in ycbcrSamplers
    /\ \A t \in Destroying : sampler[t] \notin ycbcrSamplers

\* There is a fallback once the application has a sampler with a conversion,
\* unless the driver refused one.
Served ==
    /\ fallbackSampler # NoSampler => fallbackSampler \in fallbacks
    /\ \A t \in Storing : fallback[t] \in fallbacks
    /\ available \cap conversions # {} => fallbackSampler # NoSampler \/ refused

\* A thread that patches a layout has a fallback if it needs one.
Patching ==
    \A t \in SamplerThreads : smp_pc[t] = "patch" =>
        /\ open
        /\ sampler[t] \in available
        /\ fallback[t] # NoSampler => fallback[t] \in fallbacks
        /\ sampler[t] \in conversions => fallback[t] # NoSampler \/ refused

\* FallbackServes in the terms of these proofs: what a layout holds.
LayoutsServed ==
    \A l \in layouts :
        /\ l.asked \in available
        /\ IF l.asked \in conversions
           THEN l.got \in fallbacks \/ (refused /\ l.got = l.asked)
           ELSE l.got = l.asked

\* Every fallback is accounted for by a thread, and one thread is left over
\* once the device is closed.
Counted ==
    /\ IsFiniteSet(fallbacks)
    /\ Cardinality(fallbacks) + Cardinality(Making) <= Cardinality(SamplerThreads)
    /\ open /\ fallbackSampler = NoSampler =>
         Cardinality(fallbacks) <= Cardinality(Storing)
    /\ ~open => Cardinality(fallbacks) < Cardinality(SamplerThreads)

\* The inductive invariant.
SamplersIndInv ==
    /\ SamplersTypeOK
    /\ Owners
    /\ Tracked
    /\ Served
    /\ Patching
    /\ LayoutsServed
    /\ Counted

\* Sets of threads are finite, and disjoint ones fit beside each other.
LEMMA SubsetCount ==
  ASSUME NEW S \in SUBSET SamplerThreads
  PROVE  IsFiniteSet(S) /\ Cardinality(S) \in Nat
BY SamplerThreadsAssumption, FS_Subset, FS_CardinalityType

\* Disjoint sets of threads fit beside each other.
LEMMA DisjointCount ==
  ASSUME NEW S, NEW T, S \cup T \subseteq SamplerThreads, S \cap T = {}
  PROVE  Cardinality(S) + Cardinality(T) <= Cardinality(SamplerThreads)
<1>1. IsFiniteSet(S) /\ IsFiniteSet(T) /\ Cardinality(S) \in Nat /\ Cardinality(T) \in Nat
  BY SubsetCount
<1>2. Cardinality(S \cup T) = Cardinality(S) + Cardinality(T)
  <2>1. Cardinality(S \cap T) = 0
    BY FS_EmptySet
  <2>2. Cardinality(S \cup T) = Cardinality(S) + Cardinality(T) - Cardinality(S \cap T)
    BY <1>1, FS_Union
  <2>3. QED
    BY <1>1, <2>1, <2>2
<1>3. Cardinality(S \cup T) <= Cardinality(SamplerThreads)
  BY SamplerThreadsAssumption, FS_Subset
<1>4. QED
  BY <1>2, <1>3

\* A step that leaves the fallbacks and those who make them alone.
LEMMA CountStays ==
  ASSUME Counted, UNCHANGED <<fallbacks, fallbackSampler, open>>,
         Making' = Making, Storing' = Storing
  PROVE  Counted'
BY DEF Counted

-------------------------------------------------------------------------------
(***************************************************************************)
(* One lemma per action.                                                   *)
(***************************************************************************)

\* The new sampler is in the hands of this thread.
LEMMA CreateSamplerInd ==
  ASSUME NEW t \in SamplerThreads, NEW s \in SamplerHandles, NEW y \in BOOLEAN,
         SamplersIndInv, CreateSampler(t, s, y)
  PROVE  SamplersIndInv'
<1> USE DEF SamplersIndInv, CreateSampler, At
<1>1. SamplersTypeOK'
  BY DEF SamplersTypeOK
<1>2. Owners'
  BY DEF SamplersTypeOK, Owners, Creating, Destroying
<1>3. Tracked'
  BY DEF SamplersTypeOK, Tracked, Creating, Destroying, Owners
<1>4. Served'
  BY DEF Served, Storing, Owners, Tracked
<1>5. Patching'
  BY DEF Patching, Owners
<1>6. LayoutsServed'
  BY DEF LayoutsServed, Owners
<1>7. Counted'
  <2>1. Making' = Making /\ Storing' = Storing
    BY DEF SamplersTypeOK, Making, Storing
  <2>2. QED
    BY <2>1, CountStays
<1>8. QED
  BY <1>1, <1>2, <1>3, <1>4, <1>5, <1>6, <1>7

\* It is entered before the application has it.
LEMMA TrackYcbcrInd ==
  ASSUME NEW t \in SamplerThreads, SamplersIndInv, TrackYcbcr(t)
  PROVE  SamplersIndInv'
<1> USE DEF SamplersIndInv, TrackYcbcr, At
<1>1. SamplersTypeOK'
  BY DEF SamplersTypeOK, Tracked, Creating
<1>2. Owners'
  BY DEF Owners, Creating, Destroying
<1>3. Tracked'
  BY DEF Tracked, Creating, Destroying, Owners
<1>4. Served'
  BY DEF Served, Storing
<1>5. Patching'
  BY DEF Patching
<1>6. Counted'
  <2>1. Making' = Making /\ Storing' = Storing
    BY DEF SamplersTypeOK, Making, Storing
  <2>2. QED
    BY <2>1, CountStays
<1>7. LayoutsServed'
  BY DEF LayoutsServed
<1>8. QED
  BY <1>1, <1>2, <1>3, <1>4, <1>5, <1>6, <1>7

\* A thread that finds no fallback may make one: with every fallback in the
\* hands of another thread there is room for one more.
LEMMA LookForFallbackInd ==
  ASSUME NEW t \in SamplerThreads, SamplersIndInv, LookForFallback(t)
  PROVE  SamplersIndInv'
<1> USE DEF SamplersIndInv, LookForFallback, At, Returned
<1>1. SamplersTypeOK'
  BY DEF SamplersTypeOK, Tracked, Creating
<1>2. Owners'
  BY DEF SamplersTypeOK, Owners, Creating, Destroying
<1>3. Tracked'
  BY DEF SamplersTypeOK, Tracked, Creating, Destroying
<1>4. Served'
  BY DEF SamplersTypeOK, Served, Storing
<1>5. Patching'
  BY DEF SamplersTypeOK, Patching
<1>6. LayoutsServed'
  BY DEF LayoutsServed
<1>7. Counted'
  <2>1. CASE fallbackSampler # NoSampler
    <3>1. Making' = Making /\ Storing' = Storing
      BY <2>1 DEF SamplersTypeOK, Making, Storing
    <3>2. QED
      BY <3>1, CountStays
  <2>2. CASE fallbackSampler = NoSampler
    <3>1. /\ smp_pc[t] = "look" /\ open /\ fallbacks' = fallbacks
          /\ Making' = Making \cup {t} /\ Storing' = Storing
      BY <2>2 DEF SamplersTypeOK, Making, Storing
    <3>2. /\ Making' \cup Storing \subseteq SamplerThreads
          /\ Making' \cap Storing = {}
      BY <3>1 DEF Making, Storing
    <3>3. Cardinality(fallbacks) <= Cardinality(Storing)
      BY <2>2, <3>1 DEF Counted
    <3>4. Cardinality(Making') + Cardinality(Storing) <= Cardinality(SamplerThreads)
      BY <3>2, DisjointCount
    <3>5. /\ Cardinality(fallbacks) \in Nat /\ Cardinality(Storing) \in Nat
          /\ Cardinality(Making') \in Nat /\ Cardinality(SamplerThreads) \in Nat
      BY <3>2, SubsetCount, SamplerThreadsAssumption, FS_CardinalityType
         DEF Counted
    <3>6. Cardinality(fallbacks') + Cardinality(Making') <= Cardinality(SamplerThreads)
      BY <3>1, <3>3, <3>4, <3>5
    <3>7. QED
      BY <3>1, <3>6 DEF Counted
  <2>3. QED
    BY <2>1, <2>2
<1>8. QED
  BY <1>1, <1>2, <1>3, <1>4, <1>5, <1>6, <1>7

\* One fallback more and one thread fewer to make one.
LEMMA MakeFallbackInd ==
  ASSUME NEW t \in SamplerThreads, SamplersIndInv, MakeFallback(t)
  PROVE  SamplersIndInv'
<1> USE DEF SamplersIndInv, MakeFallback, At, Returned
<1>1. SamplersTypeOK'
  <2>1. /\ smp_pc \in [SamplerThreads -> {"idle", "track", "look", "make",
                                           "store", "destroy", "patch"}]
        /\ fallback \in [SamplerThreads -> SamplerHandles \cup {NoSampler}]
        /\ sampler[t] \in SamplerHandles
    BY DEF SamplersTypeOK, Tracked, Creating
  <2>2. smp_pc' \in [SamplerThreads -> {"idle", "track", "look", "make",
                                         "store", "destroy", "patch"}]
    BY <2>1
  <2>3. fallback' \in [SamplerThreads -> SamplerHandles \cup {NoSampler}]
    BY <2>1
  <2>4. QED
    BY <2>1, <2>2, <2>3 DEF SamplersTypeOK
<1>2. Owners'
  BY DEF SamplersTypeOK, Owners, Creating, Destroying
<1>3. Tracked'
  BY DEF SamplersTypeOK, Tracked, Creating, Destroying
<1>4. Served'
  BY DEF SamplersTypeOK, Served, Storing
<1>5. Patching'
  BY DEF SamplersTypeOK, Patching
<1>6. LayoutsServed'
  BY DEF LayoutsServed
<1>7. Counted'
  <2>1. /\ smp_pc[t] = "make" /\ open /\ t \in Making
        /\ Making' = Making \ {t} /\ fallbackSampler' = fallbackSampler
        /\ open' = open
    BY DEF SamplersTypeOK, Making
  <2>2. /\ Cardinality(Making') = Cardinality(Making) - 1
        /\ Cardinality(Making) \in Nat /\ Cardinality(Making') \in Nat
        /\ Cardinality(SamplerThreads) \in Nat
    <3>1. IsFiniteSet(Making)
      BY SubsetCount DEF Making
    <3>2. QED
      BY <3>1, <2>1, FS_RemoveElement, FS_CardinalityType,
         SamplerThreadsAssumption
  <2>3. CASE UNCHANGED <<samplers, fallbacks, fallback>> /\ smp_pc'[t] = "idle"
    <3>1. Storing' = Storing
      BY <2>1, <2>3 DEF SamplersTypeOK, Storing
    <3>2. Cardinality(fallbacks') + Cardinality(Making') <= Cardinality(SamplerThreads)
      BY <2>2, <2>3, FS_CardinalityType DEF Counted
    <3>3. QED
      BY <2>1, <2>3, <3>1, <3>2 DEF Counted
  <2>4. ASSUME NEW f \in SamplerHandles \ samplers, fallbacks' = fallbacks \cup {f},
               fallback' = [fallback EXCEPT ![t] = f], smp_pc'[t] = "store"
        PROVE  Counted'
    <3>1. f \notin fallbacks /\ IsFiniteSet(fallbacks)
      BY DEF Owners, Counted
    <3>2. /\ IsFiniteSet(fallbacks') /\ Cardinality(fallbacks') = Cardinality(fallbacks) + 1
          /\ Cardinality(fallbacks) \in Nat
      BY <2>4, <3>1, FS_AddElement, FS_CardinalityType
    <3>3. Cardinality(fallbacks') + Cardinality(Making') <= Cardinality(SamplerThreads)
      BY <2>2, <3>2 DEF Counted
    <3>4. Storing' = Storing \cup {t} /\ t \notin Storing
      <4>1. /\ smp_pc' = [smp_pc EXCEPT ![t] = "store"]
            /\ smp_pc \in [SamplerThreads -> {"idle", "track", "look", "make",
                                             "store", "destroy", "patch"}]
        BY <2>4 DEF SamplersTypeOK
      <4> HIDE DEF MakeFallback, SamplersIndInv
      <4>2. QED
        BY <2>1, <2>4, <4>1 DEF Storing
    <3>5. /\ Cardinality(Storing') = Cardinality(Storing) + 1
          /\ Cardinality(Storing) \in Nat
      <4>1. IsFiniteSet(Storing)
        BY SubsetCount DEF Storing
      <4>2. QED
        BY <3>4, <4>1, FS_AddElement, FS_CardinalityType
    <3>6. QED
      BY <2>1, <2>4, <3>2, <3>3, <3>5 DEF Counted
  <2>5. QED
    BY <2>3, <2>4 DEF SamplersTypeOK
<1>8. QED
  BY <1>1, <1>2, <1>3, <1>4, <1>5, <1>6, <1>7

\* The last one stored is the one that is used.
LEMMA StoreFallbackInd ==
  ASSUME NEW t \in SamplerThreads, SamplersIndInv, StoreFallback(t)
  PROVE  SamplersIndInv'
<1> USE DEF SamplersIndInv, StoreFallback, At, Returned
<1>1. SamplersTypeOK'
  BY DEF SamplersTypeOK, Tracked, Creating
<1>2. Owners'
  BY DEF SamplersTypeOK, Owners, Creating, Destroying
<1>3. Tracked'
  BY DEF Tracked, Creating, Destroying
<1>4. Served'
  BY SamplerNamesAssumption DEF SamplersTypeOK, Served, Storing
<1>5. Patching'
  BY DEF Patching
<1>6. LayoutsServed'
  BY DEF LayoutsServed
<1>7. Counted'
  <2>1. Making' = Making /\ fallbackSampler' # NoSampler /\ open
    BY SamplerNamesAssumption DEF SamplersTypeOK, Making, Served, Storing
  <2>2. QED
    BY <2>1 DEF Counted
<1>8. QED
  BY <1>1, <1>2, <1>3, <1>4, <1>5, <1>6, <1>7

\* A sampler that no layout uses leaves the set.
LEMMA UntrackInd ==
  ASSUME NEW t \in SamplerThreads, NEW s \in SamplerHandles,
         SamplersIndInv, Untrack(t, s)
  PROVE  SamplersIndInv'
<1> USE DEF SamplersIndInv, Untrack, At
<1>1. SamplersTypeOK'
  BY DEF SamplersTypeOK
<1>2. Owners'
  BY DEF SamplersTypeOK, Owners, Creating, Destroying
<1>3. Tracked'
  BY DEF SamplersTypeOK, Tracked, Creating, Destroying, Owners
<1>4. Served'
  BY DEF Served, Storing
<1>5. Patching'
  BY DEF Patching
<1>6. LayoutsServed'
  BY DEF LayoutsServed
<1>7. Counted'
  <2>1. Making' = Making /\ Storing' = Storing
    BY DEF SamplersTypeOK, Making, Storing
  <2>2. QED
    BY <2>1, CountStays
<1>8. QED
  BY <1>1, <1>2, <1>3, <1>4, <1>5, <1>6, <1>7

\* By now the handle is in no set of the layer.
LEMMA DriverDestroySamplerInd ==
  ASSUME NEW t \in SamplerThreads, SamplersIndInv, DriverDestroySampler(t)
  PROVE  SamplersIndInv'
<1> USE DEF SamplersIndInv, DriverDestroySampler, At
<1>1. SamplersTypeOK'
  BY DEF SamplersTypeOK
<1>2. Owners'
  BY DEF SamplersTypeOK, Owners, Creating, Destroying
<1>3. Tracked'
  <2>1. t \in Destroying /\ Creating' = Creating /\ Destroying' \subseteq Destroying
    BY DEF SamplersTypeOK, Destroying, Creating
  <2>2. sampler[t] \notin available /\ sampler[t] \notin fallbacks
    BY <2>1 DEF Owners
  <2>3. sampler[t] \notin ycbcrSamplers
    BY <2>1 DEF Tracked
  <2>4. \A u \in Creating : sampler[u] # sampler[t] /\ smp_pc'[u] = smp_pc[u]
    BY <2>1 DEF Owners, Creating, Destroying, SamplersTypeOK
  <2>5. QED
    BY <2>1, <2>2, <2>3, <2>4 DEF Tracked
<1>4. Served'
  BY DEF Served, Storing
<1>5. Patching'
  BY DEF Patching
<1>6. LayoutsServed'
  BY DEF LayoutsServed, Tracked, Destroying
<1>7. Counted'
  <2>1. Making' = Making /\ Storing' = Storing
    BY DEF SamplersTypeOK, Making, Storing
  <2>2. QED
    BY <2>1, CountStays
<1>8. QED
  BY <1>1, <1>2, <1>3, <1>4, <1>5, <1>6, <1>7

\* What is read serves: a fallback was stored, or refused, before the
\* application got a sampler with a conversion.
LEMMA ReadFallbackInd ==
  ASSUME NEW t \in SamplerThreads, NEW s \in SamplerHandles,
         SamplersIndInv, ReadFallback(t, s)
  PROVE  SamplersIndInv'
<1> USE DEF SamplersIndInv, ReadFallback, At
<1>1. SamplersTypeOK'
  BY DEF SamplersTypeOK
<1>2. Owners'
  BY DEF Owners, Creating, Destroying
<1>3. Tracked'
  BY DEF Tracked, Creating, Destroying
<1>4. Served'
  BY DEF Served, Storing
<1>5. Patching'
  BY DEF SamplersTypeOK, Patching, Served
<1>6. Counted'
  <2>1. Making' = Making /\ Storing' = Storing
    BY DEF SamplersTypeOK, Making, Storing
  <2>2. QED
    BY <2>1, CountStays
<1>7. LayoutsServed'
  BY DEF LayoutsServed
<1>8. QED
  BY <1>1, <1>2, <1>3, <1>4, <1>5, <1>6, <1>7

\* The fallback that was read is still there.
LEMMA PatchLayoutInd ==
  ASSUME NEW t \in SamplerThreads, SamplersIndInv, PatchLayout(t)
  PROVE  SamplersIndInv'
<1> USE DEF SamplersIndInv, PatchLayout, At
<1>1. SamplersTypeOK'
  BY DEF SamplersTypeOK, Patching
<1>2. Owners'
  BY DEF Owners, Creating, Destroying
<1>3. Tracked'
  BY DEF Tracked, Creating, Destroying
<1>4. Served'
  BY DEF Served, Storing
<1>5. Patching'
  BY DEF Patching
<1>6. LayoutsServed'
  BY DEF LayoutsServed, Tracked, Patching
<1>7. Counted'
  <2>1. Making' = Making /\ Storing' = Storing
    BY DEF SamplersTypeOK, Making, Storing
  <2>2. QED
    BY <2>1, CountStays
<1>8. QED
  BY <1>1, <1>2, <1>3, <1>4, <1>5, <1>6, <1>7

\* One layout fewer.
LEMMA DestroyLayoutInd ==
  ASSUME NEW l \in layouts, SamplersIndInv, DestroyLayout(l)
  PROVE  SamplersIndInv'
<1> USE DEF SamplersIndInv, DestroyLayout
<1>1. SamplersTypeOK'
  BY DEF SamplersTypeOK
<1>2. LayoutsServed'
  BY DEF LayoutsServed
<1>3. Owners' /\ Tracked' /\ Served' /\ Patching' /\ Counted'
  BY DEF Owners, Creating, Destroying, Tracked, Served, Storing, Patching,
         Counted, Making
<1>4. QED
  BY <1>1, <1>2, <1>3

\* The fallback that was stored is destroyed, the others remain: one fewer
\* than threads, for no thread is inside a call.
LEMMA DestroyYcbcrFallbackSamplerInd ==
  ASSUME SamplersIndInv, DestroyYcbcrFallbackSampler
  PROVE  SamplersIndInv'
<1> USE DEF SamplersIndInv, DestroyYcbcrFallbackSampler
<1>1. SamplersTypeOK'
  BY DEF SamplersTypeOK
<1>2. Owners'
  BY DEF Owners, Creating, Destroying
<1>3. Tracked'
  BY DEF Tracked, Creating, Destroying, Owners
<1>4. Served'
  BY DEF Served, Storing
<1>5. Patching'
  BY DEF Patching
<1>6. LayoutsServed'
  BY DEF LayoutsServed
<1>7. Counted'
  <2>1. Making = {} /\ Making' = {} /\ Storing = {}
    BY DEF Making, Storing
  <2>2. /\ IsFiniteSet(fallbacks) /\ Cardinality(fallbacks) \in Nat
        /\ Cardinality(fallbacks) <= Cardinality(SamplerThreads)
        /\ Cardinality(SamplerThreads) \in Nat
    BY <2>1, FS_EmptySet, FS_CardinalityType, SamplerThreadsAssumption
       DEF Counted
  <2>3. CASE fallbackSampler = NoSampler
    <3>1. fallbacks = {} /\ fallbacks' = {}
      <4>1. Cardinality(fallbacks) <= 0
        BY <2>1, <2>3, FS_EmptySet DEF Counted
      <4>2. fallbacks = {}
        BY <2>2, <4>1, FS_EmptySet
      <4>3. QED
        BY <4>2
    <3>2. Cardinality(SamplerThreads) # 0
      BY SamplerThreadsAssumption, FS_EmptySet
    <3>3. QED
      BY <2>1, <2>2, <3>1, <3>2, FS_EmptySet DEF Counted
  <2>4. CASE fallbackSampler # NoSampler
    <3>1. fallbackSampler \in fallbacks
      BY <2>4 DEF Served
    <3>2. IsFiniteSet(fallbacks') /\ Cardinality(fallbacks') = Cardinality(fallbacks) - 1
      BY <2>2, <3>1, FS_RemoveElement
    <3>3. QED
      BY <2>1, <2>2, <3>2, FS_EmptySet DEF Counted
  <2>5. QED
    BY <2>3, <2>4
<1>8. QED
  BY <1>1, <1>2, <1>3, <1>4, <1>5, <1>6, <1>7

-------------------------------------------------------------------------------
(***************************************************************************)
(* The invariant and the theorems.                                         *)
(***************************************************************************)

\* There is no sampler.
LEMMA SamplersInitInd == SamplersInit => SamplersIndInv
<1> SUFFICES ASSUME SamplersInit PROVE SamplersIndInv
  OBVIOUS
<1> USE DEF SamplersInit
<1>1. SamplersTypeOK
  BY DEF SamplersTypeOK
<1>2. Creating = {} /\ Destroying = {} /\ Making = {} /\ Storing = {}
  BY DEF Creating, Destroying, Making, Storing
<1>3. Owners /\ Tracked /\ Served /\ Patching /\ LayoutsServed
  BY <1>2 DEF Owners, Tracked, Served, Patching, LayoutsServed
<1>4. Counted
  BY <1>2, FS_EmptySet, FS_CardinalityType, SamplerThreadsAssumption
     DEF Counted
<1>5. QED
  BY <1>1, <1>3, <1>4 DEF SamplersIndInv

\* Every step preserves the invariant.
LEMMA SamplersStepInd == SamplersIndInv /\ [SamplersNext]_samplerVars => SamplersIndInv'
<1> SUFFICES ASSUME SamplersIndInv, [SamplersNext]_samplerVars PROVE SamplersIndInv'
  OBVIOUS
<1>1. CASE SamplersNext
  BY <1>1, CreateSamplerInd, UntrackInd, ReadFallbackInd, TrackYcbcrInd,
     LookForFallbackInd, MakeFallbackInd, StoreFallbackInd,
     DriverDestroySamplerInd, PatchLayoutInd, DestroyLayoutInd,
     DestroyYcbcrFallbackSamplerInd DEF SamplersNext
<1>2. CASE UNCHANGED samplerVars
  BY <1>2
     DEF samplerVars, SamplersIndInv, SamplersTypeOK, Owners, Tracked, Served,
         Patching, LayoutsServed, Counted, Creating, Destroying, Making,
         Storing
<1>3. QED
  BY <1>1, <1>2

\* The invariant holds in every state.
LEMMA SamplersInductive == SamplersSpec => []SamplersIndInv
BY SamplersInitInd, SamplersStepInd, PTL DEF SamplersSpec

\* FallbackServes is a part of what the invariant says.
LEMMA ServesByInvariant == SamplersIndInv => FallbackServes
<1> SUFFICES ASSUME SamplersIndInv PROVE FallbackServes
  OBVIOUS
<1>1. ASSUME NEW l \in layouts
      PROVE  /\ l.got \in samplers
             /\ IF l.asked \in conversions
                THEN l.got \in fallbacks \/ (refused /\ l.got = l.asked)
                ELSE l.got = l.asked
  BY DEF SamplersIndInv, LayoutsServed, Owners
<1>2. /\ Cardinality(fallbacks) \in Nat /\ Cardinality(Making) \in Nat
      /\ Cardinality(SamplerThreads) \in Nat
  BY SubsetCount, FS_CardinalityType, SamplerThreadsAssumption
     DEF SamplersIndInv, Counted, Making
<1>3. Cardinality(fallbacks) <= Cardinality(SamplerThreads)
  BY <1>2 DEF SamplersIndInv, Counted
<1>4. ~open => samplers = fallbacks
  BY DEF SamplersIndInv, Owners
<1>5. ~open => Cardinality(samplers) < Cardinality(SamplerThreads)
  BY <1>4 DEF SamplersIndInv, Counted
<1>6. QED
  BY <1>1, <1>3, <1>4, <1>5 DEF FallbackServes

\* Threads, samplers and layouts are what they should be (samplers.cpp).
THEOREM SamplersTypeCorrect == SamplersSpec => []SamplersTypeOK
<1>1. SamplersIndInv => SamplersTypeOK
  BY DEF SamplersIndInv
<1>2. QED
  BY <1>1, SamplersInductive, PTL

\* A set layout that asked for a sampler with a conversion has got a fallback
\* that exists, or the sampler itself if the driver refused a fallback; no
\* more fallbacks exist than threads, and when the device is destroyed
\* nothing but fewer fallbacks than threads is left (CreateSampler,
\* GetYcbcrFallbackSampler, PatchYCbCrSamplerBindings,
\* DestroyYcbcrFallbackSampler).
THEOREM FallbackAlwaysServes == SamplersSpec => []FallbackServes
BY ServesByInvariant, SamplersInductive, PTL

-------------------------------------------------------------------------------
(***************************************************************************)
(* Device setup.                                                           *)
(***************************************************************************)

LOCAL INSTANCE SequencesExt

\* The types of what is kept while devices are set up.
SetupTypeOK ==
    /\ env \in Environments
    /\ handles \subseteq ToSet(env.devices)
    /\ cached \in ToSet(env.devices) \cup {None}
    /\ cached # None => deviceExtensionsMap = cached.extensions
    /\ wish \in Compositions \cup {None}
    /\ used \in BOOLEAN

\* The structures are as the application has filled them.
Composed ==
    wish # None /\ ~used =>
        /\ chain = wish.chain
        /\ on = [s \in Structs |-> IF s \in DOMAIN wish.on THEN wish.on[s] ELSE {}]

\* The inductive invariant.
SetupIndInv ==
    /\ SetupTypeOK
    /\ Composed
    /\ OnlySupported
    /\ WishesKept

-------------------------------------------------------------------------------
(***************************************************************************)
(* What the operators of the model return.                                 *)
(***************************************************************************)

\* The spoofed fields, one structure at a time.
LEMMA SpoofedFacts ==
    /\ Spoofed("f2") = CoreFeatures
    /\ Spoofed("v12") = {"descriptorIndexing"}
    /\ Spoofed("v13") = {"dynamicRendering"}
    /\ Spoofed("rob2") = {"nullDescriptor"}
    /\ Spoofed("rob") = {} /\ Spoofed("fault") = {} /\ Spoofed("idx") = {}
BY DEF Spoofed

\* What the layer switches on, one structure at a time.
LEMMA ForcedFacts ==
  ASSUME NEW pd
  PROVE  /\ Forced(pd, "f2") = ForcedCore(pd)
         /\ Forced(pd, "fault") = If("deviceFault" \in pd.features, {"deviceFault"})
         /\ Forced(pd, "v13") = If(needsImageRobustness(pd), {"robustImageAccess"})
         /\ Forced(pd, "rob") = If(needsImageRobustness(pd) /\ ~Contains(chain, "v13"),
                                   {"robustImageAccess"})
         /\ Forced(pd, "v12") = {} /\ Forced(pd, "rob2") = {} /\ Forced(pd, "idx") = {}
BY DEF Forced

\* The structures in a chain are those that have contents.
LEMMA ContainsFacts ==
  ASSUME NEW c \in Compositions, NEW s
  PROVE  Contains(c.chain, s) <=> s \in DOMAIN c.on
<1>1. c.chain \in Seq(Structs) /\ DOMAIN c.on = ToSet(c.chain)
  BY SetupAssumption
<1>2. DOMAIN c.chain = 1 .. Len(c.chain)
  BY <1>1
<1>3. QED
  BY <1>1, <1>2 DEF Contains, ToSet

\* Which structures the layer adds in front, and what they hold.
LEMMA LayerFacts ==
  ASSUME NEW pd
  PROVE  /\ DOMAIN layerFeatures(pd) \subseteq {"fault", "rob", "idx"}
         /\ "fault" \in DOMAIN layerFeatures(pd) <=>
              "deviceFault" \in pd.features /\ ~Contains(chain, "fault")
         /\ "rob" \in DOMAIN layerFeatures(pd) <=>
              /\ needsImageRobustness(pd)
              /\ ~Contains(chain, "v13") /\ ~Contains(chain, "rob")
         /\ "idx" \in DOMAIN layerFeatures(pd) <=> aliasDescriptorIndexing(pd)
         /\ "fault" \in DOMAIN layerFeatures(pd) =>
              layerFeatures(pd)["fault"] = {"deviceFault"}
         /\ "rob" \in DOMAIN layerFeatures(pd) =>
              layerFeatures(pd)["rob"] = {"robustImageAccess"}
BY DEF layerFeatures, If

\* What the driver is asked for the first time.
LEMMA FirstRequest ==
  ASSUME SetupIndInv, NEW pd \in handles, CreateDevice(pd), ~used
  PROVE  /\ wish \in Compositions /\ pd \in ToSet(env.devices) /\ env \in Environments
         /\ chain = wish.chain /\ env' = env /\ wish' = wish
         /\ request' # None => /\ request'.pd = pd /\ request'.known = cached
                               /\ request'.actual = actualExtensions(pd)
                               /\ request'.extensions = enabledExtensions(pd)
                               /\ request'.core = mutableCoreFeatures(pd)
         /\ DOMAIN request'.next = {s \in DOMAIN wish.on : ~Detached(s)}
                                      \cup DOMAIN layerFeatures(pd)
         /\ \A s \in DOMAIN layerFeatures(pd) : request'.next[s] = layerFeatures(pd)[s]
         /\ \A s \in DOMAIN wish.on :
              ~Detached(s) /\ s \notin DOMAIN layerFeatures(pd) =>
                request'.next[s] = mask_next_features(pd, s, wish.on[s] \cup Forced(pd, s))
<1>1. wish \in Compositions /\ pd \in ToSet(env.devices) /\ env \in Environments
  BY DEF SetupIndInv, SetupTypeOK, CreateDevice, Allowed
<1>2. /\ chain = wish.chain
      /\ on = [s \in Structs |-> IF s \in DOMAIN wish.on THEN wish.on[s] ELSE {}]
  BY DEF SetupIndInv, Composed, CreateDevice, Allowed
<1>3. DOMAIN wish.on = ToSet(chain) /\ ToSet(chain) \subseteq Structs
  <2>1. wish.chain \in Seq(Structs) /\ DOMAIN wish.on = ToSet(wish.chain)
    BY <1>1, SetupAssumption
  <2>2. \A i \in DOMAIN wish.chain : wish.chain[i] \in Structs
    BY <2>1
  <2>3. QED
    BY <1>2, <2>1, <2>2 DEF ToSet
<1>4. \A s \in DOMAIN wish.on : on[s] = wish.on[s]
  BY <1>2, <1>3
<1> DEFINE linked == {s \in ToSet(chain) : ~Detached(s)}
           masked == [s \in Structs |->
                        IF s \notin ToSet(chain) THEN on[s]
                        ELSE IF s \in linked
                        THEN mask_next_features(pd, s, on[s] \cup Forced(pd, s))
                        ELSE on[s] \cup Forced(pd, s)]
           layer == layerFeatures(pd)
<1>5. /\ request' = [pd |-> pd, first |-> ~used,
                     known |-> cached, actual |-> actualExtensions(pd),
                     extensions |-> enabledExtensions(pd),
                     core |-> mutableCoreFeatures(pd),
                     next |-> [s \in linked \cup DOMAIN layer |->
                                 IF s \in DOMAIN layer THEN layer[s] ELSE masked[s]]]
      /\ env' = env /\ wish' = wish
  BY DEF CreateDevice
<1>6. /\ request'.pd = pd /\ request'.known = cached
      /\ request'.actual = actualExtensions(pd)
      /\ request'.extensions = enabledExtensions(pd)
      /\ request'.core = mutableCoreFeatures(pd)
      /\ request'.next = [s \in linked \cup DOMAIN layer |->
                            IF s \in DOMAIN layer THEN layer[s] ELSE masked[s]]
  BY <1>5
<1>7. \A s \in DOMAIN wish.on : ~Detached(s) =>
        s \in linked /\ masked[s] = mask_next_features(pd, s, wish.on[s] \cup Forced(pd, s))
  BY <1>3, <1>4
<1> HIDE DEF linked, masked, layer
<1>8. DOMAIN request'.next = linked \cup DOMAIN layer
  BY <1>6
<1>9. \A s \in DOMAIN layer : request'.next[s] = layer[s]
  BY <1>6
<1>10. \A s \in linked \ DOMAIN layer : request'.next[s] = masked[s]
  BY <1>6
<1>11. linked = {s \in DOMAIN wish.on : ~Detached(s)}
  BY <1>3 DEF linked
<1>12. QED
  BY <1>1, <1>2, <1>5, <1>6, <1>7, <1>8, <1>9, <1>10, <1>11 DEF layer

\* No structure the driver is given asks for more than the device has.
LEMMA StructsSupported ==
  ASSUME NEW pd, NEW s \in Structs \ {"idx"}, wish \in Compositions, s \in DOMAIN wish.on,
         wish.on[s] \subseteq pd.features \cup AllSpoofed
  PROVE  mask_next_features(pd, s, wish.on[s] \cup Forced(pd, s)) \subseteq pd.features
<1> SUFFICES ASSUME NEW f \in wish.on[s] \cup Forced(pd, s),
                    f \in Spoofed(s) => f \in Queried(pd, s)
             PROVE  f \in pd.features
  BY DEF mask_next_features
<1>1. CASE f \in Spoofed(s)
  BY <1>1 DEF Queried
<1>2. CASE f \in wish.on[s] /\ f \notin Spoofed(s)
  BY <1>2, SetupAssumption
<1>3. CASE f \in Forced(pd, s) /\ f \notin Spoofed(s)
  <2>1. f \notin CoreFeatures => f \notin ForcedCore(pd)
    BY DEF ForcedCore, If, CoreFeatures
  <2>2. needsImageRobustness(pd) => "robustImageAccess" \in pd.features
    BY DEF needsImageRobustness
  <2>3. s \in {"f2", "v12", "v13", "rob", "rob2", "fault"}
    BY DEF Structs
  <2>4. QED
    BY <1>3, <2>1, <2>2, <2>3, ForcedFacts, SpoofedFacts DEF If
<1>4. QED
  BY <1>1, <1>2, <1>3

\* The first request from a set of structures asks for nothing the device
\* lacks.
LEMMA FirstSupported ==
  ASSUME SetupIndInv, NEW pd \in handles, CreateDevice(pd), ~used
  PROVE  OnlySupported'
<1> SUFFICES ASSUME request' # None
             PROVE  /\ \A s \in DOMAIN request'.next :
                         s # "idx" => request'.next[s] \subseteq pd.features
                    /\ cached = pd =>
                         request'.core \subseteq
                           pd.features \cup If(env.emulate_sparse, {"sparseBinding"})
                    /\ actualExtensions(pd) \in {pd.extensions, {}} =>
                         request'.extensions \subseteq pd.extensions \cup {"image_robustness"}
  BY FirstRequest DEF OnlySupported, If
<1>1. /\ wish \in Compositions /\ pd \in ToSet(env.devices) /\ env \in Environments
      /\ \A s \in DOMAIN wish.on : wish.on[s] \subseteq pd.features \cup AllSpoofed
      /\ wish.names \subseteq pd.extensions \cup SpoofedExtensions
  BY FirstRequest DEF CreateDevice, Allowed
<1>2. DOMAIN wish.on \subseteq Structs
  <2>1. wish.chain \in Seq(Structs) /\ DOMAIN wish.on = ToSet(wish.chain)
    BY <1>1, SetupAssumption
  <2>2. QED
    BY <2>1 DEF ToSet
<1>3. ASSUME NEW s \in DOMAIN request'.next, s # "idx"
      PROVE  request'.next[s] \subseteq pd.features
  <2>1. CASE s \in DOMAIN layerFeatures(pd)
    <3>1. s \in {"fault", "rob"} /\ request'.next[s] = layerFeatures(pd)[s]
      BY <1>3, <2>1, FirstRequest, LayerFacts
    <3>2. s = "fault" => request'.next[s] = {"deviceFault"} /\ "deviceFault" \in pd.features
      BY <2>1, <3>1, LayerFacts
    <3>3. s = "rob" => /\ request'.next[s] = {"robustImageAccess"}
                       /\ "robustImageAccess" \in pd.features
      BY <2>1, <3>1, LayerFacts DEF needsImageRobustness
    <3>4. QED
      BY <3>1, <3>2, <3>3
  <2>2. CASE s \notin DOMAIN layerFeatures(pd)
    <3>1. /\ s \in DOMAIN wish.on
          /\ request'.next[s] = mask_next_features(pd, s, wish.on[s] \cup Forced(pd, s))
      BY <2>2, FirstRequest
    <3>2. QED
      BY <1>1, <1>2, <1>3, <3>1, StructsSupported
  <2>3. QED
    BY <2>1, <2>2
<1>4. ASSUME cached = pd
      PROVE  request'.core \subseteq pd.features \cup If(env.emulate_sparse, {"sparseBinding"})
  <2>1. cached # None
    BY <1>1, <1>4, SetupAssumption
  <2>2. wish.core # None => wish.core \subseteq pd.features \cup CoreFeatures
    BY DEF CreateDevice, Allowed
  <2>3. QED
    BY <1>4, <2>1, <2>2, FirstRequest
       DEF mutableCoreFeatures, actualCoreFeatures, ForcedCore, If
<1>5. ASSUME actualExtensions(pd) \in {pd.extensions, {}}
      PROVE  request'.extensions \subseteq pd.extensions \cup {"image_robustness"}
  <2>1. "deviceFault" \in pd.features => "device_fault" \in pd.extensions
    BY <1>1, SupportAssumption DEF ToSet
  <2>2. QED
    BY <1>1, <1>5, <2>1, FirstRequest DEF enabledExtensions, If
<1>6. QED
  BY <1>3, <1>4, <1>5

\* It loses nothing the device has.
LEMMA FirstKept ==
  ASSUME SetupIndInv, NEW pd \in handles, CreateDevice(pd), ~used
  PROVE  WishesKept'
<1> SUFFICES ASSUME request' # None, cached = pd, ~env.force_masking
             PROVE  /\ \A s \in ToSet(wish.chain) : \A f \in wish.on[s] \cap Queried(pd, s) :
                         s \in DOMAIN request'.next /\ f \in request'.next[s]
                    /\ wish.core # None => wish.core \cap pd.features \subseteq request'.core
                    /\ /\ Contains(wish.chain, "v12")
                       /\ "descriptorIndexing" \in wish.on["v12"] \cap pd.features
                       =>
                          \/ "v12" \in DOMAIN request'.next
                          \/ "idx" \in DOMAIN request'.next
                          \/ "descriptor_indexing" \in wish.names
                    /\ wish.names \cap pd.extensions \subseteq request'.extensions
                    /\ needsImageRobustness(pd) =>
                          \/ \E s \in DOMAIN request'.next :
                               Knows(pd, s) /\ "robustImageAccess" \in request'.next[s]
                          \/ Contains(wish.chain, "v13") /\ pd.apiVersion < 13
  <2>1. env' = env /\ wish' = wish
    BY FirstRequest
  <2>2. \A p : needsImageRobustness(p)' <=> needsImageRobustness(p)
    BY <2>1 DEF needsImageRobustness, emulate_null_descriptor
  <2>3. request' # None => request'.pd = pd /\ request'.known = cached
    BY FirstRequest
  <2>4. QED
    BY <2>1, <2>2, <2>3 DEF WishesKept
<1>1. /\ wish \in Compositions /\ pd \in ToSet(env.devices) /\ env \in Environments
      /\ chain = wish.chain /\ pd.apiVersion \in Nat /\ pd # None
  BY FirstRequest, SetupAssumption
<1>2. /\ wish.chain \in Seq(Structs) /\ DOMAIN wish.on = ToSet(wish.chain)
      /\ ~({"v12", "idx"} \subseteq DOMAIN wish.on)
  BY <1>1, SetupAssumption
<1>3. \A s : Contains(wish.chain, s) <=> s \in DOMAIN wish.on
  BY <1>1, ContainsFacts
<1>4. apiVersion = pd.apiVersion /\ actualCoreFeatures = pd.features
  BY <1>1 DEF apiVersion, actualCoreFeatures
<1>5. actualExtensions(pd) = pd.extensions
  BY <1>1 DEF actualExtensions, SetupIndInv, SetupTypeOK
<1>6. ASSUME NEW s \in DOMAIN wish.on, NEW f \in wish.on[s] \cap Queried(pd, s)
      PROVE  s \in DOMAIN request'.next /\ f \in request'.next[s]
  <2>1. ~Detached(s)
    BY <1>1, <1>4, <1>6 DEF Detached, Queried, Knows
  <2>2. s \notin DOMAIN layerFeatures(pd)
    BY <1>1, <1>2, <1>3, LayerFacts DEF aliasDescriptorIndexing
  <2>3. /\ s \in DOMAIN request'.next
        /\ request'.next[s] = mask_next_features(pd, s, wish.on[s] \cup Forced(pd, s))
    BY <2>1, <2>2, FirstRequest
  <2>4. QED
    BY <1>6, <2>3 DEF mask_next_features
<1>7. wish.core # None => wish.core \cap pd.features \subseteq request'.core
  BY <1>4, FirstRequest DEF mutableCoreFeatures, If
<1>8. ASSUME Contains(wish.chain, "v12"),
             "descriptorIndexing" \in wish.on["v12"] \cap pd.features,
             "descriptor_indexing" \notin wish.names, "v12" \notin DOMAIN request'.next
      PROVE  "idx" \in DOMAIN request'.next
  <2>1. "v12" \in DOMAIN wish.on
    BY <1>3, <1>8
  <2>2. Detached("v12")
    BY <1>8, <2>1, FirstRequest
  <2>3. apiVersion < 12
    BY <2>2 DEF Detached
  <2>4. "descriptor_indexing" \notin enabledExtensions(pd)
    BY <1>8 DEF enabledExtensions, If
  <2>5. "descriptorIndexing" \in on["v12"]
    BY <1>1, <1>8, <2>1
       DEF SetupIndInv, Composed, Structs, CreateDevice, Allowed
  <2>6. aliasDescriptorIndexing(pd)
    BY <1>1, <1>8, <2>3, <2>4, <2>5 DEF aliasDescriptorIndexing
  <2>7. QED
    BY <2>6, FirstRequest, LayerFacts
<1>9. wish.names \cap pd.extensions \subseteq request'.extensions
  BY <1>5, FirstRequest DEF enabledExtensions
<1>10. ASSUME needsImageRobustness(pd), ~(Contains(wish.chain, "v13") /\ pd.apiVersion < 13)
       PROVE  \E s \in DOMAIN request'.next :
                Knows(pd, s) /\ "robustImageAccess" \in request'.next[s]
  <2>1. "v13" \notin DOMAIN layerFeatures(pd)
    BY LayerFacts
  <2>2. CASE Contains(wish.chain, "v13")
    <3>1. "v13" \in DOMAIN wish.on /\ pd.apiVersion >= 13
      BY <1>1, <1>3, <1>10, <2>2
    <3>2. ~Detached("v13")
      BY <1>1, <1>4, <3>1 DEF Detached
    <3>3. /\ "v13" \in DOMAIN request'.next
          /\ request'.next["v13"] =
               mask_next_features(pd, "v13", wish.on["v13"] \cup Forced(pd, "v13"))
      BY <2>1, <3>1, <3>2, FirstRequest
    <3>4. "robustImageAccess" \in request'.next["v13"]
      BY <1>10, <3>3, ForcedFacts, SpoofedFacts DEF mask_next_features, If
    <3>5. Knows(pd, "v13")
      BY <3>1 DEF Knows
    <3>6. QED
      BY <3>3, <3>4, <3>5
  <2>3. CASE ~Contains(wish.chain, "v13") /\ Contains(wish.chain, "rob")
    <3>1. "rob" \in DOMAIN wish.on /\ ~Detached("rob") /\ Knows(pd, "rob")
      BY <1>3, <2>3 DEF Detached, Knows
    <3>2. "rob" \notin DOMAIN layerFeatures(pd)
      BY <1>1, <2>3, LayerFacts
    <3>3. /\ "rob" \in DOMAIN request'.next
          /\ request'.next["rob"] =
               mask_next_features(pd, "rob", wish.on["rob"] \cup Forced(pd, "rob"))
      BY <3>1, <3>2, FirstRequest
    <3>4. "robustImageAccess" \in request'.next["rob"]
      BY <1>1, <1>10, <2>3, <3>3, ForcedFacts, SpoofedFacts
         DEF mask_next_features, If
    <3>5. QED
      BY <3>1, <3>3, <3>4
  <2>4. CASE ~Contains(wish.chain, "v13") /\ ~Contains(wish.chain, "rob")
    <3>1. "rob" \in DOMAIN layerFeatures(pd)
      BY <1>1, <1>10, <2>4, LayerFacts
    <3>2. "rob" \in DOMAIN request'.next /\ request'.next["rob"] = {"robustImageAccess"}
      BY <3>1, FirstRequest, LayerFacts
    <3>3. Knows(pd, "rob")
      BY DEF Knows
    <3>4. QED
      BY <3>2, <3>3
  <2>5. QED
    BY <2>2, <2>3, <2>4
<1>11. QED
  BY <1>2, <1>6, <1>7, <1>8, <1>9, <1>10

-------------------------------------------------------------------------------
(***************************************************************************)
(* One lemma per action.                                                   *)
(***************************************************************************)

\* The first time by the two lemmas above; later requests are not spoken of.
LEMMA CreateDeviceInd ==
  ASSUME SetupIndInv, NEW pd \in handles, CreateDevice(pd)
  PROVE  SetupIndInv'
<1>1. SetupTypeOK' /\ Composed'
  <2>1. cached # None => deviceExtensionsMap # None
    BY SetupAssumption DEF SetupIndInv, SetupTypeOK
  <2>2. /\ UNCHANGED <<env, handles, cached, wish>> /\ used' = TRUE
        /\ deviceExtensionsMap' = actualExtensions(pd)
    BY DEF CreateDevice
  <2>3. QED
    BY <2>1, <2>2 DEF SetupIndInv, SetupTypeOK, Composed, actualExtensions
<1>2. CASE ~used
  BY <1>1, <1>2, FirstSupported, FirstKept DEF SetupIndInv
<1>3. CASE used
  <2>1. request'.first = FALSE
    BY <1>3 DEF CreateDevice
  <2>2. OnlySupported' /\ WishesKept'
    BY <2>1 DEF OnlySupported, WishesKept
  <2>3. QED
    BY <1>1, <2>2 DEF SetupIndInv
<1>4. QED
  BY <1>2, <1>3

\* The other steps: what was requested stays what it was.
LEMMA RequestStays ==
  ASSUME SetupIndInv, UNCHANGED <<env, request>>, ~used' \/ UNCHANGED <<wish, used>>
  PROVE  OnlySupported' /\ WishesKept'
<1>1. OnlySupported'
  BY DEF SetupIndInv, OnlySupported
<1>2. CASE ~used'
  BY <1>1, <1>2 DEF WishesKept
<1>3. CASE UNCHANGED <<wish, used>>
  <2>1. \A pd : needsImageRobustness(pd)' <=> needsImageRobustness(pd)
    BY DEF needsImageRobustness, emulate_null_descriptor
  <2>2. QED
    BY <1>1, <1>3, <2>1 DEF SetupIndInv, WishesKept
<1>4. QED
  BY <1>1, <1>2, <1>3

\* The caches are filled from one physical device of the array.
LEMMA EnumeratePhysicalDevicesInd ==
  ASSUME SetupIndInv, NEW n \in DOMAIN env.devices, EnumeratePhysicalDevices(n)
  PROVE  SetupIndInv'
<1>1. env.devices \in Seq(ToSet(env.devices)) /\ env \in Environments
  BY SetupAssumption DEF SetupIndInv, SetupTypeOK
<1>2. 1 .. n \subseteq DOMAIN env.devices
  BY <1>1
<1>3. n = Len(env.devices) => Last(env.devices) \in ToSet(env.devices)
  BY DEF Last, ToSet
<1>4. SetupTypeOK'
  <2>1. handles' \subseteq ToSet(env.devices)
    BY <1>2 DEF SetupIndInv, SetupTypeOK, EnumeratePhysicalDevices, ToSet
  <2>2. QED
    BY <1>3, <2>1 DEF SetupIndInv, SetupTypeOK, EnumeratePhysicalDevices
<1>5. Composed'
  BY DEF SetupIndInv, Composed, EnumeratePhysicalDevices
<1>6. UNCHANGED <<env, request, wish, used>>
  BY DEF EnumeratePhysicalDevices
<1>7. QED
  BY <1>4, <1>5, <1>6, RequestStays DEF SetupIndInv

\* The queries fill the cache of extensions at most.
LEMMA SetupQueriesInd ==
  ASSUME SetupIndInv, NEW pd \in handles,
         GetPhysicalDeviceFeatures2(pd) \/ EnumerateDeviceExtensionProperties(pd)
  PROVE  SetupIndInv'
<1>1. SetupTypeOK' /\ Composed'
  <2>1. cached # None => deviceExtensionsMap # None
    BY SetupAssumption DEF SetupIndInv, SetupTypeOK
  <2>2. /\ UNCHANGED <<env, handles, cached, wish, used, chain, on>>
        /\ \/ deviceExtensionsMap = None
           \/ deviceExtensionsMap' = actualExtensions(pd)
    BY DEF GetPhysicalDeviceFeatures2, EnumerateDeviceExtensionProperties
  <2>3. QED
    BY <2>1, <2>2 DEF SetupIndInv, SetupTypeOK, Composed, actualExtensions
<1>2. UNCHANGED <<env, request, wish, used>>
  BY DEF GetPhysicalDeviceFeatures2, EnumerateDeviceExtensionProperties
<1>3. QED
  BY <1>1, <1>2, RequestStays DEF SetupIndInv

\* The application fills its structures anew.
LEMMA ComposeInd ==
  ASSUME SetupIndInv, NEW c \in Compositions, Compose(c)
  PROVE  SetupIndInv'
<1>1. SetupTypeOK' /\ Composed'
  BY DEF SetupIndInv, SetupTypeOK, Composed, Compose
<1>2. UNCHANGED <<env, request>> /\ ~used'
  BY DEF Compose
<1>3. QED
  BY <1>1, <1>2, RequestStays DEF SetupIndInv

-------------------------------------------------------------------------------
(***************************************************************************)
(* The invariant and the theorems.                                         *)
(***************************************************************************)

\* Nothing has been asked for.
LEMMA SetupInitInd == SetupInit => SetupIndInv
BY DEF SetupInit, SetupIndInv, SetupTypeOK, Composed, OnlySupported, WishesKept

\* Every step preserves the invariant.
LEMMA SetupStepInd == SetupIndInv /\ [SetupNext]_setupVars => SetupIndInv'
<1> SUFFICES ASSUME SetupIndInv, [SetupNext]_setupVars PROVE SetupIndInv'
  OBVIOUS
<1>1. CASE SetupNext
  BY <1>1, CreateDeviceInd, EnumeratePhysicalDevicesInd, SetupQueriesInd,
     ComposeInd
     DEF SetupNext
<1>2. CASE UNCHANGED setupVars
  <2>1. SetupTypeOK' /\ Composed'
    BY <1>2 DEF setupVars, SetupIndInv, SetupTypeOK, Composed
  <2>2. QED
    BY <1>2, <2>1, RequestStays DEF setupVars, SetupIndInv
<1>3. QED
  BY <1>1, <1>2

\* The invariant holds in every state.
LEMMA SetupInductive == SetupSpec => []SetupIndInv
BY SetupInitInd, SetupStepInd, PTL DEF SetupSpec

\* The caches of physical devices and what is passed to vkCreateDevice are
\* what they should be (EnumeratePhysicalDevices and CreateDevice of
\* layer.cpp).
THEOREM SetupTypeCorrect == SetupSpec => []SetupTypeOK
<1>1. SetupIndInv => SetupTypeOK
  BY DEF SetupIndInv
<1>2. QED
  BY <1>1, SetupInductive, PTL

\* The first vkCreateDevice made from a set of structures asks the driver for
\* no spoofed feature, and for none the layer adds, that the physical device
\* lacks, whichever device the caches describe; core features and extensions,
\* which go by the caches, when those are its own (mask_next_features and
\* CreateDevice of layer.cpp).
THEOREM OnlySupportedIsAsked == SetupSpec => []OnlySupported
<1>1. SetupIndInv => OnlySupported
  BY DEF SetupIndInv
<1>2. QED
  BY <1>1, SetupInductive, PTL

\* When the caches describe the device, nothing the application asks for and
\* the device has is lost on the way to the driver, and null descriptor
\* emulation gets image robustness (CreateDevice, the aliasing of descriptor
\* indexing and the structures added in front).
THEOREM WishesAreKept == SetupSpec => []WishesKept
<1>1. SetupIndInv => WishesKept
  BY DEF SetupIndInv
<1>2. QED
  BY <1>1, SetupInductive, PTL
===============================================================================
