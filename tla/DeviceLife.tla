------------------------------ MODULE DeviceLife ------------------------------
(***************************************************************************)
(* The table of devices: CreateDevice, DestroyDevice and every look-up.    *)
(*                                                                         *)
(* A VkDevice is the address of an object of the driver, whose first word  *)
(* is the loader's dispatch pointer; deviceMap is keyed by that word       *)
(* (GetKey).  The loader takes a fresh dispatch pointer for each device    *)
(* and keeps it until its own vkDestroyDevice is over, after the layer's.  *)
(* The layer erases its entry after the driver has freed the object, so it *)
(* reads the word from freed memory: another thread's new device may be    *)
(* there by then.                                                          *)
(*                                                                         *)
(* A struct device is known by its deviceId.  The finalizer thread itself  *)
(* is the subject of StagingReclaim; here it runs or has been joined.      *)
(***************************************************************************)
EXTENDS Naturals

CONSTANTS
    DeviceThreads,   \* threads of the application
    Addresses,       \* VkDevice handles
    Keys,            \* dispatch pointers
    MaxDevices,      \* bound: devices ever created
    NoId, NoKey, NoAddress

ASSUME DeviceNamesAssumption ==
    /\ MaxDevices \in Nat /\ NoId \notin Nat
    /\ NoKey \notin Keys /\ NoAddress \notin Addresses

VARIABLES
    dev_pc, device, dev,    \* thread: next step, VkDevice, and its struct device
    dispatch,               \* thread: the loader's dispatch pointer for it
    word,                   \* memory: the first word at an address
    driver,                 \* addresses where the driver has a device
    loader,                 \* dispatch pointers in use
    deviceMap,
    nextDeviceIdCounter,
    own,                    \* devices the application may use, with the
                            \* deviceId each was given
    objects,                \* struct devices that are allocated
    finalizers,             \* those whose finalizer thread is not joined
    raced                   \* history: an address was used again before the
                            \* layer had read its first word for the last time

deviceLifeVars == <<dev_pc, device, dev, dispatch, word, driver, loader, deviceMap,
                    nextDeviceIdCounter, own, objects, finalizers, raced>>

LifeInit ==
    /\ dev_pc = [t \in DeviceThreads |-> "idle"]
    /\ device = [t \in DeviceThreads |-> NoAddress]
    /\ dev = [t \in DeviceThreads |-> NoId]
    /\ dispatch = [t \in DeviceThreads |-> NoKey]
    /\ word = [a \in Addresses |-> NoKey]
    /\ driver = {}
    /\ loader = {}
    /\ deviceMap = [k \in Keys |-> NoId]
    /\ nextDeviceIdCounter = 1
    /\ own = [a \in Addresses |-> NoId]
    /\ objects = {}
    /\ finalizers = {}
    /\ raced = FALSE

Step(t, from, to) == dev_pc[t] = from /\ dev_pc' = [dev_pc EXCEPT ![t] = to]

\* GetKey and deviceMap.find; a word that is no key has no entry.
get_device(a) == IF word[a] = NoKey THEN NoId ELSE deviceMap[word[a]]

-------------------------------------------------------------------------------
(***************************************************************************)
(* CreateDevice.                                                           *)
(***************************************************************************)

\* The driver and the loader make the device.
DriverCreate(t, a, k) ==
    /\ Step(t, "idle", "insert")
    /\ nextDeviceIdCounter <= MaxDevices
    /\ a \notin driver /\ k \notin loader
    /\ driver' = driver \cup {a}
    /\ loader' = loader \cup {k}
    /\ word' = [word EXCEPT ![a] = k]
    /\ device' = [device EXCEPT ![t] = a]
    /\ dev' = [dev EXCEPT ![t] = nextDeviceIdCounter]
    /\ nextDeviceIdCounter' = nextDeviceIdCounter + 1
    /\ objects' = objects \cup {nextDeviceIdCounter}
    /\ finalizers' = finalizers \cup {nextDeviceIdCounter}
    /\ raced' = (raced \/ \E u \in DeviceThreads : dev_pc[u] = "erase" /\ device[u] = a)
    /\ UNCHANGED <<dispatch, deviceMap, own>>

\* Objects that deviceMap or a thread between creation and insertion refers to.
Held(map, pcs) ==
    {map[k] : k \in Keys} \cup {dev[t] : t \in {u \in DeviceThreads : pcs[u] = "insert"}}

\* Faulty variant: emplace, which leaves an entry that is there.
InsertDeviceMutant(t) ==
    /\ Step(t, "insert", "idle")
    /\ deviceMap' = [deviceMap EXCEPT ![word[device[t]]] = IF @ = NoId THEN dev[t] ELSE @]
    /\ own' = [own EXCEPT ![device[t]] = dev[t]]
    /\ objects' = objects \cap Held(deviceMap', dev_pc')
    /\ UNCHANGED <<device, dev, dispatch, word, driver, loader, nextDeviceIdCounter,
                   finalizers, raced>>

\* deviceMap[GetKey(*pDevice)] = device; an object that was there is freed.
InsertDevice(t) ==
    /\ Step(t, "insert", "idle")
    /\ deviceMap' = [deviceMap EXCEPT ![word[device[t]]] = dev[t]]
    /\ own' = [own EXCEPT ![device[t]] = dev[t]]
    /\ objects' = objects \cap Held(deviceMap', dev_pc')
    /\ UNCHANGED <<device, dev, dispatch, word, driver, loader, nextDeviceIdCounter,
                   finalizers, raced>>

-------------------------------------------------------------------------------
(***************************************************************************)
(* DestroyDevice.                                                          *)
(***************************************************************************)

\* The loader remembers its dispatch pointer; the layer looks the device up.
\* Without an entry nothing is destroyed.
FindDevice(t, a) ==
    /\ own[a] # NoId
    /\ Step(t, "idle", IF get_device(a) = NoId THEN "return" ELSE "stop")
    /\ own' = [own EXCEPT ![a] = NoId]
    /\ device' = [device EXCEPT ![t] = a]
    /\ dev' = [dev EXCEPT ![t] = get_device(a)]
    /\ dispatch' = [dispatch EXCEPT ![t] = word[a]]
    /\ UNCHANGED <<word, driver, loader, deviceMap, nextDeviceIdCounter, objects,
                   finalizers, raced>>

\* stop_thread, notify_all, join, and the teardown of what the object holds.
StopFinalizer(t) ==
    /\ Step(t, "stop", "destroy")
    /\ finalizers' = finalizers \ {dev[t]}
    /\ UNCHANGED <<device, dev, dispatch, word, driver, loader, deviceMap,
                   nextDeviceIdCounter, own, objects, raced>>

\* The driver's DestroyDevice frees the memory the handle points to; what is
\* left there is the old word or anything else.
DriverDestroy(t) ==
    /\ Step(t, "destroy", "erase")
    /\ driver' = driver \ {device[t]}
    /\ \E k \in {word[device[t]], NoKey} : word' = [word EXCEPT ![device[t]] = k]
    /\ UNCHANGED <<device, dev, dispatch, loader, deviceMap, nextDeviceIdCounter,
                   own, objects, finalizers, raced>>

\* deviceMap.erase(GetKey(device)), without the lock: by then another thread may
\* have created a device at that address.
EraseDevice(t) ==
    LET key == word[device[t]] IN
    /\ Step(t, "erase", "return")
    /\ deviceMap' = IF key = NoKey THEN deviceMap ELSE [deviceMap EXCEPT ![key] = NoId]
    /\ objects' = objects \cap Held(deviceMap', dev_pc')
    /\ UNCHANGED <<device, dev, dispatch, word, driver, loader, nextDeviceIdCounter,
                   own, finalizers, raced>>

\* The loader frees its dispatch pointer.
Return(t) ==
    /\ Step(t, "return", "idle")
    /\ loader' = loader \ {dispatch[t]}
    /\ UNCHANGED <<device, dev, dispatch, word, driver, deviceMap, nextDeviceIdCounter,
                   own, objects, finalizers, raced>>

-------------------------------------------------------------------------------

LifeNext ==
    \E t \in DeviceThreads :
        \/ \E a \in Addresses, k \in Keys : DriverCreate(t, a, k)
        \/ \E a \in Addresses : FindDevice(t, a)
        \/ InsertDevice(t) \/ StopFinalizer(t) \/ DriverDestroy(t)
        \/ EraseDevice(t) \/ Return(t)

LifeSpec == LifeInit /\ [][LifeNext]_deviceLifeVars

-------------------------------------------------------------------------------

\* Every call of the application on a device of its own finds the object made
\* for it, DestroyDevice does not outlive the object it works on, and no object
\* is freed while its finalizer thread runs (its destructor would end the
\* process): whatever entries earlier devices have left behind, unless the memory
\* of a destroyed device was used again before DestroyDevice was through with it.
DevicesFound ==
    ~raced =>
        /\ \A a \in Addresses : own[a] # NoId => get_device(a) = own[a]
        /\ \A t \in DeviceThreads : dev_pc[t] \in {"stop", "destroy"} => dev[t] \in objects
        /\ finalizers \subseteq objects
===============================================================================
