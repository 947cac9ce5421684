----------------------------- MODULE DeviceSetup ------------------------------
(***************************************************************************)
(* What vkCreateDevice passes on to the driver.                            *)
(*                                                                         *)
(* The layer reports some features and extensions as supported whatever    *)
(* the driver says (spoofing).  CreateDevice must take out of the request  *)
(* what the physical device cannot do, and adds what its emulations need.  *)
(* It works with caches, filled when the application enumerates physical   *)
(* devices, and writes into the structures of the application's pNext      *)
(* chain, which the application may use again.                             *)
(*                                                                         *)
(* The caches are keyed by GetKey(physicalDevice), the dispatch pointer,   *)
(* which all physical devices of an instance share: there is one instance, *)
(* so one entry of each cache.  A structure is named for what it enables:  *)
(* f2 is VkPhysicalDeviceFeatures2, v12 and v13 the Vulkan 1.2 and 1.3     *)
(* features, rob image robustness, rob2 robustness2, fault device fault,   *)
(* idx descriptor indexing.  One feature stands for each kind the code     *)
(* treats alike.  The driver's createDevice may refuse; nothing in here    *)
(* depends on its answer.                                                  *)
(***************************************************************************)
EXTENDS Naturals, Sequences, FiniteSets
LOCAL INSTANCE SequencesExt

CONSTANTS
    Environments,      \* a process: the COMPAT_ variables, and the physical
                       \* devices [apiVersion, features, extensions] in the
                       \* driver's order
    Compositions,      \* what an application may ask for:
                       \* [chain, on, core, names]
    None

ASSUME SupportAssumption ==
    \A e \in Environments : \A i \in DOMAIN e.devices :
        "deviceFault" \in e.devices[i].features =>
            "device_fault" \in e.devices[i].extensions

VARIABLES
    env,                   \* the process's environment
    handles,               \* physical devices the application knows
    cached,                \* the one whose data featuresMap and propertiesMap hold
    deviceExtensionsMap,   \* its entry, or None
    wish,                  \* what the application has asked for, and ...
    chain, on,             \* ... what its structures hold now
    used,                  \* a device has been created from them
    request                \* what the driver was last asked to create

setupVars == <<env, handles, cached, deviceExtensionsMap, wish, chain, on, used, request>>

Structs == {"f2", "v12", "v13", "rob", "rob2", "fault", "idx"}
SpoofedExtensions == {"swapchain", "robustness2"}
CoreFeatures == {"geometryShader", "robustBufferAccess", "sparseBinding"}

\* SPOOFED_CORE_FEATURES, SPOOFED_NEXT_FEATURES: the spoofed fields of a structure.
Spoofed(s) == CASE s = "f2"   -> CoreFeatures
                [] s = "v12"  -> {"descriptorIndexing"}
                [] s = "v13"  -> {"dynamicRendering"}
                [] s = "rob2" -> {"nullDescriptor"}
                [] OTHER      -> {}

AllSpoofed == UNION {Spoofed(s) : s \in Structs}

\* Physical devices are in an array.  A structure has fields of its own only; with
\* that of Vulkan 1.2 the one for descriptor indexing is not valid.
ASSUME SetupAssumption ==
    /\ \A e \in Environments :
          /\ e.devices \in Seq(ToSet(e.devices))
          /\ None \notin ToSet(e.devices)
          /\ \A pd \in ToSet(e.devices) : pd.apiVersion \in Nat /\ pd.extensions # None
    /\ None \notin Compositions
    /\ \A c \in Compositions :
          /\ c.chain \in Seq(Structs) /\ DOMAIN c.on = ToSet(c.chain)
          /\ \A s \in DOMAIN c.on \ {"idx"} : c.on[s] \cap AllSpoofed \subseteq Spoofed(s)
          /\ ~({"v12", "idx"} \subseteq DOMAIN c.on)

\* A driver leaves alone, or ignores, a structure of a later Vulkan version.
Knows(pd, s) ==
    /\ s = "v12" => pd.apiVersion >= 12
    /\ s = "v13" => pd.apiVersion >= 13
Queried(pd, s) == IF Knows(pd, s) THEN pd.features ELSE {}

SetupInit ==
    /\ env \in Environments
    /\ handles = {}
    /\ cached = None
    /\ deviceExtensionsMap = None
    /\ wish = None
    /\ chain = <<>>
    /\ on = [s \in Structs |-> {}]
    /\ used = FALSE
    /\ request = None

-------------------------------------------------------------------------------
(***************************************************************************)
(* Queries.                                                                *)
(***************************************************************************)

\* apiVersion and features as cached: zero where nothing is.
apiVersion         == IF cached = None THEN 0 ELSE cached.apiVersion
actualCoreFeatures == IF cached = None THEN {} ELSE cached.features

\* The caches are filled when the array holds all physical devices, one after
\* the other in the same entries; a shorter array gets its handles only.
EnumeratePhysicalDevices(count) ==
    /\ handles' = handles \cup {env.devices[i] : i \in 1 .. count}
    /\ IF count = Len(env.devices)
       THEN /\ cached' = Last(env.devices)
            /\ deviceExtensionsMap' = Last(env.devices).extensions
       ELSE UNCHANGED <<cached, deviceExtensionsMap>>
    /\ UNCHANGED <<env, wish, chain, on, used, request>>

\* With an old or unknown version the look-up of the extensions leaves an empty
\* entry where there was none.
GetPhysicalDeviceFeatures2(pd) ==
    /\ pd \in handles
    /\ apiVersion < 12 /\ deviceExtensionsMap = None
    /\ deviceExtensionsMap' = {}
    /\ UNCHANGED <<env, handles, cached, wish, chain, on, used, request>>

\* get_actual_device_extensions: the entry if there is one, else the driver's.
actualExtensions(pd) ==
    IF deviceExtensionsMap = None THEN pd.extensions ELSE deviceExtensionsMap

EnumerateDeviceExtensionProperties(pd) ==
    /\ pd \in handles
    /\ deviceExtensionsMap' = actualExtensions(pd)
    /\ UNCHANGED <<env, handles, cached, wish, chain, on, used, request>>

\* The application fills its structures.
Compose(c) ==
    /\ wish' = c
    /\ chain' = c.chain
    /\ on' = [s \in Structs |-> IF s \in DOMAIN c.on THEN c.on[s] ELSE {}]
    /\ used' = FALSE
    /\ UNCHANGED <<env, handles, cached, deviceExtensionsMap, request>>

-------------------------------------------------------------------------------
(***************************************************************************)
(* CreateDevice.                                                           *)
(***************************************************************************)

If(condition, set) == IF condition THEN set ELSE {}

emulate_null_descriptor(pd) ==
    \/ env.emulate_null = "on"
    \/ env.emulate_null = "auto" /\ "nullDescriptor" \notin pd.features

\* Image robustness is switched on for null descriptors.
needsImageRobustness(pd) ==
    emulate_null_descriptor(pd) /\ "robustImageAccess" \in pd.features

\* The extensions handed to the driver: VK_EXT_descriptor_indexing is added to
\* the vector when its data and length have already been taken.
enabledExtensions(pd) ==
    {n \in wish.names : n \in SpoofedExtensions => n \in actualExtensions(pd)}
      \cup If("deviceFault" \in pd.features, {"device_fault"})
      \cup If(needsImageRobustness(pd), {"image_robustness"})

\* Faulty variant: Vulkan 1.3 loses its structure too.
DetachedMutant(s) ==
    \/ s = "v12" /\ apiVersion < 12
    \/ s = "v13" /\ apiVersion <= 13

\* Structures the cached version does not know are taken out of the chain.
Detached(s) ==
    \/ s = "v12" /\ apiVersion < 12
    \/ s = "v13" /\ apiVersion < 13

\* They are unlinked from what is before them: for the first one left that is the
\* loader's structure, otherwise one of the application's, which stays so.
Unlinked ==
    SelectSeq([i \in DOMAIN chain |->
                  IF Detached(chain[i]) /\ \E j \in 1 .. i - 1 : ~Detached(chain[j])
                  THEN None ELSE chain[i]], LAMBDA s : s # None)

\* Indexing asked for in the Vulkan 1.2 structure is asked for in its own, unless
\* the application has enabled the extension itself.
aliasDescriptorIndexing(pd) ==
    /\ apiVersion < 12
    /\ Contains(chain, "v12") /\ "descriptorIndexing" \in on["v12"]
    /\ "descriptor_indexing" \notin enabledExtensions(pd)

\* The structures the layer adds in front of the chain, and their contents.
layerFeatures(pd) ==
    [s \in If("deviceFault" \in pd.features /\ ~Contains(chain, "fault"), {"fault"})
             \cup If(needsImageRobustness(pd) /\ ~Contains(chain, "v13")
                       /\ ~Contains(chain, "rob"), {"rob"})
             \cup If(aliasDescriptorIndexing(pd), {"idx"})
       |-> CASE s = "fault" -> {"deviceFault"}
             [] s = "rob"   -> {"robustImageAccess"}
             [] s = "idx"   -> {"descriptorIndexing"}]

\* Core features the emulations need.
ForcedCore(pd) ==
    If(emulate_null_descriptor(pd) /\ "robustBufferAccess" \in actualCoreFeatures,
       {"robustBufferAccess"})
      \cup If(env.emulate_sparse, {"sparseBinding"})

\* What is switched on in the application's structures.
Forced(pd, s) ==
    CASE s = "f2"    -> ForcedCore(pd)
      [] s = "fault" -> If("deviceFault" \in pd.features, {"deviceFault"})
      [] s = "v13"   -> If(needsImageRobustness(pd), {"robustImageAccess"})
      [] s = "rob"   -> If(needsImageRobustness(pd) /\ ~Contains(chain, "v13"),
                           {"robustImageAccess"})
      [] OTHER       -> {}

\* Faulty variant: the cached features decide, not those of this device.
mask_next_featuresMutant(pd, s, features) ==
    {f \in features : f \in Spoofed(s) =>
                        f \in actualCoreFeatures /\ ~env.force_masking}

\* Spoofed fields are switched off unless this physical device has the feature.
mask_next_features(pd, s, features) ==
    {f \in features : f \in Spoofed(s) =>
                        f \in Queried(pd, s) /\ ~env.force_masking}

\* pEnabledFeatures is copied, its spoofed fields masked by the cached features,
\* and completed.
mutableCoreFeatures(pd) ==
    IF wish.core = None THEN {}
    ELSE {f \in wish.core : f \in CoreFeatures =>
                               f \in actualCoreFeatures /\ ~env.force_masking}
           \cup ForcedCore(pd)

\* What the application may ask pd for, as the layer reports it.
Allowed(pd) ==
    /\ wish # None
    /\ \A s \in DOMAIN wish.on : wish.on[s] \subseteq pd.features \cup AllSpoofed
    /\ wish.core # None => wish.core \subseteq pd.features \cup CoreFeatures
    /\ wish.names \subseteq pd.extensions \cup SpoofedExtensions

CreateDevice(pd) ==
    LET linked  == {s \in ToSet(chain) : ~Detached(s)}
        masked  == [s \in Structs |->
                      IF s \notin ToSet(chain) THEN on[s]
                      ELSE IF s \in linked
                      THEN mask_next_features(pd, s, on[s] \cup Forced(pd, s))
                      ELSE on[s] \cup Forced(pd, s)]
        layer   == layerFeatures(pd)
    IN
    /\ pd \in handles /\ Allowed(pd)
    /\ request' = [pd |-> pd, first |-> ~used,
                   known |-> cached, actual |-> actualExtensions(pd),
                   extensions |-> enabledExtensions(pd),
                   core |-> mutableCoreFeatures(pd),
                   next |-> [s \in linked \cup DOMAIN layer |->
                               IF s \in DOMAIN layer THEN layer[s] ELSE masked[s]]]
    /\ on' = masked
    /\ chain' = Unlinked
    /\ used' = TRUE
    /\ deviceExtensionsMap' = actualExtensions(pd)
    /\ UNCHANGED <<env, handles, cached, wish>>

-------------------------------------------------------------------------------

SetupNext ==
    \/ \E count \in DOMAIN env.devices : EnumeratePhysicalDevices(count)
    \/ \E pd \in handles : \/ GetPhysicalDeviceFeatures2(pd)
                           \/ EnumerateDeviceExtensionProperties(pd)
                           \/ CreateDevice(pd)
    \/ \E c \in Compositions : Compose(c)

SetupSpec == SetupInit /\ [][SetupNext]_setupVars

-------------------------------------------------------------------------------

\* The first request made from a set of structures asks for nothing that is
\* spoofed or that the layer has added but the physical device lacks, whichever
\* device the caches describe.  Where the code does not see to it: core features
\* in pEnabledFeatures when the caches are those of another device, sparseBinding
\* there when it is emulated, indexing in its own structure, extensions when
\* their cache is another device's or when image robustness is not an extension.
OnlySupported ==
    request # None /\ request.first =>
        LET pd == request.pd IN
        /\ \A s \in DOMAIN request.next :
              s # "idx" => request.next[s] \subseteq pd.features
        /\ request.known = pd =>
              request.core \subseteq pd.features \cup If(env.emulate_sparse, {"sparseBinding"})
        /\ request.actual \in {pd.extensions, {}} =>
              request.extensions \subseteq pd.extensions \cup {"image_robustness"}

\* And it loses nothing the device can do, when the caches are its own: what the
\* application asks for in a structure reaches the driver in that structure,
\* Vulkan 1.2 indexing in the older one (unless the application enabled the
\* extension), an extension by its name, and null descriptor emulation has image
\* robustness, unless that went into a Vulkan 1.3 structure that is then detached.
WishesKept ==
    /\ request # None /\ request.first /\ used
    /\ request.known = request.pd
    /\ ~env.force_masking
    =>  LET pd == request.pd
            given == request.next
        IN
        /\ \A s \in ToSet(wish.chain) : \A f \in wish.on[s] \cap Queried(pd, s) :
              s \in DOMAIN given /\ f \in given[s]
        /\ wish.core # None => wish.core \cap pd.features \subseteq request.core
        /\ /\ Contains(wish.chain, "v12")
           /\ "descriptorIndexing" \in wish.on["v12"] \cap pd.features
           =>
              \/ "v12" \in DOMAIN given
              \/ "idx" \in DOMAIN given
              \/ "descriptor_indexing" \in wish.names
        /\ wish.names \cap pd.extensions \subseteq request.extensions
        /\ needsImageRobustness(pd) =>
              \/ \E s \in DOMAIN given : Knows(pd, s) /\ "robustImageAccess" \in given[s]
              \/ Contains(wish.chain, "v13") /\ pd.apiVersion < 13
===============================================================================
