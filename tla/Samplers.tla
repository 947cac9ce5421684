------------------------------- MODULE Samplers -------------------------------
(***************************************************************************)
(* YCbCr samplers in set layouts (samplers.cpp, descriptors.cpp).          *)
(*                                                                         *)
(* Compute shaders cannot use samplers with a YCbCr conversion, so a new   *)
(* layout's immutable samplers of that kind are replaced, in compute       *)
(* bindings, by one fallback sampler of the device.  The fallback is made  *)
(* when the first such sampler is created.  The set ycbcrSamplers and the  *)
(* fallback have a lock each, and the fallback is looked up, made and      *)
(* stored without holding it throughout.  The driver gives the handle of a *)
(* destroyed sampler to the next one.  A layout here has one compute       *)
(* binding with one immutable sampler.                                     *)
(***************************************************************************)
EXTENDS Naturals, FiniteSets

CONSTANTS
    SamplerThreads, SamplerHandles, NoSampler

ASSUME SamplerNamesAssumption == NoSampler \notin SamplerHandles

\* A device has threads that use it, as many as the process has.
ASSUME SamplerThreadsAssumption ==
    SamplerThreads # {} /\ IsFiniteSet(SamplerThreads)

VARIABLES
    smp_pc, sampler, fallback,   \* thread: next step, its sampler, its fallback
    samplers,                    \* driver: samplers that exist, and of these ...
    conversions, fallbacks,      \* ... those with a conversion, and fallbacks
    ycbcrSamplers,
    fallbackSampler,
    available,                   \* samplers the application may use or destroy
    layouts,                     \* [asked, got]
    open,                        \* the device is not destroyed
    refused                      \* history: the driver has refused a fallback

samplerVars == <<smp_pc, sampler, fallback, samplers, conversions, fallbacks,
                 ycbcrSamplers, fallbackSampler, available, layouts, open, refused>>

SamplersInit ==
    /\ smp_pc = [t \in SamplerThreads |-> "idle"]
    /\ sampler = [t \in SamplerThreads |-> NoSampler]
    /\ fallback = [t \in SamplerThreads |-> NoSampler]
    /\ samplers = {}
    /\ conversions = {}
    /\ fallbacks = {}
    /\ ycbcrSamplers = {}
    /\ fallbackSampler = NoSampler
    /\ available = {}
    /\ layouts = {}
    /\ open = TRUE
    /\ refused = FALSE

At(t, from, to) == open /\ smp_pc[t] = from /\ smp_pc' = [smp_pc EXCEPT ![t] = to]

-------------------------------------------------------------------------------
(***************************************************************************)
(* CreateSampler and DestroySampler.                                       *)
(***************************************************************************)

CreateSampler(t, s, isYcbcr) ==
    /\ At(t, "idle", IF isYcbcr THEN "track" ELSE "idle")
    /\ s \notin samplers
    /\ samplers' = samplers \cup {s}
    /\ conversions' = IF isYcbcr THEN conversions \cup {s} ELSE conversions
    /\ available' = IF isYcbcr THEN available ELSE available \cup {s}
    /\ sampler' = [sampler EXCEPT ![t] = s]
    /\ UNCHANGED <<fallback, fallbacks, ycbcrSamplers, fallbackSampler, layouts,
                   open, refused>>

TrackYcbcr(t) ==
    /\ At(t, "track", "look")
    /\ ycbcrSamplers' = ycbcrSamplers \cup {sampler[t]}
    /\ UNCHANGED <<sampler, fallback, samplers, conversions, fallbacks,
                   fallbackSampler, available, layouts, open, refused>>

\* The application gets its sampler.
Returned(t) == available' = available \cup {sampler[t]}

\* GetYcbcrFallbackSampler: under the shared lock, is there one?
LookForFallback(t) ==
    /\ IF fallbackSampler # NoSampler THEN /\ At(t, "look", "idle")
                                           /\ Returned(t)
                                      ELSE /\ At(t, "look", "make")
                                           /\ UNCHANGED available
    /\ UNCHANGED <<sampler, fallback, samplers, conversions, fallbacks, ycbcrSamplers,
                   fallbackSampler, layouts, open, refused>>

\* The driver makes it, or not; CreateSampler succeeds either way.
MakeFallback(t) ==
    /\ \/ \E f \in SamplerHandles \ samplers :
            /\ At(t, "make", "store")
            /\ samplers' = samplers \cup {f}
            /\ fallbacks' = fallbacks \cup {f}
            /\ fallback' = [fallback EXCEPT ![t] = f]
            /\ UNCHANGED <<available, refused>>
       \/ /\ At(t, "make", "idle")
          /\ refused' = TRUE
          /\ Returned(t)
          /\ UNCHANGED <<samplers, fallbacks, fallback>>
    /\ UNCHANGED <<sampler, conversions, ycbcrSamplers, fallbackSampler, layouts, open>>

\* Under the exclusive lock, whatever another thread has stored meanwhile.
StoreFallback(t) ==
    /\ At(t, "store", "idle")
    /\ fallbackSampler' = fallback[t]
    /\ Returned(t)
    /\ UNCHANGED <<sampler, fallback, samplers, conversions, fallbacks, ycbcrSamplers,
                   layouts, open, refused>>

\* Faulty variant: the handle stays in the set.
UntrackMutant(t, s) ==
    /\ At(t, "idle", "destroy")
    /\ s \in available
    /\ \A l \in layouts : l.asked # s
    /\ \A u \in SamplerThreads : smp_pc[u] = "patch" => sampler[u] # s
    /\ available' = available \ {s}
    /\ sampler' = [sampler EXCEPT ![t] = s]
    /\ UNCHANGED <<fallback, samplers, conversions, fallbacks, ycbcrSamplers, fallbackSampler,
                   layouts, open, refused>>

\* DestroySampler erases the handle first; no layout uses the sampler any more.
Untrack(t, s) ==
    /\ At(t, "idle", "destroy")
    /\ s \in available
    /\ \A l \in layouts : l.asked # s
    /\ \A u \in SamplerThreads : smp_pc[u] = "patch" => sampler[u] # s
    /\ available' = available \ {s}
    /\ sampler' = [sampler EXCEPT ![t] = s]
    /\ ycbcrSamplers' = ycbcrSamplers \ {s}
    /\ UNCHANGED <<fallback, samplers, conversions, fallbacks, fallbackSampler,
                   layouts, open, refused>>

DriverDestroySampler(t) ==
    /\ At(t, "destroy", "idle")
    /\ samplers' = samplers \ {sampler[t]}
    /\ conversions' = conversions \ {sampler[t]}
    /\ UNCHANGED <<sampler, fallback, fallbacks, ycbcrSamplers, fallbackSampler,
                   available, layouts, open, refused>>

-------------------------------------------------------------------------------
(***************************************************************************)
(* Layouts, and the end of the device.                                     *)
(***************************************************************************)

\* PatchYCbCrSamplerBindings reads dev->fallbackSampler, without its lock ...
ReadFallback(t, s) ==
    /\ At(t, "idle", "patch")
    /\ s \in available
    /\ sampler' = [sampler EXCEPT ![t] = s]
    /\ fallback' = [fallback EXCEPT ![t] = fallbackSampler]
    /\ UNCHANGED <<samplers, conversions, fallbacks, ycbcrSamplers, fallbackSampler,
                   available, layouts, open, refused>>

\* ... and, if there is one, puts it in the place of tracked samplers.
PatchLayout(t) ==
    LET patched == fallback[t] # NoSampler /\ sampler[t] \in ycbcrSamplers IN
    /\ At(t, "patch", "idle")
    /\ layouts' = layouts \cup {[asked |-> sampler[t],
                                 got |-> IF patched THEN fallback[t] ELSE sampler[t]]}
    /\ UNCHANGED <<sampler, fallback, samplers, conversions, fallbacks, ycbcrSamplers,
                   fallbackSampler, available, open, refused>>

DestroyLayout(l) ==
    /\ open
    /\ l \in layouts
    /\ layouts' = layouts \ {l}
    /\ UNCHANGED <<smp_pc, sampler, fallback, samplers, conversions, fallbacks,
                   ycbcrSamplers, fallbackSampler, available, open, refused>>

\* DestroyDevice, when the application has destroyed all it has made.
DestroyYcbcrFallbackSampler ==
    /\ open
    /\ \A t \in SamplerThreads : smp_pc[t] = "idle"
    /\ available = {} /\ layouts = {}
    /\ open' = FALSE
    /\ samplers' = samplers \ {fallbackSampler}
    /\ fallbacks' = fallbacks \ {fallbackSampler}
    /\ fallbackSampler' = NoSampler
    /\ UNCHANGED <<smp_pc, sampler, fallback, conversions, ycbcrSamplers, available,
                   layouts, refused>>

-------------------------------------------------------------------------------

SamplersNext ==
    \/ \E t \in SamplerThreads, s \in SamplerHandles :
          \/ \E isYcbcr \in BOOLEAN : CreateSampler(t, s, isYcbcr)
          \/ Untrack(t, s)
          \/ ReadFallback(t, s)
    \/ \E t \in SamplerThreads :
          \/ TrackYcbcr(t) \/ LookForFallback(t) \/ MakeFallback(t) \/ StoreFallback(t)
          \/ DriverDestroySampler(t) \/ PatchLayout(t)
    \/ \E l \in layouts : DestroyLayout(l)
    \/ DestroyYcbcrFallbackSampler

SamplersSpec == SamplersInit /\ [][SamplersNext]_samplerVars

-------------------------------------------------------------------------------

\* A layout has a living fallback where the application put a sampler with a
\* conversion, unless the driver has refused a fallback, and the application's
\* own sampler where it put an ordinary one, even if its handle is an old one.
\* Threads that race to make the fallback leak at most one each but one: once the
\* device is destroyed, no other sampler is left.
FallbackServes ==
    /\ \A l \in layouts :
          /\ l.got \in samplers
          /\ IF l.asked \in conversions
             THEN l.got \in fallbacks \/ (refused /\ l.got = l.asked)
             ELSE l.got = l.asked
    /\ Cardinality(fallbacks) <= Cardinality(SamplerThreads)
    /\ ~open => /\ samplers = fallbacks
                /\ Cardinality(samplers) < Cardinality(SamplerThreads)
===============================================================================
