---------------------------- MODULE BatchLifetime ----------------------------
(***************************************************************************)
(* What the staging machinery of queue.cpp, staging_resources.cpp and the  *)
(* finalizer thread promises about one batch of staging resources: it is   *)
(* reclaimed at most once, and never while the device may still be using   *)
(* it, unless it was abandoned.  Batches are abandoned one at a time, and  *)
(* none where the calls that lead to it cannot fail.                       *)
(***************************************************************************)
CONSTANTS
    Batches,     \* the StagingResources objects
    MayFail      \* a call whose failure leaves a batch behind may fail

VARIABLE phase       \* where each batch is in its life

Phases ==
    {"unused", "recorded", "executing", "finished", "abandoned", "reclaimed"}

Move(b, from, to) ==
    /\ phase[b] = from
    /\ phase' = [phase EXCEPT ![b] = to]

Init == phase = [b \in Batches |-> "unused"]

Record(b)  == Move(b, "unused", "recorded")
Submit(b)  == Move(b, "recorded", "executing")
Finish(b)  == Move(b, "executing", "finished")
\* Nothing is known any more of what the device does with the batch.
Abandon(b) ==
    /\ MayFail
    /\ \E from \in {"recorded", "executing", "finished"} : Move(b, from, "abandoned")
\* Reclaimed after the device has finished, or without having been submitted.
Reclaim(b) ==
    \E from \in {"recorded", "finished", "abandoned"} : Move(b, from, "reclaimed")

Next ==
    \E b \in Batches :
        Record(b) \/ Submit(b) \/ Finish(b) \/ Abandon(b) \/ Reclaim(b)

Spec == Init /\ [][Next]_phase
==============================================================================
