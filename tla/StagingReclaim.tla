---------------------------- MODULE StagingReclaim ----------------------------
(***************************************************************************)
(* Who frees what a one-shot submission leaves behind.                     *)
(*                                                                         *)
(* A submitter is an application thread inside SubmitOneShot (queue.cpp),  *)
(* reached from vkQueueBindSparse or from clearing a new sparse resource.  *)
(* Its command buffer carries a StagingResources object, here a batch;     *)
(* QueueSubmit moves the batch to the device's stagingResourcesQueue with  *)
(* a semaphore and a fence of the SyncPool, and the finalizer thread       *)
(* (layer.cpp) waits for the fence and frees the batch.  DestroyDevice     *)
(* stops the finalizer and frees what is left.                             *)
(*                                                                         *)
(* global_lock is a std::mutex that is not recursive.  A critical section  *)
(* in which no thread can get stuck is one step that needs the lock to be  *)
(* free; the lock is held between steps only where it matters: while the   *)
(* finalizer is about to sleep, and by a thread that has locked itself     *)
(* out.  A pair of SyncPool is one value: the stacks freeFences and        *)
(* freeSemaphores are pushed and popped together.                          *)
(***************************************************************************)
EXTENDS Naturals, Sequences, FiniteSets

CONSTANTS
    Submitters,   \* application threads that submit one-shots
    Batches,      \* StagingResources objects, one for each one-shot
    Pairs,        \* (VkSemaphore, VkFence) pairs
    NoBatch, NoPair, Nobody, Finalizer, Destroyer,
    Faults,       \* the calls that may fail: "record", "submit", "stage",
                  \* "pair" (SyncPool::Acquire), and the host's waits: "wait"
                  \* (a one-shot's), "fence" (the finalizer's), "idle"
    HostGated     \* the application signals, once the bind has returned, a
                  \* timeline semaphore that the bind waits for

ASSUME NamesAssumption ==
    /\ NoBatch \notin Batches
    /\ NoPair \notin Pairs
    /\ Finalizer # Destroyer
    /\ {Nobody, Finalizer, Destroyer} \cap Submitters = {}
    /\ Nobody \notin {Finalizer, Destroyer}
    /\ Faults \subseteq {"record", "submit", "stage", "pair", "wait", "fence", "idle"}
    /\ HostGated \in BOOLEAN

VARIABLES
    global_lock,             \* its holder between steps
    pc, cur, fence,          \* submitter: next step, batch, its copy of the pair
    res,                     \* batch: what it holds (IsEmpty means "none")
    home,                    \* batch: which object owns it
    pair,                    \* batch: members semaphore and completed
    outcome,                 \* batch: the result SubmitOneShot returns
    cb_freed,                \* batch: its command buffer has been freed
    work, signals,           \* device: execution of the batch's commands, and
                             \* the semaphore they signal at the end
    stage,                   \* device: pairs with a pending empty submission
    sem, signaled,           \* pair: semaphore and fence payloads
    free_pairs, created,     \* SyncPool, and the pairs it has ever created
    spoiled,                 \* history: pairs of which a failed call left a
                             \* submission or a payload behind
    drained,                 \* history: DeviceWaitIdle has succeeded
    stagingResourcesQueue, stop_thread,
    fin_pc, local, fin_cur,  \* finalizer: next step, its vector, its batch
    dest_pc                  \* the thread in DestroyDevice

submitterVars == <<pc, cur, fence>>
batchVars     == <<res, home, pair, outcome, cb_freed>>
gpuVars       == <<work, signals, stage, sem, signaled>>
poolVars      == <<free_pairs, created, spoiled, drained>>
queueVars     == <<stagingResourcesQueue, stop_thread>>
finVars       == <<fin_pc, local, fin_cur>>
vars == <<global_lock, submitterVars, batchVars, gpuVars, poolVars, queueVars,
          finVars, dest_pc>>

Init ==
    /\ global_lock = Nobody
    /\ pc = [t \in Submitters |-> "idle"]
    /\ cur = [t \in Submitters |-> NoBatch]
    /\ fence = [t \in Submitters |-> NoPair]
    /\ res = [b \in Batches |-> "none"]
    /\ home = [b \in Batches |-> "unused"]
    /\ pair = [b \in Batches |-> NoPair]
    /\ outcome = [b \in Batches |-> "none"]
    /\ cb_freed = [b \in Batches |-> FALSE]
    /\ work = [b \in Batches |-> "unsubmitted"]
    /\ signals = [b \in Batches |-> NoPair]
    /\ stage = {}
    /\ sem = [p \in Pairs |-> FALSE]
    /\ signaled = [p \in Pairs |-> FALSE]
    /\ free_pairs = {}
    /\ created = {}
    /\ spoiled = {}
    /\ drained = FALSE
    /\ stagingResourcesQueue = <<>>
    /\ stop_thread = FALSE
    /\ fin_pc = "loop"
    /\ local = <<>>
    /\ fin_cur = NoBatch
    /\ dest_pc = "none"

Free == global_lock = Nobody

-------------------------------------------------------------------------------
(***************************************************************************)
(* SubmitOneShot and QueueSubmit.                                          *)
(***************************************************************************)

\* The command buffer is allocated, begun and recorded.  Recording attaches
\* nothing, staging buffers, or other things (semaphores, query pools) to it.
\* If vkEndCommandBuffer or vkCreateFence fails, the code goes straight to
\* its cleanup_registry label.
Record(t, b) ==
    /\ pc[t] = "idle" /\ dest_pc = "none"
    /\ Free
    /\ home[b] = "unused"
    /\ \E r \in {"none", "buffers", "others"} : res' = [res EXCEPT ![b] = r]
    /\ home' = [home EXCEPT ![b] = "cb"]
    /\ cur' = [cur EXCEPT ![t] = b]
    /\ fence' = [fence EXCEPT ![t] = NoPair]
    /\ \/ /\ pc' = [pc EXCEPT ![t] = "submit"]
          /\ UNCHANGED outcome
       \/ /\ "record" \in Faults
          /\ pc' = [pc EXCEPT ![t] = "free"]
          /\ outcome' = [outcome EXCEPT ![b] = "record"]
    /\ UNCHANGED <<global_lock, pair, cb_freed, gpuVars, poolVars, queueVars,
                   finVars, dest_pc>>

\* Faulty variant: the pair is handed out but left in the pool.
AcquireKeepsMutant(p) ==
    /\ \/ p \in free_pairs /\ UNCHANGED <<free_pairs, created>>
       \/ /\ free_pairs = {}
          /\ p \in Pairs \ created
          /\ created' = created \cup {p}
          /\ free_pairs' = {p}
    /\ signaled' = [signaled EXCEPT ![p] = FALSE]
    /\ UNCHANGED spoiled

\* SyncPool::Acquire: a free pair, its fence reset, or a new one.  The results
\* of vkResetFences, vkCreateFence and vkCreateSemaphore are not looked at:
\* the fence of a pair that one of them failed for is in any state.
Acquire(p) ==
    /\ \/ /\ p \in free_pairs
          /\ free_pairs' = free_pairs \ {p}
          /\ UNCHANGED created
       \/ /\ free_pairs = {}
          /\ p \in Pairs \ created
          /\ created' = created \cup {p}
          /\ UNCHANGED free_pairs
    /\ \/ /\ signaled' = [signaled EXCEPT ![p] = FALSE]
          /\ UNCHANGED spoiled
       \/ /\ "pair" \in Faults
          /\ \E any \in BOOLEAN : signaled' = [signaled EXCEPT ![p] = any]
          /\ spoiled' = spoiled \cup {p}

\* The critical section of QueueSubmit: the batch leaves the command buffer;
\* MakeFence gives it a pair unless it is empty, and it is queued.
QueueSubmit(t) ==
    LET b == cur[t] IN
    /\ pc[t] = "submit"
    /\ Free
    /\ pc' = [pc EXCEPT ![t] = "notify"]
    /\ IF res[b] = "none"
       THEN /\ home' = [home EXCEPT ![b] = "gone"]
            /\ UNCHANGED <<fence, pair, signaled, free_pairs, created, spoiled,
                           stagingResourcesQueue>>
       ELSE \E p \in Pairs :
            /\ Acquire(p)
            /\ pair' = [pair EXCEPT ![b] = p]
            /\ fence' = [fence EXCEPT ![t] = p]
            /\ home' = [home EXCEPT ![b] = "reclaim"]
            /\ stagingResourcesQueue' = Append(stagingResourcesQueue, b)
    /\ UNCHANGED <<global_lock, cur, res, outcome, cb_freed, work, signals,
                   stage, sem, drained, stop_thread, finVars, dest_pc>>

\* A notification reaches the finalizer only if it already sleeps.
Wake == fin_pc' = IF fin_pc = "asleep" THEN "check" ELSE fin_pc

\* Faulty variant: the submitting thread does not notify.
NotifyLostMutant(t) ==
    /\ pc[t] = "notify"
    /\ pc' = [pc EXCEPT ![t] = "driver"]
    /\ UNCHANGED <<global_lock, cur, fence, batchVars, gpuVars, poolVars,
                   queueVars, finVars, dest_pc>>

\* hasCleanupWork.notify_one, after the unlock.
Notify(t) ==
    /\ pc[t] = "notify"
    /\ pc' = [pc EXCEPT ![t] = "driver"]
    /\ Wake
    /\ UNCHANGED <<global_lock, cur, fence, batchVars, gpuVars, poolVars,
                   queueVars, local, fin_cur, dest_pc>>

\* Faulty variant: the commands never reach the driver, the wait does.
DriverSkippedMutant(t) ==
    /\ pc[t] = "driver"
    /\ pc' = [pc EXCEPT ![t] = IF fence[t] = NoPair THEN "wait" ELSE "stage"]
    /\ UNCHANGED <<global_lock, cur, fence, batchVars, gpuVars, poolVars,
                   queueVars, finVars, dest_pc>>

\* The driver's vkQueueSubmit of the commands, with the semaphore added.
DriverSubmit(t) ==
    LET b == cur[t] IN
    /\ pc[t] = "driver"
    /\ work' = [work EXCEPT ![b] = "pending"]
    /\ signals' = [signals EXCEPT ![b] = fence[t]]
    /\ pc' = [pc EXCEPT ![t] = IF fence[t] = NoPair THEN "wait" ELSE "stage"]
    /\ UNCHANGED <<global_lock, cur, fence, batchVars, stage, sem, signaled,
                   poolVars, queueVars, finVars, dest_pc>>

\* The empty submission that waits for the semaphore and signals the fence.
StageSubmit(t) ==
    /\ pc[t] = "stage"
    /\ stage' = stage \cup {fence[t]}
    /\ pc' = [pc EXCEPT ![t] = "wait"]
    /\ UNCHANGED <<global_lock, cur, fence, batchVars, work, signals, sem,
                   signaled, poolVars, queueVars, finVars, dest_pc>>

\* Either call to the driver fails: QueueSubmit returns the error at once and
\* SubmitOneShot goes to cleanup_registry without waiting.
SubmitFails(t) ==
    /\ \/ /\ pc[t] = "driver" /\ "submit" \in Faults
          /\ outcome' = [outcome EXCEPT ![cur[t]] = "submit"]
       \/ /\ pc[t] = "stage" /\ "stage" \in Faults
          /\ outcome' = [outcome EXCEPT ![cur[t]] = "stage"]
    /\ pc' = [pc EXCEPT ![t] = "free"]
    /\ UNCHANGED <<global_lock, cur, fence, res, home, pair, cb_freed, gpuVars,
                   poolVars, queueVars, finVars, dest_pc>>

\* Faulty variant: async is passed on, and the thread does not wait.
WaitSkippedMutant(t) ==
    /\ pc[t] = "wait"
    /\ outcome' = [outcome EXCEPT ![cur[t]] = "ok"]
    /\ pc' = [pc EXCEPT ![t] = "free"]
    /\ UNCHANGED <<global_lock, cur, fence, res, home, pair, cb_freed, gpuVars,
                   poolVars, queueVars, finVars, dest_pc>>

\* WaitForFences on the one-shot's own fence, then DestroyFence.
WaitOneShot(t) ==
    /\ pc[t] = "wait"
    /\ work[cur[t]] = "done"
    /\ outcome' = [outcome EXCEPT ![cur[t]] = "ok"]
    /\ pc' = [pc EXCEPT ![t] = "free"]
    /\ UNCHANGED <<global_lock, cur, fence, res, home, pair, cb_freed, gpuVars,
                   poolVars, queueVars, finVars, dest_pc>>

\* The wait fails, and its result is dropped: the one-shot goes on, and
\* returns VK_SUCCESS, whether or not its commands have been executed.
WaitOneShotFails(t) ==
    /\ pc[t] = "wait" /\ "wait" \in Faults
    /\ outcome' = [outcome EXCEPT ![cur[t]] = "unwaited"]
    /\ pc' = [pc EXCEPT ![t] = "free"]
    /\ UNCHANGED <<global_lock, cur, fence, res, home, pair, cb_freed, gpuVars,
                   poolVars, queueVars, finVars, dest_pc>>

\* cleanup_registry: FreeCommandBuffers and DestroyCommandPool.  A batch that
\* never left the command buffer is destroyed with it, under global_lock;
\* destroying its staging buffers asks for that lock again.
FreeCommandBuffers(t) ==
    LET b == cur[t]
        lockedOut == home[b] = "cb" /\ res[b] = "buffers"
    IN  /\ pc[t] = "free"
        /\ Free
        /\ cb_freed' = [cb_freed EXCEPT ![b] = TRUE]
        /\ IF lockedOut
           THEN /\ global_lock' = t
                /\ pc' = [pc EXCEPT ![t] = "stuck"]
                /\ UNCHANGED <<home, cur>>
           ELSE /\ home' = [home EXCEPT ![b] = IF @ = "cb" THEN "gone" ELSE @]
                /\ pc' = [pc EXCEPT ![t] = "idle"]
                /\ cur' = [cur EXCEPT ![t] = NoBatch]
                /\ UNCHANGED global_lock
        /\ UNCHANGED <<fence, res, pair, outcome, gpuVars, poolVars, queueVars,
                       finVars, dest_pc>>

-------------------------------------------------------------------------------
(***************************************************************************)
(* The device.  Submissions may finish in any order their semaphores allow. *)
(***************************************************************************)

FinishWork(b) ==
    /\ work[b] = "pending"
    /\ HostGated => \A t \in Submitters : cur[t] # b
    /\ work' = [work EXCEPT ![b] = "done"]
    /\ sem' = IF signals[b] = NoPair THEN sem ELSE [sem EXCEPT ![signals[b]] = TRUE]
    /\ UNCHANGED <<global_lock, submitterVars, batchVars, signals, stage,
                   signaled, poolVars, queueVars, finVars, dest_pc>>

FinishStage(p) ==
    /\ p \in stage
    /\ sem[p]
    /\ stage' = stage \ {p}
    /\ sem' = [sem EXCEPT ![p] = FALSE]
    /\ signaled' = [signaled EXCEPT ![p] = TRUE]
    /\ UNCHANGED <<global_lock, submitterVars, batchVars, work, signals,
                   poolVars, queueVars, finVars, dest_pc>>

-------------------------------------------------------------------------------
(***************************************************************************)
(* FinalizerThread.                                                        *)
(***************************************************************************)

FinGoto(label) == fin_pc' = label /\ UNCHANGED <<local, fin_cur>>

\* while (!dev->stop_thread)
FinLoop ==
    /\ fin_pc = "loop"
    /\ FinGoto(IF stop_thread THEN "exited" ELSE "check")
    /\ UNCHANGED <<global_lock, submitterVars, batchVars, gpuVars, poolVars,
                   queueVars, dest_pc>>

\* Faulty variant: the vector is copied, not swapped.
FinTakeCopiesMutant ==
    /\ fin_pc = "check"
    /\ Free
    /\ \/ stop_thread /\ FinGoto("exited")
       \/ /\ ~stop_thread
          /\ stagingResourcesQueue # <<>>
          /\ local' = stagingResourcesQueue
          /\ fin_pc' = "drain"
          /\ UNCHANGED fin_cur
    /\ UNCHANGED <<global_lock, submitterVars, batchVars, gpuVars, poolVars,
                   queueVars, dest_pc>>

\* Faulty variant: the predicate does not look at stop_thread.
FinTakeIgnoresStopMutant ==
    /\ fin_pc = "check"
    /\ Free
    /\ stagingResourcesQueue # <<>>
    /\ local' = stagingResourcesQueue
    /\ stagingResourcesQueue' = <<>>
    /\ fin_pc' = "drain"
    /\ UNCHANGED <<fin_cur, global_lock, submitterVars, batchVars, gpuVars,
                   poolVars, stop_thread, dest_pc>>

\* The predicate of wait holds: return if stopping, else swap the queue out.
FinTake ==
    /\ fin_pc = "check"
    /\ Free
    /\ \/ /\ stop_thread
          /\ FinGoto("exited")
          /\ UNCHANGED stagingResourcesQueue
       \/ /\ ~stop_thread
          /\ stagingResourcesQueue # <<>>
          /\ local' = stagingResourcesQueue
          /\ stagingResourcesQueue' = <<>>
          /\ fin_pc' = "drain"
          /\ UNCHANGED fin_cur
    /\ UNCHANGED <<global_lock, submitterVars, batchVars, gpuVars, poolVars,
                   stop_thread, dest_pc>>

\* The predicate does not hold.  The thread still has the lock when it
\* becomes a waiter, which keeps submitters out but not DestroyDevice.
FinDoze ==
    /\ fin_pc = "check"
    /\ Free
    /\ ~stop_thread /\ stagingResourcesQueue = <<>>
    /\ global_lock' = Finalizer
    /\ FinGoto("dozing")
    /\ UNCHANGED <<submitterVars, batchVars, gpuVars, poolVars, queueVars, dest_pc>>

FinSleep ==
    /\ fin_pc = "dozing"
    /\ global_lock' = Nobody
    /\ FinGoto("asleep")
    /\ UNCHANGED <<submitterVars, batchVars, gpuVars, poolVars, queueVars, dest_pc>>

\* A condition variable may wake without a notification.
SpuriousWake ==
    /\ fin_pc = "asleep"
    /\ FinGoto("check")
    /\ UNCHANGED <<global_lock, submitterVars, batchVars, gpuVars, poolVars,
                   queueVars, dest_pc>>

\* while (!queue.empty()): the batch that was queued last comes first.  When
\* stopping, the thread returns and its vector goes out of scope.
FinNext ==
    /\ fin_pc = "drain"
    /\ \/ local = <<>> /\ FinGoto("loop")
       \/ local # <<>> /\ stop_thread /\ FinGoto("discard")
       \/ /\ local # <<>>
          /\ ~stop_thread
          /\ fin_cur' = local[Len(local)]
          /\ local' = SubSeq(local, 1, Len(local) - 1)
          /\ fin_pc' = "waitFence"
    /\ UNCHANGED <<global_lock, submitterVars, batchVars, gpuVars, poolVars,
                   queueVars, dest_pc>>

\* Faulty variant: the fence is not waited for.
FinWaitSkippedMutant ==
    /\ fin_pc = "waitFence"
    /\ FinGoto("cleanup")
    /\ UNCHANGED <<global_lock, submitterVars, batchVars, gpuVars, poolVars,
                   queueVars, dest_pc>>

\* WaitForCompletion, without a time limit.
FinWait ==
    /\ fin_pc = "waitFence"
    /\ signaled[pair[fin_cur]]
    /\ FinGoto("cleanup")
    /\ UNCHANGED <<global_lock, submitterVars, batchVars, gpuVars, poolVars,
                   queueVars, dest_pc>>

\* The wait fails: it is logged, and the clean-up follows all the same.
FinWaitFails ==
    /\ fin_pc = "waitFence" /\ "fence" \in Faults
    /\ spoiled' = spoiled \cup {pair[fin_cur]}
    /\ FinGoto("cleanup")
    /\ UNCHANGED <<global_lock, submitterVars, batchVars, gpuVars, free_pairs,
                   created, drained, queueVars, dest_pc>>

\* StagingResources::Cleanup: the pair goes back to the pool under the lock,
\* and the resources are destroyed.
Cleanup(b) ==
    /\ Free
    /\ free_pairs' = free_pairs \cup {pair[b]}
    /\ pair' = [pair EXCEPT ![b] = NoPair]
    /\ home' = [home EXCEPT ![b] = "gone"]

FinCleanup ==
    /\ fin_pc = "cleanup"
    /\ Cleanup(fin_cur)
    /\ fin_cur' = NoBatch
    /\ fin_pc' = "drain"
    /\ UNCHANGED <<global_lock, submitterVars, res, outcome, cb_freed, gpuVars,
                   created, spoiled, drained, queueVars, local, dest_pc>>

\* The vector's destructor runs Cleanup on what is left of it, unwaited.
FinDiscard ==
    /\ fin_pc = "discard"
    /\ IF local = <<>>
       THEN /\ FinGoto("exited")
            /\ UNCHANGED <<home, pair, free_pairs>>
       ELSE /\ Cleanup(local[Len(local)])
            /\ local' = SubSeq(local, 1, Len(local) - 1)
            /\ UNCHANGED <<fin_pc, fin_cur>>
    /\ UNCHANGED <<global_lock, submitterVars, res, outcome, cb_freed, gpuVars,
                   created, spoiled, drained, queueVars, dest_pc>>

-------------------------------------------------------------------------------
(***************************************************************************)
(* DestroyDevice.  Vulkan lets the application call it when no other call  *)
(* on the device is in progress.                                           *)
(***************************************************************************)

DestGoto(from, to) == dest_pc = from /\ dest_pc' = to

\* get_device, under the lock.
DestroyLookup ==
    /\ DestGoto("none", "stop")
    /\ \A t \in Submitters : pc[t] = "idle"
    /\ Free
    /\ UNCHANGED <<global_lock, submitterVars, batchVars, gpuVars, poolVars,
                   queueVars, finVars>>

\* The flag is set after the unlock, maybe while the finalizer falls asleep.
DestroyStop ==
    /\ DestGoto("stop", "notify")
    /\ stop_thread' = TRUE
    /\ UNCHANGED <<global_lock, submitterVars, batchVars, gpuVars, poolVars,
                   stagingResourcesQueue, finVars>>

DestroyNotify ==
    /\ DestGoto("notify", "waitIdle")
    /\ Wake
    /\ UNCHANGED <<global_lock, submitterVars, batchVars, gpuVars, poolVars,
                   queueVars, local, fin_cur>>

\* Faulty variant: DeviceWaitIdle is left out.
DestroyNoWaitMutant ==
    /\ DestGoto("waitIdle", "join")
    /\ drained' = TRUE
    /\ UNCHANGED <<global_lock, submitterVars, batchVars, gpuVars, free_pairs,
                   created, spoiled, queueVars, finVars>>

\* DeviceWaitIdle returns when no submission is pending.
DestroyWaitIdle ==
    /\ DestGoto("waitIdle", "join")
    /\ stage = {}
    /\ \A b \in Batches : work[b] # "pending"
    /\ drained' = TRUE
    /\ UNCHANGED <<global_lock, submitterVars, batchVars, gpuVars, free_pairs,
                   created, spoiled, queueVars, finVars>>

\* It fails, and its result is not looked at either.
DestroyWaitFails ==
    /\ "idle" \in Faults
    /\ DestGoto("waitIdle", "join")
    /\ UNCHANGED <<global_lock, submitterVars, batchVars, gpuVars, poolVars,
                   queueVars, finVars>>

DestroyJoin ==
    /\ DestGoto("join", "teardown")
    /\ fin_pc = "exited"
    /\ UNCHANGED <<global_lock, submitterVars, batchVars, gpuVars, poolVars,
                   queueVars, finVars>>

\* The last critical section.  Cleaning up a batch that is still queued asks
\* for global_lock while holding it; otherwise the SyncPool is destroyed.
DestroyTeardown ==
    /\ Free
    /\ IF stagingResourcesQueue = <<>>
       THEN /\ DestGoto("teardown", "gone")
            /\ free_pairs' = {}
            /\ UNCHANGED global_lock
       ELSE /\ DestGoto("teardown", "stuck")
            /\ global_lock' = Destroyer
            /\ UNCHANGED free_pairs
    /\ UNCHANGED <<submitterVars, batchVars, gpuVars, created, spoiled, drained,
                   queueVars, finVars>>

-------------------------------------------------------------------------------
Submitting(t) ==
    \/ \E b \in Batches : Record(t, b)
    \/ QueueSubmit(t) \/ Notify(t) \/ DriverSubmit(t) \/ StageSubmit(t)
    \/ SubmitFails(t) \/ WaitOneShot(t) \/ WaitOneShotFails(t)
    \/ FreeCommandBuffers(t)

Device ==
    \/ \E b \in Batches : FinishWork(b)
    \/ \E p \in Pairs : FinishStage(p)

Finalizing ==
    FinLoop \/ FinTake \/ FinDoze \/ FinSleep \/ FinNext \/ FinWait
    \/ FinCleanup \/ FinDiscard

Destroying ==
    DestroyLookup \/ DestroyStop \/ DestroyNotify \/ DestroyWaitIdle
    \/ DestroyJoin \/ DestroyTeardown

Next ==
    \/ \E t \in Submitters : Submitting(t)
    \/ Device
    \/ Finalizing
    \/ FinWaitFails
    \/ SpuriousWake
    \/ Destroying
    \/ DestroyWaitFails

Spec == Init /\ [][Next]_vars

\* Threads are scheduled and get a lock that is free again and again; the
\* device finishes what it is given.  Nobody has to start a one-shot or to
\* destroy the device, no call has to fail and no wake-up is free.
Fairness ==
    /\ \A t \in Submitters :
         /\ WF_vars(Notify(t) \/ DriverSubmit(t) \/ StageSubmit(t) \/ WaitOneShot(t))
         /\ SF_vars(QueueSubmit(t) \/ FreeCommandBuffers(t))
    /\ WF_vars(Device)
    /\ WF_vars(Finalizing)
    /\ SF_vars(FinTake)
    /\ WF_vars(DestroyStop \/ DestroyNotify \/ DestroyWaitIdle \/ DestroyJoin)
    /\ SF_vars(DestroyTeardown)

FairSpec == Spec /\ Fairness

-------------------------------------------------------------------------------
RangeOf(s) == {s[i] : i \in DOMAIN s}

\* Every variable holds what its declaration in the code admits; in particular
\* nothing but pairs that Acquire made goes on the SyncPool's stacks.
TypeOK ==
    /\ global_lock \in Submitters \cup {Nobody, Finalizer, Destroyer}
    /\ pc \in [Submitters -> {"idle", "submit", "notify", "driver", "stage",
                              "wait", "free", "stuck"}]
    /\ cur \in [Submitters -> Batches \cup {NoBatch}]
    /\ fence \in [Submitters -> Pairs \cup {NoPair}]
    /\ res \in [Batches -> {"none", "buffers", "others"}]
    /\ home \in [Batches -> {"unused", "cb", "reclaim", "gone"}]
    /\ pair \in [Batches -> Pairs \cup {NoPair}]
    /\ outcome \in [Batches -> {"none", "ok", "record", "submit", "stage",
                               "unwaited"}]
    /\ cb_freed \in [Batches -> BOOLEAN]
    /\ work \in [Batches -> {"unsubmitted", "pending", "done"}]
    /\ signals \in [Batches -> Pairs \cup {NoPair}]
    /\ stage \in SUBSET Pairs
    /\ sem \in [Pairs -> BOOLEAN]
    /\ signaled \in [Pairs -> BOOLEAN]
    /\ free_pairs \in SUBSET Pairs
    /\ created \in SUBSET Pairs
    /\ spoiled \in SUBSET Pairs
    /\ drained \in BOOLEAN
    /\ stagingResourcesQueue \in Seq(Batches)
    /\ stop_thread \in BOOLEAN
    /\ fin_pc \in {"loop", "check", "dozing", "asleep", "drain", "waitFence",
                   "cleanup", "discard", "exited"}
    /\ local \in Seq(Batches)
    /\ fin_cur \in Batches \cup {NoBatch}
    /\ dest_pc \in {"none", "stop", "notify", "waitIdle", "join", "teardown", "stuck",
                    "gone"}

\* What SubmitOneShot returns although it has not seen the end of the work: its
\* second submission failed (queue.cpp leaves at once), or its wait did.
GivenUp == {"stage", "unwaited"}

\* Commands the device may still execute keep their command buffer and their
\* staging resources, whichever thread gets to free them first.  A one-shot
\* that gave up loses the command buffer, and when the device is destroyed the
\* resources too; until then the finalizer keeps them.  A failed wait of the
\* finalizer costs the batches that use the pair it was for, and no other.
PendingWorkKept ==
    \A b \in Batches : work[b] = "pending" =>
        /\ outcome[b] \notin GivenUp => ~cb_freed[b]
        /\ /\ res[b] # "none" /\ signals[b] \notin spoiled
           /\ outcome[b] \notin GivenUp \/ ~stop_thread
           => home[b] = "reclaim"

\* The device has nothing left to do with pair p.
Idle(p) ==
    /\ p \notin stage
    /\ \A b \in Batches : work[b] = "pending" => signals[b] # p

\* A pair that waits to be reused is one Acquire may reset and a submission
\* may signal: no submission refers to it and its semaphore is unsignaled,
\* unless a call for this very pair failed.  When the pool is destroyed, the
\* device is done with every pair, unless DeviceWaitIdle failed.
FreePairsQuiet ==
    /\ ~stop_thread => \A p \in free_pairs \ spoiled : Idle(p) /\ ~sem[p]
    /\ dest_pc \in {"teardown", "stuck"} /\ drained => \A p \in created : Idle(p)

\* Every pair ever created is in the pool or in one batch, never in both and
\* never in two batches, until the pool is destroyed.
PairsExclusive ==
    /\ \A p \in free_pairs : \A b \in Batches : pair[b] # p
    /\ \A b, c \in Batches : b # c /\ pair[b] = pair[c] => pair[b] = NoPair
    /\ dest_pc # "gone" =>
         created = free_pairs \cup ({pair[b] : b \in Batches} \ {NoPair})

\* A queued batch is in one place: the device's queue, the finalizer's vector
\* or its hands; nothing else is in them.
QueuedOnce ==
    LET q == stagingResourcesQueue \o local \o
               (IF fin_cur = NoBatch THEN <<>> ELSE <<fin_cur>>)
    IN  /\ RangeOf(q) = {b \in Batches : home[b] = "reclaim"}
        /\ Cardinality(RangeOf(q)) = Len(q)

\* The finalizer does not sleep beside a queue nobody is going to tell it of.
WakeUpKept ==
    fin_pc = "asleep" /\ stagingResourcesQueue # <<>> =>
        \E t \in Submitters : pc[t] = "notify"

\* The fence of a queued batch is signaled, or its signal is on the way from
\* the device or from the thread that submits the batch; unless the driver has
\* refused one of the submissions, or a call for its pair has failed.
FenceComes ==
    \A b \in Batches : home[b] = "reclaim" =>
        \/ signaled[pair[b]]
        \/ /\ pair[b] \in stage
           /\ sem[pair[b]] \/ \E c \in Batches : work[c] = "pending" /\ signals[c] = pair[b]
        \/ \E t \in Submitters : cur[t] = b /\ pc[t] \in {"notify", "driver", "stage"}
        \/ outcome[b] \in {"submit", "stage"}
        \/ pair[b] \in spoiled

\* What is queued is found by the finalizer, once, with a fence that it does not
\* wait for in vain.
QueueServed == QueuedOnce /\ WakeUpKept /\ FenceComes

-------------------------------------------------------------------------------
\* A submission failed, or a call for a pair that is used again, or a thread
\* locked itself out: known dead ends.
Broken ==
    \/ \E b \in Batches : outcome[b] \in {"submit", "stage"}
    \/ spoiled # {}
    \/ \E t \in Submitters : pc[t] = "stuck"

\* What a one-shot leaves behind is reclaimed while the device lives, unless
\* one of the known dead ends is reached.
QueuedReclaimed ==
    \A b \in Batches :
        home[b] = "reclaim" ~> home[b] = "gone" \/ stop_thread \/ Broken

\* A one-shot returns to its caller, unless a thread locked itself out.
OneShotReturns ==
    \A t \in Submitters :
        pc[t] # "idle" ~> pc[t] = "idle" \/ \E u \in Submitters : pc[u] = "stuck"

\* DestroyDevice returns, but for two ways to hang: its notification came
\* between the finalizer's test and its sleep, or batches were still queued.
DestroyReturns ==
    dest_pc # "none" ~> \/ dest_pc \in {"gone", "stuck"}
                        \/ dest_pc = "join" /\ fin_pc = "asleep"
                        \/ Broken

\* "Submit an empty command buffer to queue the tmp sem and signal the
\* resource completed fence" (queue.cpp:364): the fence the finalizer waits
\* for is signaled.
CompletedFenceSignaled ==
    \A b \in Batches :
        fin_cur = b /\ fin_pc = "waitFence" ~> fin_pc # "waitFence"

\* "We don't need to wait for the submit to complete, so just signal
\* directly" (queue.cpp:109): a bind returns although the device cannot
\* finish it before the application's next call.
AsyncOneShotReturns == \A t \in Submitters : pc[t] # "idle" ~> pc[t] = "idle"

\* The life of each batch as BatchLifetime sees it.  A batch is abandoned
\* when its one-shot gave up, or when a call for the pair it holds failed.
Phase ==
    [b \in Batches |->
        IF home[b] = "unused" THEN "unused"
        ELSE IF home[b] = "gone" /\ res[b] # "none" THEN "reclaimed"
        ELSE IF outcome[b] \in GivenUp \/ pair[b] \in spoiled THEN "abandoned"
        ELSE IF work[b] = "unsubmitted" THEN "recorded"
        ELSE IF work[b] = "pending" THEN "executing" ELSE "finished"]

Lifetime ==
    INSTANCE BatchLifetime WITH
        phase <- Phase, MayFail <- Faults \cap {"stage", "pair", "wait", "fence"} # {}

LifetimeSpec == Lifetime!Spec
===============================================================================
