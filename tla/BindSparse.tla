------------------------------ MODULE BindSparse ------------------------------
(***************************************************************************)
(* vkQueueBindSparse as sparse_binding.cpp emulates it.                    *)
(*                                                                         *)
(* The bind infos of a call become one-shots (SubmitOneShot, queue.cpp),   *)
(* chained by intermediate semaphores: info k signals one and info k+1     *)
(* waits for it.  The last one-shot carries the application's fence, and   *)
(* takes all intermediate semaphores with it as staging resources; the     *)
(* finalizer thread destroys them once it has executed.  StagingReclaim    *)
(* has the inside of a one-shot; here it is submitted, waited for and      *)
(* followed by an empty submission for the fence, and each step may fail.  *)
(* A failed vkWaitForFences is ignored: the call goes on, and the          *)
(* finalizer destroys what the work uses.  Such work is still executed; a  *)
(* device that does otherwise with destroyed objects is left out.          *)
(*                                                                         *)
(* A bind copies the memory into the buffer's shadow, or clears it when    *)
(* the memory is null.  There is one emulated buffer of Size bytes and one *)
(* emulated image.  Byte i of memory m is the pair <<m, i>>: the memory is *)
(* filled before it is bound.  The application has one queue and one       *)
(* fence, which it waits for before its next call.                         *)
(***************************************************************************)
EXTENDS Naturals, Sequences

CONSTANTS
    Calls,              \* the calls the application may make
    MaxCalls,           \* bound: how many of them it makes
    AppSemaphores,      \* semaphores of the application
    StagingSemaphores,  \* handles the driver has for intermediate ones
    NoSemaphore, NoMemory,
    Size,               \* virtualSize of the buffer
    Alignment,          \* its pageGranularity
    Faults              \* what may fail: "semaphore", "staging", "record",
                        \* "submit", "stage", "wait", "fence", and the
                        \* finalizer's wait, "reclaim"

\* GetSparseBufferMemoryRequirements: whole pages, which the application binds.
RequiredSize == ((Size + Alignment - 1) \div Alignment) * Alignment

ASSUME SparseAssumption ==
    /\ Size \in Nat \ {0} /\ Alignment \in Nat \ {0} /\ MaxCalls \in Nat
    /\ AppSemaphores \cap StagingSemaphores = {}
    /\ NoSemaphore \notin AppSemaphores \cup StagingSemaphores
    /\ \A c \in Calls : \A i \in DOMAIN c.infos : \A bind \in c.infos[i].bufferBinds :
          bind.offset + bind.size <= RequiredSize

\* A call is given an array of infos, with semaphores of the application.
ASSUME CallsAssumption ==
    \A c \in Calls :
        /\ c.fence \in BOOLEAN
        /\ c.infos \in Seq({c.infos[i] : i \in DOMAIN c.infos})
        /\ \A i \in DOMAIN c.infos :
              /\ c.infos[i].waits \cup c.infos[i].signals \subseteq AppSemaphores
              /\ c.infos[i].imageBinds \in
                    Seq({c.infos[i].imageBinds[j] : j \in DOMAIN c.infos[i].imageBinds})

VARIABLES
    pc,                  \* next step of the calling thread
    call, count,         \* its call, and how many it has made
    b,                   \* the bind info it is at
    next_semaphore, prev_semaphore, stagingSemaphores,
    cmds, carried,       \* one-shot: the binds it does, the semaphores it takes
                         \* along, and whether it holds staging buffers
    buffers,
    fence,               \* the application's fence
    live,                \* intermediate semaphores that exist
    batches,             \* staging resources on their way to the finalizer
    pending, executed,   \* device: submissions, and those executed, in order
    sem,                 \* device: payloads of the semaphores
    shadow, image,       \* device: contents of the buffer and of the image
    imageResident,       \* member of dense_sparse_resource
    failed,              \* history: calls that have returned an error
    wanted,              \* history: what sparse binding shows in the buffer
    missed, suspect,     \* history: bytes not shown for a reason named below
    unwaited,            \* history: calls that went on after a failed wait
    unkept               \* history: calls the finalizer did not wait for

callVars    == <<call, count, b, next_semaphore, prev_semaphore, stagingSemaphores>>
shotVars    == <<cmds, carried, buffers>>
deviceVars  == <<pending, executed, sem, shadow, image>>
historyVars == <<failed, wanted, missed, suspect, unwaited, unkept>>
bindVars == <<pc, callVars, shotVars, fence, live, batches, deviceVars,
              imageResident, historyVars>>

Bytes == 0 .. Size - 1
Zero  == <<NoMemory, 0>>      \* a cleared byte
Info  == call.infos[b]
finalBind == b = Len(call.infos)

BindInit ==
    /\ pc = "idle"
    /\ call = [infos |-> <<>>, fence |-> FALSE]
    /\ count = 0
    /\ b = 0
    /\ next_semaphore = NoSemaphore
    /\ prev_semaphore = NoSemaphore
    /\ stagingSemaphores = {}
    /\ cmds = {}
    /\ carried = {}
    /\ buffers = FALSE
    /\ fence = "unsignaled"
    /\ live = {}
    /\ batches = {}
    /\ pending = {}
    /\ executed = <<>>
    /\ sem = [s \in AppSemaphores \cup StagingSemaphores |-> FALSE]
    /\ shadow = [x \in Bytes |-> Zero]
    /\ image = "fresh"
    /\ imageResident = FALSE
    /\ failed = {}
    /\ wanted = [x \in Bytes |-> Zero]
    /\ missed = {}
    /\ suspect = {}
    /\ unwaited = {}
    /\ unkept = {}

-------------------------------------------------------------------------------
(***************************************************************************)
(* The binds of one info.                                                  *)
(***************************************************************************)

\* The bytes of the buffer in the range of a bind.
Covered(bind) == {x \in Bytes : bind.offset <= x /\ x < bind.offset + bind.size}

\* The range is passed on as it is: at the last page it may reach past the
\* buffer, which has only virtualSize bytes, and the fill or the copy is invalid.
\* It does its part in the buffer or nothing; what it does beyond is left out.
Overruns(bind) == bind.offset + bind.size > Size

\* Faulty variant: metadata binds are not skipped.
EffectiveMutant(bind) == bind.tracked

\* RecordBufferBinds does nothing for a buffer it does not know and for a
\* metadata bind.
Effective(bind) == bind.tracked /\ ~bind.metadata

\* A bind of memory needs a staging buffer over that memory.
NeedsStaging(bind) == Effective(bind) /\ bind.memory # NoMemory

\* Vulkan binds a range of a resource only once in an info, so the order of its
\* binds, between which nothing waits, does not matter: they are a set.
Covering(binds, x) == {bind \in binds : x \in Covered(bind)}

ASSUME BatchAssumption ==
    \A c \in Calls : \A i \in DOMAIN c.infos : \A x \in Bytes :
        \A bind, other \in Covering(c.infos[i].bufferBinds, x) :
            Effective(bind) /\ Effective(other) => bind = other

\* The byte of the memory, used from its byte first on, that a bind shows at x.
Source(bind, first, x) ==
    IF bind.memory = NoMemory THEN Zero ELSE <<bind.memory, first + x - bind.offset>>

\* What commands leave in the buffer: each bind is a fill (RecordClearResource)
\* or a copy of the memory from its first byte, whatever bind.memoryOffset is.
Write(contents, binds) ==
    [x \in Bytes |->
        IF Covering(binds, x) = {} THEN contents[x]
        ELSE Source(CHOOSE bind \in Covering(binds, x) : TRUE, 0, x)]

\* What sparse binding shows after the binds.
Show(contents, binds) ==
    LET bound == {bind \in binds : bind.tracked /\ ~bind.metadata}
    IN  [x \in Bytes |->
            IF Covering(bound, x) = {} THEN contents[x]
            ELSE LET bind == CHOOSE bind \in Covering(bound, x) : TRUE
                 IN  Source(bind, bind.memoryOffset, x)]

\* RecordImageOpaqueBinds: each null bind clears the image, all of it; the
\* last bind decides whether it counts as resident.  No bind copies anything.
ClearsImage(binds) == \E i \in DOMAIN binds : binds[i] = NoMemory
Resident(binds) ==
    IF binds = <<>> THEN imageResident ELSE binds[Len(binds)] # NoMemory

-------------------------------------------------------------------------------
(***************************************************************************)
(* The calling thread.                                                     *)
(***************************************************************************)

AllSignals(c) == UNION {c.infos[i].signals : i \in DOMAIN c.infos}
AllWaits(c)   == UNION {c.infos[i].waits : i \in DOMAIN c.infos}
Touched(c) ==
    UNION {UNION {Covered(bind) : bind \in c.infos[i].bufferBinds} : i \in DOMAIN c.infos}

\* vkQueueBindSparse is called, as Vulkan allows it: the fence is not in use
\* and nothing else waits for or signals the semaphores.
QueueBindSparse(c) ==
    /\ pc = "idle" /\ count < MaxCalls
    /\ fence # "queued"
    /\ \A s \in AllSignals(c) : ~sem[s]
    /\ \A w \in pending : (w.waits \cup w.signals) \cap (AllWaits(c) \cup AllSignals(c)) = {}
    /\ call' = c
    /\ count' = count + 1
    /\ b' = 1
    /\ prev_semaphore' = NoSemaphore
    /\ next_semaphore' = NoSemaphore
    /\ stagingSemaphores' = {}
    /\ fence' = "unsignaled"
    /\ pc' = IF c.infos = <<>> THEN "idle" ELSE "prepare"
    /\ UNCHANGED <<shotVars, live, batches, deviceVars, imageResident, historyVars>>

\* The call returns an error: what it touched shows nothing in particular.
Fail ==
    /\ pc' = "idle"
    /\ failed' = failed \cup {count}
    /\ suspect' = suspect \cup Touched(call)
    /\ UNCHANGED <<callVars, wanted, missed, unwaited, unkept>>

Intermediate(w) == (w.waits \cup w.signals) \cap StagingSemaphores

\* CreateSemaphore for every info but the last.  A handle that pending work still
\* refers to after a failed wait, though destroyed, is not given out again.
Prepare ==
    /\ pc = "prepare"
    /\ pc' = "record"
    /\ IF finalBind
       THEN /\ next_semaphore' = NoSemaphore
            /\ UNCHANGED <<stagingSemaphores, live, sem>>
       ELSE \E s \in StagingSemaphores \ live :
            /\ \A w \in pending : s \notin Intermediate(w)
            /\ next_semaphore' = s
            /\ live' = live \cup {s}
            /\ sem' = [sem EXCEPT ![s] = FALSE]
            /\ stagingSemaphores' = stagingSemaphores \cup {s}
    /\ UNCHANGED <<call, count, b, prev_semaphore, shotVars, fence, batches, pending,
                   executed, shadow, image, imageResident, historyVars>>

\* It fails, and the call returns at once.
PrepareFails ==
    /\ pc = "prepare" /\ ~finalBind
    /\ "semaphore" \in Faults
    /\ Fail
    /\ UNCHANGED <<shotVars, fence, live, batches, deviceVars, imageResident>>

\* Faulty variant: every one-shot takes along the semaphores there are so far.
HandOverMutant == stagingSemaphores

\* The last one-shot takes all intermediate semaphores along.
HandOver == IF finalBind THEN stagingSemaphores ELSE {}

\* SubmitOneShot records the info's binds.  A bind whose staging buffer cannot be
\* made is left out, and the call goes on.
Record ==
    LET binds == {bind \in Info.bufferBinds : Effective(bind)}
        copies == {bind \in binds : NeedsStaging(bind)}
    IN
    /\ pc = "record"
    /\ pc' = "submit"
    /\ carried' = HandOver
    /\ \E lost \in IF "staging" \in Faults THEN SUBSET copies ELSE {{}},
          void \in SUBSET {bind \in binds : Overruns(bind)} :
        /\ cmds' = binds \ (lost \cup void)
        /\ buffers' = (copies # lost)
        /\ missed' = {x \in Bytes :
              LET bound == Covering(binds, x)
              IN  IF bound = {} THEN x \in missed
                  ELSE \E bind \in bound :
                          \/ bind \in lost \/ Overruns(bind)
                          \/ NeedsStaging(bind) /\ bind.memoryOffset # 0}
    /\ wanted' = Show(wanted, Info.bufferBinds)
    /\ imageResident' = Resident(Info.imageBinds)
    /\ UNCHANGED <<callVars, fence, live, batches, deviceVars, failed, suspect,
                   unwaited, unkept>>

\* A call before the submission fails, before the binds are recorded or after.
\* The staging resources are destroyed with the command buffer, under a lock
\* that destroying their staging buffers asks for again.
RecordFails ==
    /\ "record" \in Faults
    /\ \/ pc = "record" /\ Fail /\ UNCHANGED live
       \/ pc = "submit" /\ ~buffers /\ Fail /\ live' = live \ carried
       \/ /\ pc = "submit" /\ buffers
          /\ pc' = "stuck"
          /\ UNCHANGED <<callVars, live, historyVars>>
    /\ UNCHANGED <<shotVars, fence, batches, deviceVars, imageResident>>

Some(s) == {s} \ {NoSemaphore}

\* Faulty variant: an info waits for the semaphore it signals itself.
SubmissionMutant ==
    [call |-> count, info |-> b, cmds |-> cmds, clears |-> ClearsImage(Info.imageBinds),
     waits |-> Info.waits \cup Some(next_semaphore),
     signals |-> Info.signals \cup Some(next_semaphore)]

\* The one-shot's submission; timeline values and other pNext data of the bind
\* info are not in it.
Submission ==
    [call |-> count, info |-> b, cmds |-> cmds, clears |-> ClearsImage(Info.imageBinds),
     waits |-> Info.waits \cup Some(prev_semaphore),
     signals |-> Info.signals \cup Some(next_semaphore)]

\* Staging resources are queued for the finalizer when there are any.
Queued(fenced) ==
    batches' = IF carried = {} /\ ~buffers THEN batches
               ELSE batches \cup {[call |-> count, info |-> b, sems |-> carried,
                                    fenced |-> fenced]}

\* The layer's QueueSubmit, with the second submission for the finalizer.
Submit ==
    /\ pc = "submit"
    /\ pc' = "wait"
    /\ pending' = pending \cup {Submission}
    /\ Queued(TRUE)
    /\ UNCHANGED <<callVars, shotVars, fence, live, executed, sem, shadow, image,
                   imageResident, historyVars>>

\* The driver refuses the first, or only the second: the binds will be
\* executed although the call returns an error.
SubmitFails ==
    /\ pc = "submit"
    /\ \/ /\ "submit" \in Faults
          /\ UNCHANGED pending
       \/ /\ "stage" \in Faults
          /\ buffers \/ carried # {}
          /\ pending' = pending \cup {Submission}
    /\ Queued(FALSE)
    /\ Fail
    /\ UNCHANGED <<shotVars, fence, live, executed, sem, shadow, image, imageResident>>

Executed(c, i) == \E k \in DOMAIN executed : executed[k] = <<c, i>>

\* Faulty variant: the fence goes with every one-shot.
signalFenceMutant == call.fence

\* signalFence: the application's fence goes with the last one-shot.
signalFence == finalBind /\ call.fence

\* The loop goes on to the next info, or returns VK_SUCCESS.
Advance ==
    /\ pc' = IF finalBind THEN "idle" ELSE "prepare"
    /\ b' = IF finalBind THEN b ELSE b + 1
    /\ prev_semaphore' = IF finalBind THEN prev_semaphore ELSE next_semaphore
    /\ UNCHANGED <<call, count, next_semaphore, stagingSemaphores>>

\* After vkWaitForFences on the one-shot's own fence, whatever its result.
Waited ==
    /\ pc = "wait"
    /\ IF signalFence THEN /\ pc' = "fence"
                           /\ UNCHANGED callVars
                      ELSE Advance
    /\ UNCHANGED <<shotVars, fence, live, batches, deviceVars, imageResident>>

Wait ==
    /\ Executed(count, b)
    /\ Waited
    /\ UNCHANGED historyVars

\* It fails, and the binds are still to be executed.
WaitFails ==
    /\ "wait" \in Faults
    /\ ~Executed(count, b)
    /\ Waited
    /\ unwaited' = unwaited \cup {count}
    /\ suspect' = suspect \cup Touched(call)
    /\ UNCHANGED <<failed, wanted, missed, unkept>>

\* The empty submission that signals the application's fence.
SignalFence ==
    /\ pc = "fence"
    /\ fence' = "queued"
    /\ Advance
    /\ UNCHANGED <<shotVars, live, batches, deviceVars, imageResident, historyVars>>

\* The driver refuses it: all binds are done and the call returns an error.
SignalFenceFails ==
    /\ pc = "fence" /\ "fence" \in Faults
    /\ Fail
    /\ UNCHANGED <<shotVars, fence, live, batches, deviceVars, imageResident>>

-------------------------------------------------------------------------------
(***************************************************************************)
(* The device, the finalizer, and the rest of the application.             *)
(***************************************************************************)

\* The device executes a submission whose semaphores are signaled.
Execute(w) ==
    /\ w \in pending
    /\ \A s \in w.waits : sem[s]
    /\ pending' = pending \ {w}
    /\ executed' = Append(executed, <<w.call, w.info>>)
    /\ sem' = [s \in DOMAIN sem |-> s \in w.signals \/ (sem[s] /\ s \notin w.waits)]
    /\ shadow' = Write(shadow, w.cmds)
    /\ image' = IF w.clears THEN "zero" ELSE image
    /\ UNCHANGED <<pc, callVars, shotVars, fence, live, batches, imageResident, historyVars>>

\* A fence is signaled after all submissions before it.
ExecuteFence ==
    /\ fence = "queued"
    /\ pending = {}
    /\ fence' = "signaled"
    /\ UNCHANGED <<pc, callVars, shotVars, live, batches, deviceVars, imageResident,
                   historyVars>>

\* The finalizer destroys the semaphores of a one-shot that is done.
Reclaim(x) ==
    /\ x \in batches
    /\ x.fenced /\ Executed(x.call, x.info)
    /\ batches' = batches \ {x}
    /\ live' = live \ x.sems
    /\ UNCHANGED <<pc, callVars, shotVars, fence, deviceVars, imageResident, historyVars>>

\* Its wait fails while the one-shot is still to be executed: it destroys the
\* semaphores and the staging buffers all the same.
ReclaimFails(x) ==
    /\ x \in batches /\ "reclaim" \in Faults
    /\ ~Executed(x.call, x.info)
    /\ batches' = batches \ {x}
    /\ live' = live \ x.sems
    /\ unkept' = unkept \cup {x.call}
    /\ suspect' = suspect \cup UNION {UNION {Covered(bind) : bind \in w.cmds} :
                                         w \in {w \in pending : w.call = x.call /\ w.info = x.info}}
    /\ UNCHANGED <<pc, callVars, shotVars, fence, deviceVars, imageResident, failed, wanted,
                   missed, unwaited>>

\* Other queues and threads of the application signal and use its semaphores,
\* those of the current call excepted where Vulkan forbids it.
AppSignal(s) ==
    /\ ~sem[s]
    /\ pc = "idle" \/ s \notin AllSignals(call)
    /\ \A w \in pending : s \notin w.signals
    /\ sem' = [sem EXCEPT ![s] = TRUE]
    /\ UNCHANGED <<pc, callVars, shotVars, fence, live, batches, pending, executed,
                   shadow, image, imageResident, historyVars>>

AppConsume(s) ==
    /\ sem[s]
    /\ pc = "idle" \/ s \notin AllWaits(call)
    /\ \A w \in pending : s \notin w.waits
    /\ sem' = [sem EXCEPT ![s] = FALSE]
    /\ UNCHANGED <<pc, callVars, shotVars, fence, live, batches, pending, executed,
                   shadow, image, imageResident, historyVars>>

\* The application draws into the image while it is bound.
AppDraws ==
    /\ pc = "idle" /\ imageResident
    /\ image' = "drawn"
    /\ UNCHANGED <<pc, callVars, shotVars, fence, live, batches, pending, executed,
                   sem, shadow, imageResident, historyVars>>

-------------------------------------------------------------------------------

Thread ==
    \/ Prepare \/ PrepareFails \/ Record \/ RecordFails
    \/ Submit \/ SubmitFails \/ Wait \/ SignalFence \/ SignalFenceFails

BindNext ==
    \/ \E c \in Calls : QueueBindSparse(c)
    \/ Thread
    \/ WaitFails
    \/ \E w \in pending : Execute(w)
    \/ ExecuteFence
    \/ \E x \in batches : Reclaim(x) \/ ReclaimFails(x)
    \/ \E s \in AppSemaphores : AppSignal(s) \/ AppConsume(s)
    \/ AppDraws

\* The thread runs, the device executes what it can, and what a submission waits
\* for is signaled in time (Vulkan wants binary semaphores signaled by earlier
\* submissions).
Awaited(s) == \E w \in pending : s \in w.waits
Fairness ==
    /\ WF_bindVars(Thread)
    /\ WF_bindVars(\E w \in pending : Execute(w))
    /\ \A s \in AppSemaphores : WF_bindVars(Awaited(s) /\ AppSignal(s))

BindSpec == BindInit /\ [][BindNext]_bindVars /\ Fairness

-------------------------------------------------------------------------------

AllExecuted == \A i \in DOMAIN call.infos : Executed(count, i)

\* The infos of a call take effect once each and in the order of the array,
\* even when waits for them fail, and after those of earlier calls, except what
\* a call left pending that returned an error or went on after a failed wait.
\* Any other call has done all of them when it returns.  The fence it was given is
\* signaled neither before nor never (with no info at all it is never).
BindsOrdered ==
    /\ \A i, j \in DOMAIN executed : i < j =>
          IF executed[i][1] = executed[j][1] THEN executed[i][2] < executed[j][2]
          ELSE executed[i][1] < executed[j][1] \/ executed[j][1] \in failed \cup unwaited
    /\ pc = "idle" /\ count \notin failed \cup unwaited => AllExecuted
    /\ fence = "signaled" => AllExecuted
    /\ pc = "idle" /\ count \notin failed /\ call.fence /\ call.infos # <<>>
          => fence # "unsignaled"

\* An intermediate semaphore outlives every submission that waits for it or
\* signals it, also when the call went on after a failed wait, unless it failed
\* later on or the finalizer's own wait failed; and each is destroyed in the end:
\* it is the business of the call or of the finalizer, unless a call has failed.
\* What a call has submitted whose waits succeeded finds the intermediate
\* semaphore it waits for signaled: a call never waits for itself.
SemaphoresSettled ==
    /\ \A w \in pending :
          /\ w.call \in unkept \cup (failed \cap unwaited) \/ Intermediate(w) \subseteq live
          /\ w.call \notin failed \cup unwaited =>
                \A s \in w.waits \cap StagingSemaphores : sem[s]
    /\ failed = {} =>
          /\ live \subseteq (IF pc = "idle" THEN {} ELSE stagingSemaphores)
                              \cup UNION {x.sems : x \in batches}
          /\ \A x \in batches : x.fenced

\* Between calls the buffer holds what sparse binding would show there, except
\* bytes of a bind with a memoryOffset, of one that got no staging buffer or
\* reaches past the buffer, of a copy whose staging buffer was not kept, and of
\* calls that failed or whose wait failed; an image whose last bind was null has
\* been cleared, unless there are such calls.
ContentsFollow ==
    pc = "idle" =>
        /\ \A x \in Bytes \ (missed \cup suspect) : shadow[x] = wanted[x]
        /\ failed \cup unwaited = {} /\ ~imageResident /\ image # "fresh" => image = "zero"

\* A call never waits for a semaphore that nothing signals: it returns, unless
\* it has locked itself out after a failure to record.
CallReturns == pc = "prepare" ~> pc \in {"idle", "stuck"}
===============================================================================
