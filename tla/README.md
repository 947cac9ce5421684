# compat_layer in TLA+

compat_layer is a Vulkan layer for Mali drivers. It sits between an application
(vkd3d, DXVK) and the driver and emulates what the driver lacks: push
descriptors, null descriptors, sparse binding, and a profile of features and
extensions. Its own code is the C++ under `src/src/`; `src/src/spirv_reflect`,
`src/src/spirv-tools` and `src/src/vulkan` are vendored. There are no tests.
(The vendored headers and SPIRV-Reflect make up some 22,000 of the 30,000 lines of code
there; the layer's own code is about 7,700.)

This directory holds TLA+ models of the parts that keep state, TLC runs over
small instances of them, and TLAPS proofs of every safety property the runs check
(section 5).
Line numbers below are lines of the files in `src/src/`.

    tlc -workers 2 -config MCStagingReclaim.cfg MCStagingReclaim
    tlapm --threads 4 StagingReclaimProofs.tla

`PROJECT.json` lists the runs, the source lines behind every definition, the
faulty variant of the code that breaks each property, the hazards and the findings.

## 1. Inventory

| component | state it keeps | operations | hard behaviour |
|---|---|---|---|
| Descriptor set allocator, `layer.cpp:94-213` | `activePool`, `exhaustedPools`, `occupancy`, `allocated_count` under its own mutex | `allocate`, `free`, `cleanup` | sets of many pools come back in any order; the driver may refuse at each call |
| One-shots, staging resources, finalizer, `SyncPool`: `queue.cpp`, `staging_resources.cpp`, `layer.cpp:61-92, 678-715, 1186-1221` | queue of batches, a pool of semaphore/fence pairs, `stop_thread`, a condition variable | `SubmitOneShot`, `QueueSubmit`, `FinalizerThread`, `Cleanup`, `DestroyDevice` | three kinds of threads and the device; a mutex that is not recursive; failures between two submissions |
| Command buffers and push descriptors: `command_buffer.cpp`, `push_descriptors.cpp` | `commandBuffersMap`, `commandPoolsMap`, `liveDescriptorSets` | allocate, free, begin, reset, pool reset and destroy, push | handles reused by the driver at once; five ways for a set to die |
| Sparse resources: `sparse_binding.cpp`, `buffer.cpp`, `image.cpp` | `sparseCommittedBytes` (atomic), `buffersMap`, `imagesMap` | create, destroy, `ReserveBudget`, `ReleaseBudget`, block shapes by format | a counter without a lock; a failure after the reservation; three tables of formats that must agree |
| `vkQueueBindSparse`: `sparse_binding.cpp:453-682` | intermediate semaphores, shadow contents | one one-shot for each bind info | failure in the middle of the chain; who destroys the semaphores, and when |
| Descriptor tracking: `descriptors.cpp`, `pipelines.cpp` | maps of sets, pools, layouts, templates, pipeline layouts | allocate, free, reset, create, destroy | the driver is called first and the map updated second, or the other way round |
| Null descriptors: `null_descriptors.cpp` | the null resources, two caches by format and shape | fixup of writes and templates | caches are checked under one lock and filled under another |
| Shader reflection and pipelines: `shader_reflector.cpp`, `pipelines.cpp` | `shaderModulesMap`, `pipelineLayoutsMap`, the hints of set layouts | track, untrack, hint propagation | layouts found by handle; pointers used after the unlock |
| Compute pipeline state: `pipeline_state.cpp` | per command buffer snapshot | track, save, restore | compiled out by default |
| Samplers: `samplers.cpp`, `descriptors.cpp:158-210` | `ycbcrSamplers`, `fallbackSampler` | create, destroy, lazy fallback, patching of layouts | check, then create; recycled handles |
| Device set-up and spoofing: `layer.cpp:280-1184`, `spoof_profile.cpp` | caches of features, version and extensions, per-device switches | feature queries, extension enumeration, `CreateDevice` | caches shared by all physical devices; structures of the application changed in place; pointer into a growing vector |
| Table of devices: `layer.cpp:30-56, 1171-1221` | `deviceMap` | look-up, insertion, erasure | keyed by a word of memory the driver has freed |
| Dispatch, logging, timestamps, GPU counters | function pointers, output | | no protocol of their own |

How they meet: the application's threads enter through the exported functions.
`global_lock` protects the handle maps, the staging queue, the `SyncPool` and
each command buffer's `liveDescriptorSets`; the allocator and each descriptor map have
a lock of their own, always taken after it. A push descriptor call goes from the command
buffer to the allocator to the tracking maps and to the driver. A sparse bind or
the creation of a sparse buffer goes through a one-shot, whose leftovers the
finalizer thread frees when the device has signaled a fence. Null descriptor
fixups read the hints that pipeline creation left in the set layouts.

What makes each one correct, in short: the allocator never ends the life of a set in
use and does not hoard pools; a batch is freed once, after the device is done with
it, and in the end is freed; a command buffer holds exactly the sets its
commands use; shadow memory keeps to the budget; binds take effect once and in
order, and the fence and the semaphores follow them; the maps describe the live
handles although the driver reuses them; the hints a set layout has are those
of the shaders it was used with; the driver is asked for what it can do.

## 2. Modules

    model                                   model-checked in       proved about in

    SetLifetime                             promise of the allocator
      ^ implemented by
    DescriptorSetAllocator                  MCDescriptorSetAllocator
                                                                   DescriptorSetAllocatorProofs
      : stands for the allocator in
    CommandBuffers                          MCCommandBuffers       CommandBuffersProofs

    BatchLifetime                           promise of the staging machinery
      ^ implemented by
    StagingReclaim                          MCStagingReclaim       StagingReclaimProofs

    SparseResources, BindSparse             MCSparse               SparseProofs
    BlockShapes                             MCSparse
    SparseResources alone                   MCSparseResources
    DescriptorTracking                      MCDescriptorTracking   DescriptorTrackingProofs
    NullDescriptors                         MCNullDescriptors      NullDescriptorsProofs
    LayoutHints                             MCNullDescriptors      LayoutHintsProofs
    DeviceSetup, DeviceLife, Samplers       MCDevices              DevicesProofs

The modules under one MC module share no variable. The MC module declares a
variable `part`, and a behaviour is one of the part chosen at its start: each part is
checked in full, in one run. A proof module EXTENDS its model and states its theorems
about the model's own specification, not about the MC module.

**DescriptorSetAllocator.** Variables have the members' names; `live` is the
driver's side (pools and the sets in them) and `held` the callers' side (pairs
`allocate` returned and `free` has not taken back). Each operation holds the
allocator's mutex throughout, so it is one step, split by outcome:
`AllocateFromActive`, `AllocateFromVacant`, `AllocateFromNew` and
`AllocateNoPool` are the ways through `allocate`; the driver may refuse a pool
with room, since Vulkan lets it. `Free` contains the test that destroys a surplus
pool. The vector `exhaustedPools` is a set: where the code takes the first vacant
pool the model takes any.

**StagingReclaim.** One action for each stretch of `SubmitOneShot` and `QueueSubmit` between
two points where another thread can act: the recording, the critical section that queues the
batch, the notification, the driver's submission, the empty submission that signals the
fence, the host's wait, the freeing of the command buffer. The device executes submissions
concurrently and in any order the semaphores allow. `FinalizerThread` has its loop, its
predicate, its sleep (entered with the lock held, left by a notification or spuriously), its
drain and its early return. `DestroyDevice` is six steps: the look-up under the lock
(`DestroyLookup`) and the setting of `stop_thread` without it (`DestroyStop`) are two, as a
finalizer that holds the mutex may test its predicate between them and go to sleep after
both, when nobody will notify it any more. A critical section in which a thread cannot get
stuck is one step that needs `global_lock` free; the lock is held between steps only by a
dozing finalizer and by a thread that has locked itself out. The host waits in three places
and looks at none of the results. A one-shot whose wait fails frees its command buffer and
returns `VK_SUCCESS` (`WaitOneShotFails`, `queue.cpp:134`); the finalizer logs the failure
and cleans up (`FinWaitFails`, `staging_resources.cpp:138`); `DestroyDevice` goes on to the
join (`DestroyWaitFails`, `layer.cpp:1198`). `Acquire` does not look at results either: a
pair whose creation or reset failed has a fence in any state. `spoiled` is history: the
pairs for which a wait of the finalizer or `Acquire` has failed, so that a submission or a
payload may be left behind; `drained` says that `DeviceWaitIdle` has succeeded. `GivenUp`
are the results of a one-shot that has not seen its work end: its second submission was
refused, or its wait failed. The properties name these, and `BatchLifetime` has a phase
`abandoned` for their batches; all other work is kept. Work whose objects are freed too
early is still executed in the model.

**CommandBuffers.** A thread is named by the command pool it uses, as Vulkan
requires one thread per pool at a time. The driver's state is `pools`, `owner`,
`state` and `bound` (the sets a buffer's commands refer to); the layer's is the
two maps, `liveDescriptorSets`, and the tracked sets. The allocator is replaced
by its specification `SetLifetime`. A push is four steps, because the code
allocates, remembers, tracks and binds in separate critical sections;
`FreeCommandBuffers` is two, because the driver can hand out the freed handle
before the maps are updated.

**SparseResources.** The atomic counter, the maps and the driver's handles and
memory. `ReserveBudget` is a `fetch_add` and a later comparison; a destruction
is three steps under `global_lock`. After `CreateBuffer` and `CreateImage` the
two kinds run the same steps, but a buffer notes the size the application asked
for and an image the size the driver requires (`VirtualSize`), so a request carries
both sizes.

**BindSparse.** A call is a list of bind infos, each with buffer binds, image binds and the
application's semaphores. For each info the thread prepares (the next intermediate
semaphore, staging buffers), submits a one-shot, waits for it and submits the fence;
`Submission` says what the one-shot waits for and signals, `HandOver` who takes the
intermediate semaphores, `signalFence` which one has the fence. The device executes a
submission when its semaphores are signaled. The buffer binds of an info are a set: Vulkan
lets a range be bound only once in a batch (`BatchAssumption`), so their order, between
which the code has no barrier, does not matter. `Record` leaves out any of the copies, as
the creation of each staging buffer may fail by itself. The result of the wait for a
one-shot is ignored: after `WaitFails` the call goes on with the next info although this one
has not been executed, and after `ReclaimFails` the finalizer destroys semaphores and
staging buffers in use. `unwaited` and `unkept` are history: the calls this has happened to.
The chain of semaphores keeps the infos in order all the same. `RecordBufferBinds` is
modelled byte by byte on a buffer of `Size` bytes; an image is its last bind and whether it
has been cleared. The code passes a bind's range on as it is (`sparse_binding.cpp:532,
543`), so the bind of a last page that the buffer does not fill reaches past its end and is
invalid (`Overruns`): in the model it does its part in the buffer, or nothing, and its bytes
are excepted. Properties name this and what else the code does not do: `memoryOffset` is
ignored, a bind without a staging buffer is skipped, and a null bind of part of an image
clears all of it.

**BlockShapes.** `GetBlockDimensions`, `GetTexelBytes` and `GetBlockShape` on the numbers of
`VkFormat`, each table a few sets of ranges. `ShapesStandard` compares what the application
is told with the sizes Vulkan gives the formats: a standard block has 64 KiB. What is
missing from the tables counts as four bytes, and the property says so: the eight packed
formats of one or two bytes, and the formats of all extensions but ASTC SFLOAT, whatever
they are (`ExtensionFormats`: A8_UNORM has one byte, R10X6G10X6B10X6A10X6 has eight).

**DescriptorTracking.** The application's sets and pools, and its set layouts,
update templates and pipeline layouts. The driver's side (`poolOf`, `layoutOf`,
`objects`) changes in one step and each of the layer's maps in another, in the
order of the code: the driver first everywhere but in `DestroyDescriptorPool`.
A pool or an object is used by one thread at a time, as Vulkan requires, but a
freed handle may go to another thread at once. The three kinds of objects run
the same steps and share `Create`, `Insert`, `Destroy` and `Erase`. `raced` and
`racedObjects` are history: handles given out again while the thread that freed
them had yet to erase their entry. The code loses the new entry of such a handle;
the properties say that nothing else is lost and that no entry is ever wrong.

**NullDescriptors.** A call is a list of writes or template entries, each with the parts of
its element that are null. `Begin` copies what the code copies, `Skip` and `Fix` are its
loop, and `FindView`, `MissView` and `EmplaceView` are the two critical sections of a cache
with the creation between them. `resources` holds the default resources and both caches,
under what a resource is for: kind, shape and format. `TrackBinding` is what pipeline
creation does to the hints, one binding at a time, as each takes the lock anew. Layouts live
for ever; LayoutHints has their lives. Vertex buffers (`BindVertexBuffer`) are entries of a
type of their own, in calls that belong to no set. `NullsReplaced`, `HintsFollowed` and
`OnlyLosersLeak` name four things the code does and a reader should know: a failed creation
is cached as null; the layout of the first patched write decides for all writes of the call
(`null_descriptors.cpp:212`); the copy of a template's data ends with the last entry of a
known type (line 294), so what lies behind it is not copied; and the loser of a race for a
view keeps using its own view, which nobody destroys. `NullsReplaced` names a fifth:
`fix_null_descriptors` looks for nulls behind the first pointer of a write that is not null,
whatever the type (line 179). Vulkan ignores the pointers of other types, so an application
may leave one set, and then the layer looks at data that are not the write's: `seen` says
whether it finds its own, a null or something else there, and in the last case a null handle
reaches the driver. Writes of buffers are safe, as their pointer comes first. A null buffer
that got no memory (`CreateNullResources` with `bare`) is handed out like any other.

**LayoutHints.** Where the hints come from. Set layouts, pipeline layouts and
shader modules are created and destroyed with handles the driver reuses at once;
the entry of a layout is erased after the driver's call, that of a module before.
Creating a pipeline finds the pipeline layout, copies a module's bindings, finds
the set layout of each binding by its handle and writes the hint, with the lock
released in between: a pointer to an entry that is gone ends in `Undefined`. An
application may destroy a set layout while the pipeline layout still names it, so
`Undefined` is reachable by legal calls; `HintsKept` says when, and that nothing else
is lost. `owed` and `settled` are history: what a pipeline should leave.

**DeviceSetup.** `CreateDevice` as one action over operators for its parts:
detaching of structures, extension list, features the layer switches on, masking.
The caches and the physical device they describe are state, and so are the
structures of the application, which the code edits in place and the
application may use for a second device. `OnlySupported` and `WishesKept` name
their exceptions: caches of another physical device (all of an instance share a
key), the indexing structure without its extension (the vector's size is read
before the push), image robustness that ends up in a detached structure, and
structures that have been used before.

**DeviceLife.** `deviceMap` is keyed by the first word at the device's address.
`DestroyDevice` reads it again after the driver freed the memory. `raced` is
history: the address was used again in between.

**Samplers.** The fallback sampler is looked up, made and stored in three steps; the set
`ycbcrSamplers` is kept in others. Layouts are patched with what a thread read
earlier. Whoever loses the race leaks a sampler, at most one per thread but one.

## 3. Runs

| run | states | what it shows |
|---|---|---|
| `allocator` | 462 | counters exact, pools bounded and never lost, `SetLifetime` implemented |
| `staging` | 837,146 | pending work keeps its command buffer and resources, but for one-shots that gave up and spoiled pairs; a pair has one owner and is quiet when free; a queued batch is in one place, and the finalizer awake, or about to be woken, for it, with a fence that comes; batches live as `BatchLifetime` says |
| `staging_live` | 117,751 | batches are reclaimed, one-shots and `DestroyDevice` return, but for the dead ends the properties name |
| `command_buffers` | 35,297 | `liveDescriptorSets` is what the commands use; no set is leaked or freed twice; maps and handles agree |
| `sparse` | 723,057 | the budget is kept and memory and handles have one owner each; binds execute once and in order, the buffer shows them, semaphores are destroyed once and not in use unless a wait failed, calls return; block shapes are standard where the tables have the format |
| `descriptors` | 645,348 | an entry never describes another object; only the window between the driver's call and the map's update loses one |
| `null_descriptors` | 1,450,699 | null handles are replaced, views fit the hints, only losers of a race leak; hints are written into the right layouts and stay, with the exceptions of section 2 |
| `devices` | 1,592,764 | only what the device supports is asked for, and all of what was wished; look-ups find the device; layouts have a living fallback |
| `staging_async` | violation | `SubmitOneShotAsync` waits for the device |
| `staging_failed` | violation | a refused submission leaves the finalizer at a fence for ever |
| `native_push` | violation | a native push also allocates an emulated set |
| `sparse_drift` | violation | the budget shrinks with every buffer destroyed |

State counts are after symmetry reduction, which is used only in runs without liveness
properties (`allocator`, `command_buffers`, `descriptors`, `staging`). No run constrains the
state space; every bound is a constant of the `.cfg`:

- `allocator`: six pools of two sets, four sets, a reserve of two. Every branch of
  `allocate` and `free` needs at most the active pool, a reserve of idle pools and
  one more. With four sets at most four retired pools hold sets, so six pools
  are enough for the surplus rule to fire with busy pools present. The proofs
  remove the bound.
- `staging`: two submitters, two batches, two pairs, every fault allowed. Two
  submitters make the queue order differ from the order of submission; the second batch
  is queued before, while or after the finalizer takes the first; a batch may be given a
  pair that the other has just returned, spoiled or not. A third batch makes the run too long
  with all the faults; the proofs remove the bound.
- `staging_live`: one submitter, two batches, faults in recording, in the first submission,
  and in the waits of the one-shot and of `DestroyDevice`. The other faults lead to a dead
  end that the properties name, or spoil a pair, which they except. A second submitter finds
  no new cycle (threads meet only at the lock and the queue, and the two batches may both be
  queued before the finalizer runs) and makes the run five times as long.
- `command_buffers`: two pools (threads), three buffers, three sets: a handle can
  move from one pool to the other while a third buffer keeps its sets. The
  deadlock check is on.
- `sparse`: two threads, three handles, a budget of 5 and requests of (1, 2) and (3, 3)
  bytes: two requests fit and the third does not, in every order. The drift of the counter
  makes the refused case deeper; it does not hide refusals that are due. Two calls of
  `vkQueueBindSparse` out of five forms: no info, several binds, offsets, chains of three
  with the application's semaphore, image binds; every step may fail. Two handles for
  intermediate semaphores: a chain of three needs both, so that the second call gets handles
  the first has used, once they are destroyed and no work left by a failed wait refers to
  them, or finds none, where the creation fails. A buffer of three bytes in pages of two has
  a last page that reaches past its end. The 184 formats of the core, the 14 of ASTC SFLOAT
  and four that stand for the other extensions: one, two and eight bytes and a compressed
  one. The deadlock check is off: the bound on calls ends a behaviour, and so does a thread
  that has locked itself out.
- `descriptors`: two threads, pools, sets and layouts and one handle of each
  kind of object: a race needs two threads and one handle that both get, and a
  set needs a second pool and a second layout to be mistaken for another's.
- `null_descriptors`: one thread with calls of one or two writes in 41 forms, chosen so that
  sets of different layouts, an untracked set, entries of unknown type, ignored pointers and
  nulls of every kind meet in both orders; another thread that races with it for an image
  view and a buffer view; two hints, one failure. For the hints: two threads, two set layout
  handles and one of each other kind, three set layouts in all, so that a handle is used
  again, by a layout at another set number; modules of three codes, one unreadable. The
  deadlock check is off: a destroyed device, or one thread's undefined step and the bound,
  end a behaviour.
- `devices`: eight environments with one or two physical devices each, 18 requests with
  chains that carry the structures at both ends; two threads, four devices, two
  addresses and three dispatch pointers, so that both are reused while a third thing is
  in flight; two threads and four sampler handles. The deadlock check is off: nothing
  follows a destroyed device.

**Fairness.** `FairSpec` assumes that a thread inside a call that can proceed does (weak
fairness), that a thread which finds the mutex free again and again gets it (strong fairness
on the steps that take `global_lock`), and that the device finishes what it is given. No
call has to start, fail or be woken spuriously. In BindSparse the one thread runs, the
device executes what it can, and the application's semaphores are signaled when something
waits for them, which Vulkan demands of binary semaphores. `std::mutex` does not promise
strong fairness formally; every implementation the layer runs on gives it to a finite number
of threads that release the lock.

## 4. Findings

1. `queue.cpp:171`: `SubmitOneShotAsync` does not pass `async`. `vkQueueBindSparse`
   blocks until the bind has executed, and for ever when the bind waits for
   something the caller does next.
2. `queue.cpp:354`: a batch is queued before the submission that signals its fence; if
   the driver refuses, the finalizer waits without limit, later batches are
   not reclaimed and `DestroyDevice` does not return.
3. `command_buffer.cpp:283`: after a native push control falls through to the
   emulated path.
4. `sparse_binding.cpp:438`: a buffer reserves the driver's size and gives back the
   application's.

The liveness properties of `staging_live` also name three hangs as exceptions
rather than findings, since no text of the repository says otherwise: the
notification of `DestroyDevice` that falls between the finalizer's test and its
sleep (`stop_thread` is set without the mutex, `layer.cpp:1196`), the teardown
that locks `global_lock` twice when batches are still queued
(`layer.cpp:1205`), and a one-shot that fails before its submission with
staging buffers attached (`command_buffer.cpp:101`).

The safety properties name what a failed call costs, for the same reason. When a second
submission fails after the first was accepted (`queue.cpp:374`), or the wait of a one-shot
fails (line 134), `SubmitOneShot` frees a command buffer that may be executing; the staging
resources stay with the finalizer until the device is destroyed. When the finalizer's own
wait fails (`staging_resources.cpp:138`), the resources are destroyed and the pair is used
again although the submission may be pending.

## 5. Proofs

All safety properties of the passing runs are theorems: they hold for every
value of the constants, where a run shows them for a few threads and handles. So do both
refinements. The other theorems have the form `Spec => []P`, and almost every proof has the same
shape: an invariant of named parts (`IndInv`, or `LifeIndInv` and its like where a module
proves about several models), a lemma that the initial state has it, one lemma per
action that the action keeps it, and the theorems read off. Each invariant was
model-checked before it was proved. What follows is why the properties are not inductive
by themselves, and what makes them so.

**DescriptorSetAllocatorProofs** (`TypeOK`, `PoolsTracked`, `OccupancyExact`,
`VacancyBounded`, `PoolsBounded`, `LifetimeSpec`). That a pool may be reset depends on its
counter, which depends on the pairs callers hold, which depends on handles being live in
one pool only. The core of the invariant, `Exact(live, occupancy, held,
allocated_count)`, says that the counters are cardinalities of the driver's sets, that
the pools' sets are disjoint and that the callers' pairs are exactly those sets. Four
lemmas state it for the elementary updates (`ExactIssue`, `ExactReturn`, `ExactCreate`,
`ExactDestroy`); each action is a composition of them, and its lemma adds what happens to
`exhaustedPools`. `VacancyBounded` needs the surplus test of `free` and the fact that only
`free` empties a retired pool. `PoolsBounded` follows by choosing a set from every busy
pool. The refinement maps `issued` to the sets held and `valid` to the sets live, which
`IndInv` makes equal; every action is then an `Issue`, a `Return` or a stutter.

**StagingReclaimProofs** (`PendingWorkKept`, `FreePairsQuiet`, `PairsExclusive`,
`QueueServed`, `LifetimeSpec`). A batch is in one place at a time, and the invariant says
what each place stands for: in the hands of a submitter (`Submits`), executing (`Running`),
in one of the two vectors or the finalizer's hands (`Queued`). A batch has its pair from the
hand-over to the end of its clean-up, so what a fence says is about one batch: before the
destructor runs, a pending batch signals the pair that it holds. The refinement maps the
`phase` of BatchLifetime to `Phase`, which is computed from where a batch is and what the
device has done with it. Nothing is assumed of `Faults`: any call may fail. A one-shot that
gave up, or whose pair a failed call spoiled, moves its batch to `abandoned`, in one step
and no other batch with it, since a pair has one owner; BatchLifetime forbids that step
where the calls that lead to it cannot fail. A pair once spoiled stays so in the proof,
whoever gets it next, and what the invariant says of a pair it says of those that are not
spoiled. `QueueServed` is what the liveness properties rest on: a finalizer asleep beside a
queue that is not empty has a notification to come, and the fence of a queued batch is
signaled or will be, by the device or by the thread that is still submitting. Its invariant
(`ServeInd`, beside `IndInv`) follows a fence from the hand-over to the clean-up: a pair
whose empty submission is made has its semaphore signaled or a pending batch that signals it
(`Staged`), and a batch that waits for its fence has had that submission, or still has its
submitter, or one of its submissions failed (`Fences`). It holds with the destructor and
every failure, as a spoiled pair is excepted.

**CommandBuffersProofs** (`BoundExact`, `IssuedOwned`, `TrackedExact`, `RegistryExact`).
The four support each other: killing the sets of some buffers takes none from another
buffer because every set has one owner, and takes all it should because the maps know
every buffer. What they need besides is where each thread is: who holds the lock
(`LockHeld`), whose buffer a thread works on (`StepsOwned`), that pushes in flight have
different sets (`SetsApart`). A consequence proved with them, `NoSetFreedInUse`: what a
pending buffer refers to is still issued.

**SparseProofs**, about SparseResources (`BudgetKept`, `CommittedCovers`, `ShadowsOwned`,
`MapExact`). `ReserveBudget` adds first and compares later, without a lock, so no thread
knows what the others will find. Call a thread fitting if it may allocate or if the
comparison it is about to make will tell it to. `Fits` says that the memory allocated and
what the fitting threads require stay within the budget; it is inductive because the
counter a thread reads covers all that is allocated or may still be (`Counted`), although
`Release` subtracts less than was added. Sums are cardinalities of sets of bytes (`Total`),
so that the facts about finite sets prove what a sum over a set needs: splitting,
adding an element, monotony.

**SparseProofs**, about BindSparse (`BindsOrdered`, `SemaphoresSettled`, `ContentsFollow`),
for calls of any length and binds of any kind. At most one submission that is not of a
failed call, or of one that went on after a failed wait, is not executed, and it is of the
info the thread waits for (`Submissions`); so the earlier infos are submitted, and done if
the waits succeeded, before a later one is prepared (`Progress`), and the fence is last.
Semaphores: those of two calls are different and outlive what uses them (`Separate`), and
each is the business of the call or of a batch (`Settled`). A second invariant
(`ContentsInd`) follows the contents: between two infos the buffer shows what is wanted
(`Even`), and while the info is submitted and not executed the commands recorded will make
it so (`Ahead`). It needs that the commands are binds of the info and that what failed calls
left pending writes only where nothing is promised (`Commands`). After a failed wait several
infos of one call may be pending: then (`Linked`) each waits for a semaphore that only the
one before it signals, and those of other calls and the next one to be made are different,
so that the chain alone keeps the order. That the semaphore a call waits for is signaled by
then (`Signaled`) is a part of it, and the reason why calls return: `SemaphoresSettled`
states it.

**SparseProofs**, about BlockShapes (`ShapesStandard`), for any set of extension formats.
The formats come in runs of one size; for each run the three tables are evaluated and
compared (`ShapeIsStandard`); a format in no run is in none of the tables.

**DescriptorTrackingProofs** (`EntriesTrue`, `EntriesKept`, `VectorsOwned`, `ObjectsKnown`).
Between the driver's call and the map's update a map is behind the driver, and the
invariant says whose work each difference is. A pool is in one thread's hands
(`Holding`), so the sets a thread is entering are its pool's (`Tracking`); a set in a
pool's vector is of that pool or being erased by the thread that has it (`VectorsHeld`);
a handle that comes back during its erasure is noted (`RacesNoted`).

**NullDescriptorsProofs** (`NullsReplaced`, `HintsFollowed`, `OnlyLosersLeak`), for calls of
any length. The invariant is about each thread alone (`Working`): what it has not reached is
as the application gave it, what it has passed is patched, and in between it holds views
that fit the hint it goes by. No replacement, refusal or hint is taken back while the device
is up, so another thread's step cannot spoil what is patched (`PatchedStays`). `Decided` is
the exception that the layout of the first patched write makes. A write the layer skips
keeps its nulls only where it has looked at other data (`seen`). `Making` says that the view
a thread is about to cache does not exist yet, so the loser of a race leaks its own.

**LayoutHintsProofs** (`HintsTrue`, `HintsKept`). A thread that creates a pipeline holds no
lock from step to step. The objects of its pipeline stay (`Standing`), so the maps give what
the driver knows of them; a set layout may go at any moment, and its handle may come back.
Layouts are numbered in the model, and no entry, pointer or due hint has the number of a
layout about to be entered (`Fresh`), so that a pointer with the number of the layout that
exists is to an entry that exists. `Owing` says that a hint due to a layout that exists is
there already, or among the stages, the bindings or the write the thread has left. All of it
but for `racedHandles`.

**DevicesProofs**, about DeviceLife (`DevicesFound`): no two devices have the same first
word, and the word of a device that is gone is not given out before `DestroyDevice` returns
(`KeysLeft`); that the freed word still is what it was (`WordsLeft`) holds until the memory
is used again. About Samplers (`FallbackServes`): the fallbacks created and the threads
about to create one are together no more than the threads (`Counted`), which needs that
while none is stored each is in the hands of a thread about to store it. About DeviceSetup
(`OnlySupported`, `WishesKept`): all happens in the step `CreateDevice`, and there the proof
is about what the operators of the model do to any request; its invariant is that structures
not yet used hold what the application put there (`Composed`).

**Assumptions.** Every proof rests on the ASSUMEs of its model, each evaluated by the runs:
that markers such as `NoPool` or `Nobody` are no handles or threads (the
`...NamesAssumption`s, `NothingAssumption`, `NoResourceAssumption`); that sizes and bounds
are numbers and not zero where the code divides by them or allocates (`SizesAssumption`,
`SparseAssumption`); that threads and handles are finite where the code counts
(`HandlesAssumption`, `FinitenessAssumption`, `SamplerThreadsAssumption`); that a request's
size is no more than what the driver requires for it (`RequestsAssumption`; Vulkan demands
it); and that calls, requests and shaders have the shape the API gives them (the two
`CallsAssumption`s, `BatchAssumption`, `SetupAssumption`, `LayoutHintsAssumption`).
`FormatsAssumption` says that the extension formats are not the numbers of the others.
`SupportAssumption` says that a driver with the fault feature has the fault extension.

**Only model-checked.**
- Liveness: `CallReturns` and the properties of `staging_live` that a batch is
  reclaimed, that one-shots return and that `DestroyDevice` does. Fairness and ENABLED are out
  of the prover's reach; what they rest on is proved where it is a safety property (`QueueServed`,
  `SemaphoresSettled`).
- The four runs that expect a violation.

## 6. Not modelled

- Unlocked lookups (`get_command_buffer`, `get_device`, ...) race with inserts
  in the same `unordered_map`. What they return is undefined behaviour of the container, not
  a state of the map; the models read the maps as if each lookup were atomic.
- Ignored pointers that dangle: the fixup may follow a pointer of a write that Vulkan ignores
  (`null_descriptors.cpp:179`) and then reads whatever is there, or crashes. The model lets it
  find other values there, and go on.
- What a device does when a command buffer, a semaphore or a buffer is freed while it is in
  use, after a failed wait or a refused submission: undefined in Vulkan. In the models the
  work is executed in the end. A handle that the driver reuses meanwhile names a new object,
  which the old work does not touch.
- Writes past the end of a buffer by the bind of its last page (`sparse_binding.cpp:532, 543`): only
  the bytes of the buffer exist in the model.
- The null handles a failed creation leaves in a pair (`layer.cpp:82, 89`): the model keeps
  the pair and lets its fence be in any state.
- The application's own `QueueSubmit` and `QueueSubmit2`: only one-shots attach staging
  resources (`sparse_binding.cpp:547, 638`) and they submit one command buffer through
  `QueueSubmit`, so these calls find empty batches and pass their submission through.
- Timestamp queries, GPU counters, logging, dispatch tables
  and the generated tables: no state that the properties depend on.
- What SPIRV-Reflect finds in a shader, and the translation of its dimensions and
  formats: data of vendored code. LayoutHints takes any bindings.
- The values copied into the application's query structures and the counts of
  the two-call enumerations (`layer.cpp:490-540`).
- What a template reads through a set layout that was destroyed before it
  (`descriptors.cpp:302`): the fixups run on layouts that live for ever.
- The vendored code under `spirv_reflect`, `spirv-tools` and `vulkan`.
- Compute state tracking is compiled out (`ENABLE_COMPUTE_TRACKING`, `CMakeLists.txt:55`),
  and nothing makes a `ScopedPipelineStateSnapshot`. Were it compiled in, `pipeline = pipeline`
  (`pipeline_state.cpp:49`) would keep the pipeline from being restored.

## 7. Plan

Done, in this order: the allocator with its promise and proofs; the staging
machinery; command buffers and push descriptors; sparse resources; the
application's descriptor sets, layouts, templates and pipeline layouts; null
descriptors; `vkQueueBindSparse`; device set-up, the table of devices and samplers;
shader modules, hints and block shapes.

The proofs are done for every safety property (section 5). The order was: the allocator,
command buffers, null descriptors, hints, sparse resources and binds, devices and samplers,
tracking, staging.

What could follow: update templates that outlive their layout, in LayoutHints; the copies
into the application's query structures, in DeviceSetup; submissions of several command
buffers, should the layer ever stage resources for the application's own. Runs keep the
sizes above: two threads, two or three handles of each kind.
