------------------------- MODULE StagingReclaimProofs -------------------------
(***************************************************************************)
(* Proofs about StagingReclaim for any threads, batches, pairs and faults. *)
(*                                                                         *)
(* A batch is in one place at a time (home), and the invariant says what   *)
(* each place stands for: a batch a thread has in its hands (Batching,     *)
(* Submits), one the device runs (Running), one the finalizer will find in *)
(* a vector or has in its hands (Queued). The pair a batch holds is with   *)
(* it from the hand-over to the end of its clean-up, so what the fence of  *)
(* a pair says is about that batch alone: while the destructor has not     *)
(* begun, a pending batch signals the pair that it holds, and no pair in   *)
(* use has a semaphore or a fence left over from before. After the device  *)
(* has been waited for every pair is idle.                                 *)
(*                                                                         *)
(* A call that fails breaks this for the pair it was for (spoiled) and for *)
(* nothing else, though the pair goes on through the pool: each part of    *)
(* the invariant that speaks of a pair speaks of one that is not spoiled.  *)
(* A one-shot that gave up (GivenUp) loses what it holds for itself only.  *)
(* Where none of these calls fails no batch is abandoned: for any faults   *)
(* the module implements BatchLifetime, each step is one of that module or *)
(* leaves all phases alone.                                                *)
(*                                                                         *)
(* That the finalizer gets to every batch is checked by TLC; its safety    *)
(* core is proved here (ServeInd). A batch in the device's queue has the   *)
(* finalizer awake, or a notification to come; a batch whose clean-up      *)
(* waits for its fence has a submission, under way or to come, that        *)
(* signals it, unless one of its submissions, or a call for its pair,      *)
(* failed.                                                                 *)
(***************************************************************************)
EXTENDS StagingReclaim, FiniteSetTheorems, TLAPS

\* The steps of a thread between the hand-over of its batch and the free.
Active == {"submit", "notify", "driver", "stage", "wait"}

\* A batch is in the hands of one thread, and once the destructor runs no
\* thread is inside a call.
Threads ==
    /\ \A t \in Submitters : pc[t] = "idle" <=> cur[t] = NoBatch
    /\ \A t, u \in Submitters : t # u /\ cur[t] = cur[u] => cur[t] = NoBatch
    /\ stop_thread <=> dest_pc \notin {"none", "stop"}
    /\ dest_pc # "none" => \A t \in Submitters : pc[t] = "idle"

\* What the place of a batch says of it: only a batch in the finalizer's care
\* has a pair.
Batching ==
    /\ \A b \in Batches : home[b] = "unused" =>
         /\ \A t \in Submitters : cur[t] # b
         /\ outcome[b] = "none" /\ ~cb_freed[b]
    /\ \A b \in Batches : home[b] \in {"unused", "cb"} => work[b] = "unsubmitted"
    /\ \A b \in Batches : pair[b] # NoPair <=> home[b] = "reclaim"
    /\ \A b \in Batches : home[b] = "reclaim" => res[b] # "none"

\* A thread between the steps of SubmitOneShot: its batch has not been freed,
\* and the pair it was given is clean, unless a call for that pair failed: the
\* finalizer may then have taken it away.
Submits ==
    \A t \in Submitters :
        /\ pc[t] \in Active \cup {"free"} => ~cb_freed[cur[t]]
        /\ pc[t] = "submit" => home[cur[t]] = "cb" /\ fence[t] = NoPair
        /\ pc[t] \in {"notify", "driver"} =>
             /\ work[cur[t]] = "unsubmitted"
             /\ home[cur[t]] \in {"gone", "reclaim"}
             /\ fence[t] = NoPair <=> res[cur[t]] = "none"
             /\ fence[t] \notin spoiled => pair[cur[t]] = fence[t]
             /\ fence[t] # NoPair /\ fence[t] \notin spoiled =>
                  Idle(fence[t]) /\ ~sem[fence[t]] /\ ~signaled[fence[t]]
        /\ pc[t] = "stage" =>
             /\ fence[t] # NoPair
             /\ fence[t] \notin spoiled =>
                  fence[t] = pair[cur[t]] /\ fence[t] \notin stage /\ ~signaled[fence[t]]
        /\ pc[t] \in {"notify", "driver", "stage"} => pair[cur[t]] \in {fence[t], NoPair}

\* What executes will signal the pair it holds, and a pair that is waited for
\* belongs to a batch, but for spoiled pairs.
Running ==
    /\ \A b \in Batches : work[b] = "pending" =>
         /\ signals[b] = NoPair <=> res[b] = "none"
         /\ \/ outcome[b] \in GivenUp
            \/ \E t \in Submitters : cur[t] = b /\ pc[t] \in {"stage", "wait"}
         /\ pair[b] \in {signals[b], NoPair}
         /\ ~stop_thread /\ signals[b] \notin spoiled => signals[b] = pair[b]
    /\ ~stop_thread => \A p \in Pairs \ spoiled :
         /\ sem[p] => \A b \in Batches : work[b] = "pending" => signals[b] # p
         /\ sem[p] \/ ~Idle(p) => ~signaled[p] /\ \E b \in Batches : pair[b] = p

\* Where the finalizer is, and the device once it has been waited for.
Reclaiming ==
    /\ fin_cur = NoBatch <=> fin_pc \notin {"waitFence", "cleanup"}
    /\ fin_pc \notin {"drain", "waitFence", "cleanup", "discard"} => local = <<>>
    /\ fin_pc = "cleanup" => signaled[pair[fin_cur]] \/ pair[fin_cur] \in spoiled
    /\ fin_pc = "discard" => stop_thread
    /\ drained => /\ dest_pc \in {"join", "teardown", "stuck", "gone"}
                  /\ \A p \in Pairs : Idle(p)

\* A batch is in one of the two vectors, once, or in the finalizer's hands,
\* or else it is none of the finalizer's.
Queued ==
    /\ IsInjective(stagingResourcesQueue)
    /\ IsInjective(local)
    /\ RangeOf(stagingResourcesQueue) \cap RangeOf(local) = {}
    /\ fin_cur \notin RangeOf(stagingResourcesQueue) \cup RangeOf(local)
    /\ \A b \in Batches : home[b] = "reclaim" <=>
         b \in RangeOf(stagingResourcesQueue) \cup RangeOf(local) \cup {fin_cur}

\* What PendingWorkKept says of batches whose one-shot did not give up. Of the
\* others it follows from Running: they signal the pair they hold.
WorkKept ==
    \A b \in Batches :
        work[b] = "pending" /\ outcome[b] \notin GivenUp =>
            /\ ~cb_freed[b]
            /\ res[b] # "none" /\ signals[b] \notin spoiled => home[b] = "reclaim"

\* The inductive invariant.
IndInv ==
    /\ TypeOK
    /\ Threads
    /\ Batching
    /\ Submits
    /\ Running
    /\ Reclaiming
    /\ Queued
    /\ WorkKept
    /\ FreePairsQuiet
    /\ PairsExclusive

-------------------------------------------------------------------------------
(***************************************************************************)
(* Vectors.                                                                *)
(***************************************************************************)

\* A batch is queued at the end of a vector.
LEMMA AppendStep ==
  ASSUME NEW s \in Seq(Batches), NEW b \in Batches
  PROVE  /\ Append(s, b) \in Seq(Batches)
         /\ RangeOf(Append(s, b)) = RangeOf(s) \cup {b}
         /\ IsInjective(s) /\ b \notin RangeOf(s) => IsInjective(Append(s, b))
<1> DEFINE r == Append(s, b)
<1>1. /\ r \in Seq(Batches)
      /\ DOMAIN r = DOMAIN s \cup {Len(s) + 1}
      /\ Len(s) + 1 \notin DOMAIN s
      /\ r[Len(s) + 1] = b
      /\ \A i \in DOMAIN s : r[i] = s[i]
  OBVIOUS
<1> HIDE DEF r
<1>2. RangeOf(r) = RangeOf(s) \cup {b}
  BY <1>1 DEF RangeOf
<1>3. IsInjective(s) /\ b \notin RangeOf(s) => IsInjective(r)
  BY <1>1 DEF RangeOf, IsInjective
<1>4. QED
  BY <1>1, <1>2, <1>3 DEF r

\* The finalizer takes the batch at the end of its vector.
LEMMA FrontStep ==
  ASSUME NEW s \in Seq(Batches), s # <<>>
  PROVE  /\ s[Len(s)] \in RangeOf(s) /\ RangeOf(s) \subseteq Batches
         /\ SubSeq(s, 1, Len(s) - 1) \in Seq(Batches)
         /\ IsInjective(s) =>
              /\ IsInjective(SubSeq(s, 1, Len(s) - 1))
              /\ RangeOf(SubSeq(s, 1, Len(s) - 1)) = RangeOf(s) \ {s[Len(s)]}
<1> DEFINE r == SubSeq(s, 1, Len(s) - 1)
<1>1. /\ r \in Seq(Batches)
      /\ Len(s) \in DOMAIN s
      /\ DOMAIN r = DOMAIN s \ {Len(s)}
      /\ \A i \in DOMAIN r : r[i] = s[i]
  OBVIOUS
<1>2. \A i \in DOMAIN s : s[i] \in Batches
  OBVIOUS
<1> HIDE DEF r
<1>3. s[Len(s)] \in RangeOf(s) /\ RangeOf(s) \subseteq Batches
  BY <1>1, <1>2 DEF RangeOf
<1>4. ASSUME IsInjective(s)
      PROVE  IsInjective(r) /\ RangeOf(r) = RangeOf(s) \ {s[Len(s)]}
  BY <1>1, <1>4 DEF RangeOf, IsInjective
<1>5. QED
  BY <1>1, <1>3, <1>4 DEF r

\* An empty vector has no batch.
LEMMA EmptyStep == IsInjective(<<>>) /\ RangeOf(<<>>) = {} /\ <<>> \in Seq(Batches)
BY DEF IsInjective, RangeOf

-------------------------------------------------------------------------------
(***************************************************************************)
(* One lemma per action.                                                   *)
(***************************************************************************)

\* A batch is cleaned up when its fence is signaled, or after every submission.
\* What Cleanup does, whoever calls it: the pair is free and quiet again.
LEMMA CleanupKeeps ==
  ASSUME IndInv, NEW b \in Batches, home[b] = "reclaim", Cleanup(b),
         stop_thread \/ signaled[pair[b]] \/ pair[b] \in spoiled,
         UNCHANGED <<submitterVars, res, outcome, cb_freed, gpuVars, created,
                     spoiled, drained, queueVars, dest_pc>>
  PROVE  /\ Batching' /\ Submits' /\ Running'
         /\ WorkKept' /\ FreePairsQuiet' /\ PairsExclusive'
<1> USE DEF Cleanup, submitterVars, gpuVars, queueVars
<1>1. /\ pair[b] \in Pairs
      /\ home' = [home EXCEPT ![b] = "gone"] /\ home \in [Batches -> {"unused", "cb", "reclaim", "gone"}]
      /\ pair' = [pair EXCEPT ![b] = NoPair] /\ pair \in [Batches -> Pairs \cup {NoPair}]
      /\ free_pairs' = free_pairs \cup {pair[b]}
  BY DEF IndInv, TypeOK, Batching
<1>2. Batching'
  BY <1>1 DEF IndInv, Batching
<1>3. ~stop_thread /\ pair[b] \notin spoiled => Idle(pair[b]) /\ ~sem[pair[b]]
  BY <1>1 DEF IndInv, Running
<1>4. Submits'
  BY <1>1, <1>3, NamesAssumption
     DEF IndInv, TypeOK, Threads, Submits, Batching, Idle, Active, Running,
         PairsExclusive
<1>5. Running'
  BY <1>1, <1>3 DEF IndInv, Running, Idle, PairsExclusive
<1>6. work[b] = "pending" => outcome[b] \in GivenUp \/ signals[b] \in spoiled
  BY <1>1, <1>3 DEF IndInv, Running, Threads, Idle
<1>7. WorkKept'
  BY <1>1, <1>6 DEF IndInv, WorkKept
<1>8. FreePairsQuiet'
  BY <1>1, <1>3 DEF IndInv, FreePairsQuiet, Idle
<1>9. PairsExclusive'
  <2> DEFINE inUse == {pair[c] : c \in Batches} \ {NoPair}
  <2>1. pair[b] \in inUse /\ inUse' = inUse \ {pair[b]}
    BY <1>1, NamesAssumption DEF IndInv, PairsExclusive
  <2>2. \A p \in free_pairs', c \in Batches : pair'[c] # p
    BY <1>1, NamesAssumption DEF IndInv, TypeOK, PairsExclusive
  <2>3. \A c, d \in Batches : c # d /\ pair'[c] = pair'[d] => pair'[c] = NoPair
    BY <1>1 DEF IndInv, PairsExclusive
  <2>4. dest_pc' # "gone" =>
          created' = free_pairs' \cup inUse'
    <3> HIDE DEF inUse
    <3>1. dest_pc # "gone" => created = free_pairs \cup inUse
      BY DEF IndInv, PairsExclusive, inUse
    <3>2. QED
      BY <1>1, <2>1, <3>1
  <2>5. QED
    BY <2>2, <2>3, <2>4 DEF PairsExclusive
<1>10. QED
  BY <1>2, <1>4, <1>5, <1>7, <1>8, <1>9

\* The batch has never been used.
LEMMA RecordInd ==
  ASSUME NEW t \in Submitters, NEW b \in Batches, IndInv, Record(t, b)
  PROVE  IndInv'
<1> USE DEF IndInv, Record, Free, gpuVars, poolVars, queueVars, finVars
<1>1. TypeOK'
  <2>1. PICK r \in {"none", "buffers", "others"} : res' = [res EXCEPT ![b] = r]
    OBVIOUS
  <2>2. /\ res' \in [Batches -> {"none", "buffers", "others"}]
        /\ home' \in [Batches -> {"unused", "cb", "reclaim", "gone"}]
        /\ cur' \in [Submitters -> Batches \cup {NoBatch}]
        /\ fence' \in [Submitters -> Pairs \cup {NoPair}]
    BY <2>1 DEF TypeOK
  <2>3. /\ pc' \in [Submitters -> {"idle", "submit", "notify", "driver", "stage", "wait", "free",
                                   "stuck"}]
        /\ outcome' \in [Batches -> {"none", "ok", "record", "submit", "stage", "unwaited"}]
    BY DEF TypeOK
  <2>4. QED
    BY <2>2, <2>3 DEF TypeOK
<1>2. Threads'
  BY DEF TypeOK, Threads, Batching
<1>3. Batching'
  BY DEF TypeOK, Batching
<1>4. Submits'
  BY DEF TypeOK, Submits, Idle, Batching
<1>5. Running'
  <2>1. \A c \in Batches : work[c] = "pending" =>
          c # b /\ res'[c] = res[c] /\ outcome'[c] = outcome[c]
    BY DEF TypeOK, Batching
  <2>2. \A u \in Submitters : pc[u] \in {"stage", "wait"} =>
          cur'[u] = cur[u] /\ pc'[u] = pc[u]
    BY DEF TypeOK
  <2>3. \A c \in Batches : work[c] = "pending" =>
          /\ signals[c] = NoPair <=> res'[c] = "none"
          /\ \/ outcome'[c] \in GivenUp
             \/ \E u \in Submitters : cur'[u] = c /\ pc'[u] \in {"stage", "wait"}
    BY <2>1, <2>2 DEF Running
  <2>4. QED
    BY <2>3 DEF Running, Idle
<1>6. Queued'
  BY DEF Queued
<1>7. WorkKept'
  BY DEF TypeOK, WorkKept, Batching
<1>8. Reclaiming' /\ FreePairsQuiet' /\ PairsExclusive'
  BY DEF Reclaiming, FreePairsQuiet, PairsExclusive, Idle
<1>9. QED
  BY <1>1, <1>2, <1>3, <1>4, <1>5, <1>6, <1>7, <1>8

\* A pair from the pool, or a new one.
LEMMA AcquireType ==
  ASSUME TypeOK, NEW p \in Pairs, Acquire(p)
  PROVE  /\ signaled' \in [Pairs -> BOOLEAN] /\ spoiled' \subseteq Pairs
         /\ free_pairs' \subseteq Pairs /\ created' \subseteq Pairs
<1>1. PICK any \in BOOLEAN : signaled' = [signaled EXCEPT ![p] = any]
  BY DEF Acquire
<1>2. signaled' \in [Pairs -> BOOLEAN]
  BY <1>1 DEF TypeOK
<1>3. QED
  BY <1>2 DEF Acquire, TypeOK

\* The batch goes to the end of the queue with a free pair, or a new one.
LEMMA QueueSubmitInd ==
  ASSUME NEW t \in Submitters, IndInv, QueueSubmit(t)
  PROVE  IndInv'
<1> USE DEF IndInv, QueueSubmit, Free, poolVars, finVars, Acquire
<1>1. TypeOK'
  <2>1. cur[t] \in Batches
    BY DEF TypeOK, Threads
  <2>2. CASE res[cur[t]] = "none"
    BY <2>1, <2>2 DEF TypeOK
  <2>3. CASE res[cur[t]] # "none"
    <3>1. PICK p \in Pairs :
            /\ Acquire(p)
            /\ pair' = [pair EXCEPT ![cur[t]] = p]
            /\ fence' = [fence EXCEPT ![t] = p]
            /\ home' = [home EXCEPT ![cur[t]] = "reclaim"]
            /\ stagingResourcesQueue' = Append(stagingResourcesQueue, cur[t])
      BY <2>3
    <3>2. signaled' \in [Pairs -> BOOLEAN] /\ spoiled' \subseteq Pairs
          /\ free_pairs' \subseteq Pairs /\ created' \subseteq Pairs
      BY <3>1, AcquireType DEF TypeOK
    <3>3. QED
      BY <2>1, <3>1, <3>2, AppendStep DEF TypeOK
  <2>4. QED
    BY <2>2, <2>3
<1>2. Threads'
  BY DEF Threads
<1>3. Batching'
  <2>1. /\ cur[t] \in Batches /\ home[cur[t]] = "cb" /\ work[cur[t]] = "unsubmitted"
    BY DEF TypeOK, Threads, Submits, Batching
  <2>2. CASE res[cur[t]] = "none"
    BY <2>1, <2>2 DEF TypeOK, Batching
  <2>3. CASE res[cur[t]] # "none"
    <3>1. PICK p \in Pairs :
            /\ pair' = [pair EXCEPT ![cur[t]] = p]
            /\ home' = [home EXCEPT ![cur[t]] = "reclaim"]
      BY <2>3
    <3>2. QED
      BY <2>1, <2>3, <3>1, NamesAssumption DEF TypeOK, Batching
  <2>4. QED
    BY <2>2, <2>3
<1>4. Submits'
  <2>1. /\ cur[t] \in Batches /\ pc' = [pc EXCEPT ![t] = "notify"] /\ ~cb_freed[cur[t]]
        /\ home[cur[t]] = "cb" /\ work[cur[t]] = "unsubmitted" /\ fence[t] = NoPair
        /\ pair[cur[t]] = NoPair
        /\ \A u \in Submitters : u # t => cur[u] # cur[t] /\ pc'[u] = pc[u]
        /\ pc'[t] = "notify"
        /\ ~stop_thread
    BY DEF TypeOK, Threads, Submits, Batching, Active
  <2>2. CASE res[cur[t]] = "none"
    <3>1. /\ UNCHANGED <<cur, cb_freed, work, signals, stage, sem, res, fence, pair, signaled,
                         spoiled>>
          /\ home' = [home EXCEPT ![cur[t]] = "gone"]
          /\ home \in [Batches -> {"unused", "cb", "reclaim", "gone"}]
      BY <2>2 DEF TypeOK
    <3>2. \A q : Idle(q)' <=> Idle(q)
      BY <3>1 DEF Idle
    <3>3. \A u \in Submitters : pc[u] # "idle" => cur[u] \in Batches
      BY DEF TypeOK, Threads
    <3>4. home'[cur[t]] = "gone" /\ \A u \in Submitters : u # t => home'[cur[u]] = home[cur[u]]
      BY <2>1, <3>1
    <3> HIDE DEF QueueSubmit
    <3>5. QED
      BY <2>1, <2>2, <3>1, <3>2, <3>3, <3>4, NamesAssumption DEF Submits, Active
  <2>3. CASE res[cur[t]] # "none"
    <3>1. PICK p \in Pairs :
            /\ Acquire(p)
            /\ pair' = [pair EXCEPT ![cur[t]] = p]
            /\ fence' = [fence EXCEPT ![t] = p]
            /\ home' = [home EXCEPT ![cur[t]] = "reclaim"]
      BY <2>3
    <3>2. /\ \A c \in Batches : pair[c] # p
          /\ p \in free_pairs \/ p \notin created
      BY <2>1, <3>1, NamesAssumption DEF PairsExclusive, Threads
    <3>3. /\ spoiled' \in {spoiled, spoiled \cup {p}}
          /\ \A q \in Pairs : q # p => signaled'[q] = signaled[q]
          /\ p \notin spoiled' => ~signaled'[p]
      BY <3>1 DEF TypeOK
    <3>4. p \notin spoiled => Idle(p) /\ ~sem[p]
      BY <2>1, <3>2 DEF Running
    <3>5. UNCHANGED <<cur, cb_freed, work, signals, stage, sem, res>>
      OBVIOUS
    <3>6. \A q : Idle(q)' <=> Idle(q)
      BY <3>5 DEF Idle
    <3>7. /\ fence'[t] = p /\ pair'[cur[t]] = p /\ home'[cur[t]] = "reclaim"
          /\ \A u \in Submitters : u # t =>
               fence'[u] = fence[u] /\ pair'[cur[u]] = pair[cur[u]] /\ home'[cur[u]] = home[cur[u]]
      BY <2>1, <3>1 DEF TypeOK
    <3> HIDE DEF QueueSubmit, Acquire
    <3>8. ASSUME NEW u \in Submitters, u # t, pc[u] # "idle"
          PROVE  /\ cur[u] \in Batches
                 /\ fence[u] \in Pairs \cup {NoPair}
                 /\ fence[u] \notin spoiled /\ pc[u] \in {"notify", "driver", "stage"} => fence[u] # p
      BY <3>2, <3>8 DEF TypeOK, Threads, Submits
    <3>9. QED
      BY <2>1, <2>3, <3>3, <3>4, <3>5, <3>6, <3>7, <3>8, NamesAssumption
         DEF Submits, Active
  <2>4. QED
    BY <2>2, <2>3
<1>5. Running'
  <2>1. /\ cur[t] \in Batches /\ work[cur[t]] = "unsubmitted" /\ pair[cur[t]] = NoPair
        /\ UNCHANGED <<cur, outcome, work, signals, stage, sem, res, stop_thread>>
        /\ \A u \in Submitters : pc[u] \in {"stage", "wait"} => pc'[u] = pc[u]
        /\ ~stop_thread
    BY DEF TypeOK, Threads, Submits, Batching
  <2>2. \A q : Idle(q)' <=> Idle(q)
    BY <2>1 DEF Idle
  <2>3. CASE res[cur[t]] = "none"
    BY <2>1, <2>2, <2>3 DEF Running
  <2>4. CASE res[cur[t]] # "none"
    <3>1. PICK p \in Pairs : Acquire(p) /\ pair' = [pair EXCEPT ![cur[t]] = p]
      BY <2>4
    <3>2. \A c \in Batches : pair[c] # p
      BY <2>1, <3>1, NamesAssumption DEF PairsExclusive, Threads
    <3>3. /\ spoiled' \in {spoiled, spoiled \cup {p}}
          /\ \A q \in Pairs : q # p => signaled'[q] = signaled[q]
      BY <3>1 DEF TypeOK
    <3>4. /\ \A c \in Batches : c # cur[t] => pair'[c] = pair[c]
          /\ pair'[cur[t]] = p
      BY <2>1, <3>1 DEF TypeOK
    <3> HIDE DEF QueueSubmit, Acquire
    <3>5. QED
      BY <2>1, <2>2, <3>2, <3>3, <3>4, NamesAssumption DEF Running
  <2>5. QED
    BY <2>3, <2>4
<1>6. Reclaiming'
  BY DEF TypeOK, Reclaiming, Threads, Batching, Submits, Queued, PairsExclusive
<1>7. Queued'
  <2>1. cur[t] \in Batches /\ home[cur[t]] = "cb"
    BY DEF TypeOK, Threads, Submits
  <2>2. CASE res[cur[t]] = "none"
    BY <2>1, <2>2 DEF TypeOK, Queued
  <2>3. CASE res[cur[t]] # "none"
    <3>1. cur[t] \notin RangeOf(stagingResourcesQueue) \cup RangeOf(local) \cup {fin_cur}
      BY <2>1 DEF Queued
    <3>2. /\ stagingResourcesQueue \in Seq(Batches)
          /\ stagingResourcesQueue' = Append(stagingResourcesQueue, cur[t])
          /\ home' = [home EXCEPT ![cur[t]] = "reclaim"]
          /\ home \in [Batches -> {"unused", "cb", "reclaim", "gone"}]
          /\ UNCHANGED <<local, fin_cur>>
      BY <2>3 DEF TypeOK
    <3>3. QED
      BY <2>1, <3>1, <3>2, AppendStep DEF Queued
  <2>4. QED
    BY <2>2, <2>3
<1>8. WorkKept'
  BY DEF TypeOK, WorkKept
<1>9. FreePairsQuiet'
  BY DEF FreePairsQuiet, Idle, Threads
<1>10. PairsExclusive'
  <2>1. cur[t] \in Batches /\ pair[cur[t]] = NoPair /\ dest_pc # "gone"
    BY DEF TypeOK, Threads, Submits, Batching
  <2>2. CASE res[cur[t]] = "none"
    BY <2>2 DEF PairsExclusive
  <2>3. CASE res[cur[t]] # "none"
    <3>1. PICK p \in Pairs : Acquire(p) /\ pair' = [pair EXCEPT ![cur[t]] = p]
      BY <2>3
    <3>2. p \notin free_pairs' /\ created' = created \cup {p} /\ \A c \in Batches : pair[c] # p
      BY <3>1, <2>1, NamesAssumption DEF PairsExclusive
    <3>3. free_pairs' = free_pairs \ {p}
      BY <3>1, <3>2
    <3>4. {pair'[c] : c \in Batches} \ {NoPair} = ({pair[c] : c \in Batches} \ {NoPair}) \cup {p}
      BY <3>1, <2>1, NamesAssumption DEF TypeOK
    <3>5. QED
      BY <2>1, <3>1, <3>2, <3>3, <3>4 DEF TypeOK, PairsExclusive
  <2>4. QED
    BY <2>2, <2>3
<1>11. QED
  BY <1>1, <1>2, <1>3, <1>4, <1>5, <1>6, <1>7, <1>8, <1>9, <1>10

\* Only the finalizer's wait is touched.
LEMMA NotifyInd ==
  ASSUME NEW t \in Submitters, IndInv, Notify(t)
  PROVE  IndInv'
<1> USE DEF IndInv, Notify, Wake, batchVars, gpuVars, poolVars, queueVars
<1>1. TypeOK'
  BY DEF TypeOK
<1>2. Threads'
  BY DEF Threads
<1>3. Submits'
  BY DEF Submits, Idle, Active
<1>4. Running'
  BY DEF Running, Idle
<1>5. Reclaiming'
  BY DEF Reclaiming, Threads
<1>6. Batching' /\ Queued' /\ WorkKept' /\ FreePairsQuiet' /\ PairsExclusive'
  BY DEF Batching, Queued, WorkKept, FreePairsQuiet,
         PairsExclusive, Idle
<1>7. QED
  BY <1>1, <1>2, <1>3, <1>4, <1>5, <1>6

\* The work is pending and will signal the pair of its batch.
LEMMA DriverSubmitInd ==
  ASSUME NEW t \in Submitters, IndInv, DriverSubmit(t)
  PROVE  IndInv'
<1> USE DEF IndInv, DriverSubmit, batchVars, poolVars, queueVars, finVars
<1>1. TypeOK'
  BY DEF TypeOK, Threads
<1>2. Threads'
  BY DEF Threads
<1>3. Batching'
  BY DEF Batching, Submits
<1>4. Submits'
  BY DEF TypeOK, Submits, Idle, Active, Threads, PairsExclusive
<1>5. Running'
  BY NamesAssumption DEF TypeOK, Running, Idle, Batching, Submits
<1>6. Reclaiming'
  BY DEF Reclaiming, Threads
<1>7. WorkKept'
  BY NamesAssumption DEF TypeOK, WorkKept, Active, Submits, Batching
<1>8. FreePairsQuiet'
  BY DEF TypeOK, FreePairsQuiet, Idle, Threads, Submits, PairsExclusive
<1>9. Queued' /\ PairsExclusive'
  BY DEF Queued, PairsExclusive
<1>10. QED
  BY <1>1, <1>2, <1>3, <1>4, <1>5, <1>6, <1>7, <1>8, <1>9

\* The second submission will signal the fence.
LEMMA StageSubmitInd ==
  ASSUME NEW t \in Submitters, IndInv, StageSubmit(t)
  PROVE  IndInv'
<1> USE DEF IndInv, StageSubmit, batchVars, poolVars, queueVars, finVars
<1>1. TypeOK'
  BY DEF TypeOK, Submits
<1>2. Threads'
  BY DEF Threads
<1>3. Submits'
  BY DEF TypeOK, Submits, Idle, Active, Threads, PairsExclusive
<1>4. Running'
  BY DEF TypeOK, Running, Idle, Threads, Submits
<1>5. Reclaiming'
  BY DEF Reclaiming, Threads
<1>6. FreePairsQuiet'
  BY DEF TypeOK, FreePairsQuiet, Idle, Threads, Submits, PairsExclusive
<1>7. Batching' /\ Queued' /\ WorkKept' /\ PairsExclusive'
  BY DEF Batching, Queued, WorkKept, PairsExclusive
<1>8. QED
  BY <1>1, <1>2, <1>3, <1>4, <1>5, <1>6, <1>7

\* The thread returns and nothing was submitted, or the second submission has
\* failed.
LEMMA SubmitFailsInd ==
  ASSUME NEW t \in Submitters, IndInv, SubmitFails(t)
  PROVE  IndInv'
<1> USE DEF IndInv, SubmitFails, gpuVars, poolVars, queueVars, finVars
<1>1. TypeOK'
  BY DEF TypeOK
<1>2. Threads'
  BY DEF Threads
<1>3. Batching'
  BY DEF TypeOK, Batching
<1>4. Submits'
  BY DEF Submits, Idle, Active
<1>5. Running'
  BY DEF TypeOK, Running, Idle, Submits, GivenUp
<1>6. WorkKept'
  BY DEF TypeOK, WorkKept, Submits, GivenUp
<1>7. Reclaiming' /\ Queued' /\ FreePairsQuiet' /\ PairsExclusive'
  BY DEF Reclaiming, Queued, FreePairsQuiet, PairsExclusive, Idle
<1>8. QED
  BY <1>1, <1>2, <1>3, <1>4, <1>5, <1>6, <1>7

\* The batch of this thread is done.
LEMMA WaitOneShotInd ==
  ASSUME NEW t \in Submitters, IndInv, WaitOneShot(t)
  PROVE  IndInv'
<1> USE DEF IndInv, WaitOneShot, gpuVars, poolVars, queueVars, finVars
<1>1. TypeOK'
  BY DEF TypeOK, Threads
<1>2. Threads'
  BY DEF Threads
<1>3. Batching'
  BY DEF Batching
<1>4. Submits'
  BY DEF Submits, Idle, Active
<1>5. Running'
  BY DEF Running, Idle
<1>6. WorkKept'
  BY DEF WorkKept
<1>7. Reclaiming' /\ Queued' /\ FreePairsQuiet' /\ PairsExclusive'
  BY DEF Reclaiming, Queued, FreePairsQuiet, PairsExclusive, Idle
<1>8. QED
  BY <1>1, <1>2, <1>3, <1>4, <1>5, <1>6, <1>7

\* The batch of this thread is given up.
LEMMA WaitOneShotFailsInd ==
  ASSUME NEW t \in Submitters, IndInv, WaitOneShotFails(t)
  PROVE  IndInv'
<1> USE DEF IndInv, WaitOneShotFails, gpuVars, poolVars, queueVars, finVars
<1>1. TypeOK'
  BY DEF TypeOK, Threads
<1>2. Threads'
  BY DEF Threads
<1>3. Batching'
  BY DEF Batching
<1>4. Submits'
  BY DEF Submits, Idle, Active
<1>5. Running'
  BY DEF TypeOK, Running, Idle, GivenUp
<1>6. WorkKept'
  BY DEF TypeOK, WorkKept, GivenUp
<1>7. Reclaiming' /\ Queued' /\ FreePairsQuiet' /\ PairsExclusive'
  BY DEF Reclaiming, Queued, FreePairsQuiet, PairsExclusive, Idle
<1>8. QED
  BY <1>1, <1>2, <1>3, <1>4, <1>5, <1>6, <1>7

\* A batch that was not handed over goes with its command buffer.
LEMMA FreeCommandBuffersInd ==
  ASSUME NEW t \in Submitters, IndInv, FreeCommandBuffers(t)
  PROVE  IndInv'
<1> USE DEF IndInv, FreeCommandBuffers, Free, gpuVars, poolVars, queueVars, finVars
<1>1. TypeOK'
  <2>1. cur[t] \in Batches
    BY DEF TypeOK, Threads
  <2>2. CASE home[cur[t]] = "cb" /\ res[cur[t]] = "buffers"
    BY <2>1, <2>2 DEF TypeOK
  <2>3. CASE ~(home[cur[t]] = "cb" /\ res[cur[t]] = "buffers")
    <3>1. /\ home' = [home EXCEPT ![cur[t]] = IF @ = "cb" THEN "gone" ELSE @]
          /\ pc' = [pc EXCEPT ![t] = "idle"]
          /\ cur' = [cur EXCEPT ![t] = NoBatch]
          /\ UNCHANGED global_lock
      BY <2>3
    <3>2. QED
      BY <2>1, <3>1 DEF TypeOK
  <2>4. QED
    BY <2>2, <2>3
<1>2. Threads'
  <2>1. cur[t] \in Batches
    BY DEF TypeOK, Threads
  <2>2. CASE home[cur[t]] = "cb" /\ res[cur[t]] = "buffers"
    BY <2>1, <2>2 DEF TypeOK, Threads
  <2>3. CASE ~(home[cur[t]] = "cb" /\ res[cur[t]] = "buffers")
    <3>1. /\ home' = [home EXCEPT ![cur[t]] = IF @ = "cb" THEN "gone" ELSE @]
          /\ pc' = [pc EXCEPT ![t] = "idle"]
          /\ cur' = [cur EXCEPT ![t] = NoBatch]
          /\ UNCHANGED global_lock
      BY <2>3
    <3>2. QED
      BY <2>1, <3>1 DEF TypeOK, Threads
  <2>4. QED
    BY <2>2, <2>3
<1>3. Batching'
  BY NamesAssumption DEF TypeOK, Batching
<1>4. Submits'
  BY DEF TypeOK, Submits, Idle, Active, Threads
<1>5. Running'
  BY DEF TypeOK, Running, Idle, Threads
<1>6. Queued'
  BY DEF TypeOK, Queued
<1>7. WorkKept'
  <2>1. cur[t] \in Batches
    BY DEF TypeOK, Threads
  <2>2. CASE home[cur[t]] = "cb" /\ res[cur[t]] = "buffers"
    BY <2>1, <2>2 DEF TypeOK, Running, Batching, WorkKept
  <2>3. CASE ~(home[cur[t]] = "cb" /\ res[cur[t]] = "buffers")
    <3>1. /\ home' = [home EXCEPT ![cur[t]] = IF @ = "cb" THEN "gone" ELSE @]
          /\ pc' = [pc EXCEPT ![t] = "idle"]
          /\ cur' = [cur EXCEPT ![t] = NoBatch]
          /\ UNCHANGED global_lock
      BY <2>3
    <3>2. QED
      BY <2>1, <3>1 DEF TypeOK, Threads, Running, Batching, WorkKept
  <2>4. QED
    BY <2>2, <2>3
<1>8. Reclaiming' /\ FreePairsQuiet' /\ PairsExclusive'
  BY DEF Reclaiming, FreePairsQuiet, PairsExclusive, Idle
<1>9. QED
  BY <1>1, <1>2, <1>3, <1>4, <1>5, <1>6, <1>7, <1>8

\* The semaphore of the batch's own pair is signaled.
LEMMA FinishWorkInd ==
  ASSUME NEW b \in Batches, IndInv, FinishWork(b)
  PROVE  IndInv'
<1> USE DEF IndInv, FinishWork, submitterVars, batchVars, poolVars, queueVars, finVars
<1>1. TypeOK'
  BY DEF TypeOK
<1>2. Batching'
  BY DEF Batching
<1>3. Submits'
  BY DEF Submits, Idle
<1>4. Running'
  BY DEF TypeOK, Running, Idle, PairsExclusive
<1>5. Reclaiming'
  BY DEF Reclaiming, Idle
<1>6. WorkKept'
  BY DEF WorkKept
<1>7. FreePairsQuiet'
  BY DEF FreePairsQuiet, Idle
<1>8. Threads' /\ Queued' /\ PairsExclusive'
  BY DEF Threads, Queued, PairsExclusive
<1>9. QED
  BY <1>1, <1>2, <1>3, <1>4, <1>5, <1>6, <1>7, <1>8

\* The fence is signaled when the work is done.
LEMMA FinishStageInd ==
  ASSUME NEW p \in Pairs, IndInv, FinishStage(p)
  PROVE  IndInv'
<1> USE DEF IndInv, FinishStage, submitterVars, batchVars, poolVars, queueVars, finVars
<1>1. TypeOK'
  BY DEF TypeOK
<1>2. Submits'
  BY DEF Submits, Idle
<1>3. Running'
  BY DEF TypeOK, Running, Idle
<1>4. Reclaiming'
  BY DEF Reclaiming, Idle
<1>5. FreePairsQuiet'
  BY DEF FreePairsQuiet, Idle
<1>6. Threads' /\ Batching' /\ Queued' /\ WorkKept' /\ PairsExclusive'
  BY DEF Threads, Batching, Queued, WorkKept, PairsExclusive
<1>7. QED
  BY <1>1, <1>2, <1>3, <1>4, <1>5, <1>6

\* Only the finalizer moves.
LEMMA FinLoopInd ==
  ASSUME IndInv, FinLoop
  PROVE  IndInv'
<1> USE DEF IndInv, FinLoop, FinGoto, submitterVars, batchVars, gpuVars, poolVars, queueVars
<1>1. TypeOK'
  BY DEF TypeOK
<1>2. Reclaiming'
  BY DEF Reclaiming, Idle
<1>3. Threads' /\ Batching' /\ Submits' /\ Running' /\ Queued' /\ WorkKept'
      /\ FreePairsQuiet' /\ PairsExclusive'
  BY DEF Threads, Batching, Submits, Running, Queued, WorkKept,
         FreePairsQuiet, PairsExclusive, Idle
<1>4. QED
  BY <1>1, <1>2, <1>3

\* The vector of the queue becomes the finalizer's.
LEMMA FinTakeInd ==
  ASSUME IndInv, FinTake
  PROVE  IndInv'
<1> USE DEF IndInv, FinTake, FinGoto, Free, submitterVars, batchVars, gpuVars, poolVars
<1>1. TypeOK'
  <2>1. /\ stagingResourcesQueue' \in Seq(Batches) /\ local' \in Seq(Batches)
        /\ fin_pc' \in {"exited", "drain"} /\ fin_cur' = fin_cur
    BY EmptyStep DEF TypeOK
  <2>2. QED
    BY <2>1 DEF TypeOK
<1>2. Reclaiming'
  BY DEF Reclaiming, Idle
<1>3. Queued'
  BY EmptyStep DEF TypeOK, Reclaiming, Queued
<1>4. Threads' /\ Batching' /\ Submits' /\ Running' /\ WorkKept'
      /\ FreePairsQuiet' /\ PairsExclusive'
  BY DEF Threads, Batching, Submits, Running, WorkKept,
         FreePairsQuiet, PairsExclusive, Idle
<1>5. QED
  BY <1>1, <1>2, <1>3, <1>4

\* Only the finalizer moves.
LEMMA FinDozeInd ==
  ASSUME IndInv, FinDoze
  PROVE  IndInv'
<1> USE DEF IndInv, FinDoze, FinGoto, Free, submitterVars, batchVars, gpuVars, poolVars, queueVars
<1>1. TypeOK'
  BY DEF TypeOK
<1>2. Reclaiming'
  BY DEF Reclaiming, Threads
<1>3. Threads' /\ Batching' /\ Submits' /\ Running' /\ Queued' /\ WorkKept'
      /\ FreePairsQuiet' /\ PairsExclusive'
  BY DEF Threads, Batching, Submits, Running, Queued, WorkKept,
         FreePairsQuiet, PairsExclusive, Idle
<1>4. QED
  BY <1>1, <1>2, <1>3

\* Only the finalizer moves.
LEMMA FinSleepInd ==
  ASSUME IndInv, FinSleep
  PROVE  IndInv'
<1> USE DEF IndInv, FinSleep, FinGoto, submitterVars, batchVars, gpuVars, poolVars, queueVars
<1>1. TypeOK'
  BY DEF TypeOK
<1>2. Reclaiming'
  BY DEF Reclaiming, Idle
<1>3. Threads' /\ Batching' /\ Submits' /\ Running' /\ Queued' /\ WorkKept'
      /\ FreePairsQuiet' /\ PairsExclusive'
  BY DEF Threads, Batching, Submits, Running, Queued, WorkKept,
         FreePairsQuiet, PairsExclusive, Idle
<1>4. QED
  BY <1>1, <1>2, <1>3

\* Only the finalizer moves.
LEMMA SpuriousWakeInd ==
  ASSUME IndInv, SpuriousWake
  PROVE  IndInv'
<1> USE DEF IndInv, SpuriousWake, FinGoto, submitterVars, batchVars, gpuVars, poolVars, queueVars
<1>1. TypeOK'
  BY DEF TypeOK
<1>2. Reclaiming'
  BY DEF Reclaiming, Idle
<1>3. Threads' /\ Batching' /\ Submits' /\ Running' /\ Queued' /\ WorkKept'
      /\ FreePairsQuiet' /\ PairsExclusive'
  BY DEF Threads, Batching, Submits, Running, Queued, WorkKept,
         FreePairsQuiet, PairsExclusive, Idle
<1>4. QED
  BY <1>1, <1>2, <1>3

\* The last batch of the vector comes into the finalizer's hands.
LEMMA FinNextInd ==
  ASSUME IndInv, FinNext
  PROVE  IndInv'
<1> USE DEF IndInv, FinNext, FinGoto, submitterVars, batchVars, gpuVars, poolVars, queueVars
<1>1. TypeOK'
  BY NamesAssumption, FrontStep DEF TypeOK
<1>2. Reclaiming'
  BY NamesAssumption DEF TypeOK, Reclaiming, Idle
<1>3. Queued'
  <2>1. CASE local # <<>> /\ ~stop_thread
    <3>1. fin_cur = NoBatch /\ fin_cur' = local[Len(local)] /\ local' = SubSeq(local, 1, Len(local) - 1)
      BY <2>1 DEF Reclaiming
    <3>2. /\ fin_cur' \in RangeOf(local) /\ fin_cur' \in Batches
          /\ IsInjective(local')
          /\ RangeOf(local') = RangeOf(local) \ {fin_cur'}
      BY <2>1, <3>1, FrontStep DEF TypeOK, Queued
    <3>3. UNCHANGED <<stagingResourcesQueue, home>>
      OBVIOUS
    <3>4. QED
      BY <3>1, <3>2, <3>3, NamesAssumption DEF Queued
  <2>2. CASE UNCHANGED <<local, fin_cur>>
    BY <2>2 DEF Queued
  <2>3. QED
    BY <2>1, <2>2
<1>4. Threads' /\ Batching' /\ Submits' /\ Running' /\ WorkKept'
      /\ FreePairsQuiet' /\ PairsExclusive'
  BY DEF Threads, Batching, Submits, Running, WorkKept,
         FreePairsQuiet, PairsExclusive, Idle
<1>5. QED
  BY <1>1, <1>2, <1>3, <1>4

\* The fence has been signaled.
LEMMA FinWaitInd ==
  ASSUME IndInv, FinWait
  PROVE  IndInv'
<1> USE DEF IndInv, FinWait, FinGoto, submitterVars, batchVars, gpuVars, poolVars, queueVars
<1>1. TypeOK'
  BY DEF TypeOK
<1>2. Reclaiming'
  BY DEF Reclaiming, Idle
<1>3. Threads' /\ Batching' /\ Submits' /\ Running' /\ Queued' /\ WorkKept'
      /\ FreePairsQuiet' /\ PairsExclusive'
  BY DEF Threads, Batching, Submits, Running, Queued, WorkKept,
         FreePairsQuiet, PairsExclusive, Idle
<1>4. QED
  BY <1>1, <1>2, <1>3

\* The pair of this batch is spoiled.
LEMMA FinWaitFailsInd ==
  ASSUME IndInv, FinWaitFails
  PROVE  IndInv'
<1> USE DEF IndInv, FinWaitFails, FinGoto, submitterVars, batchVars, gpuVars, queueVars
<1>1. fin_cur \in Batches /\ pair[fin_cur] \in Pairs
  BY DEF TypeOK, Reclaiming, Queued, Batching
<1>2. TypeOK'
  BY <1>1 DEF TypeOK
<1>3. Reclaiming'
  BY DEF Reclaiming, Idle
<1>4. Submits'
  BY <1>1 DEF Submits, Idle
<1>5. Running'
  BY <1>1 DEF Running, Idle
<1>6. Threads' /\ Batching' /\ Queued' /\ WorkKept' /\ FreePairsQuiet' /\ PairsExclusive'
  BY DEF Threads, Batching, Queued, WorkKept, FreePairsQuiet, PairsExclusive, Idle
<1>7. QED
  BY <1>2, <1>3, <1>4, <1>5, <1>6

\* The work was done when the fence was signaled.
LEMMA FinCleanupInd ==
  ASSUME IndInv, FinCleanup
  PROVE  IndInv'
<1> USE DEF IndInv, FinCleanup
<1>1. /\ fin_cur \in Batches /\ home[fin_cur] = "reclaim"
      /\ signaled[pair[fin_cur]] \/ pair[fin_cur] \in spoiled
      /\ pair[fin_cur] \in Pairs
  BY DEF TypeOK, Reclaiming, Queued, Batching
<1>2. /\ Batching' /\ Submits' /\ Running'
      /\ WorkKept' /\ FreePairsQuiet' /\ PairsExclusive'
  BY <1>1, CleanupKeeps
<1>3. TypeOK'
  BY <1>1 DEF TypeOK, Cleanup, submitterVars, gpuVars, queueVars
<1>4. Threads'
  BY DEF Threads, submitterVars, queueVars
<1>5. Reclaiming'
  BY NamesAssumption DEF TypeOK, Reclaiming, Idle, gpuVars, queueVars
<1>6. Queued'
  <2>1. /\ home' = [home EXCEPT ![fin_cur] = "gone"]
        /\ home \in [Batches -> {"unused", "cb", "reclaim", "gone"}]
        /\ UNCHANGED <<stagingResourcesQueue, local>>
        /\ fin_cur' = NoBatch
    BY DEF TypeOK, Cleanup, queueVars
  <2>2. NoBatch \notin RangeOf(stagingResourcesQueue) \cup RangeOf(local)
    BY NamesAssumption DEF TypeOK, RangeOf
  <2>3. QED
    BY <1>1, <2>1, <2>2, NamesAssumption DEF Queued
<1>7. QED
  BY <1>2, <1>3, <1>4, <1>5, <1>6

\* The device is idle by now.
LEMMA FinDiscardInd ==
  ASSUME IndInv, FinDiscard
  PROVE  IndInv'
<1> DEFINE b == local[Len(local)]
<1> USE DEF IndInv, FinDiscard
<1>1. Threads'
  BY DEF Threads, submitterVars, queueVars
<1>2. CASE local = <<>>
  <2> USE <1>2 DEF FinGoto, submitterVars, gpuVars, queueVars
  <2>1. TypeOK' /\ Batching' /\ Submits' /\ Running' /\ Reclaiming' /\ Queued'
    BY DEF TypeOK, Batching, Submits, Running, Reclaiming, Queued, Idle, Active
  <2>2. WorkKept' /\ FreePairsQuiet' /\ PairsExclusive'
    BY DEF WorkKept, FreePairsQuiet, PairsExclusive, Idle
  <2>3. QED
    BY <1>1, <2>1, <2>2
<1>3. CASE local # <<>>
  <2>1. /\ b \in Batches /\ home[b] = "reclaim" /\ stop_thread
        /\ b \in RangeOf(local) /\ pair[b] \in Pairs
    BY <1>3, FrontStep DEF TypeOK, Reclaiming, Queued, Batching
  <2>2. Cleanup(b) /\ local' = SubSeq(local, 1, Len(local) - 1) /\ UNCHANGED <<fin_pc, fin_cur>>
    BY <1>3
  <2>3. /\ Batching' /\ Submits' /\ Running'
        /\ WorkKept' /\ FreePairsQuiet' /\ PairsExclusive'
    BY <2>1, <2>2, CleanupKeeps
  <2>4. TypeOK'
    BY <1>3, <2>1, <2>2, FrontStep
       DEF TypeOK, Cleanup, submitterVars, gpuVars, queueVars
  <2>5. Reclaiming'
    BY <2>2 DEF Reclaiming, Idle, gpuVars, queueVars
  <2>6. Queued'
    <3>1. /\ RangeOf(local') = RangeOf(local) \ {b}
          /\ IsInjective(local')
      BY <1>3, <2>2, FrontStep DEF TypeOK, Queued
    <3>2. /\ home' = [home EXCEPT ![b] = "gone"]
          /\ home \in [Batches -> {"unused", "cb", "reclaim", "gone"}]
          /\ UNCHANGED <<stagingResourcesQueue, fin_cur>>
      BY <2>2 DEF TypeOK, Cleanup, queueVars
    <3>3. QED
      BY <2>1, <3>1, <3>2 DEF Queued
  <2>7. QED
    BY <1>1, <2>3, <2>4, <2>5, <2>6
<1>4. QED
  BY <1>2, <1>3

\* No call is in progress any more.
LEMMA DestroyLookupInd ==
  ASSUME IndInv, DestroyLookup
  PROVE  IndInv'
<1> USE DEF IndInv, DestroyLookup, DestGoto, submitterVars, batchVars, gpuVars, poolVars,
            queueVars, finVars
<1>1. TypeOK'
  BY DEF TypeOK
<1>2. Threads'
  BY DEF Threads
<1>3. Reclaiming'
  BY DEF Reclaiming
<1>4. FreePairsQuiet'
  BY DEF FreePairsQuiet, Idle
<1>5. PairsExclusive'
  BY DEF PairsExclusive
<1>6. Batching' /\ Submits' /\ Running' /\ Queued' /\ WorkKept'
  BY DEF Batching, Submits, Running, Queued, WorkKept, Idle
<1>7. QED
  BY <1>1, <1>2, <1>3, <1>4, <1>5, <1>6

\* The flag is set, without the lock, and no submitter is inside a call.
LEMMA DestroyStopInd ==
  ASSUME IndInv, DestroyStop
  PROVE  IndInv'
<1> USE DEF IndInv, DestroyStop, DestGoto, submitterVars, batchVars, gpuVars, poolVars, finVars
<1>1. TypeOK'
  BY DEF TypeOK
<1>2. Threads'
  BY DEF Threads
<1>3. Running'
  BY DEF Running
<1>4. Reclaiming'
  BY DEF Reclaiming
<1>5. FreePairsQuiet'
  BY DEF FreePairsQuiet
<1>6. PairsExclusive'
  BY DEF PairsExclusive
<1>7. Batching' /\ Submits' /\ Queued' /\ WorkKept'
  BY DEF Batching, Submits, Queued, WorkKept, Idle
<1>8. QED
  BY <1>1, <1>2, <1>3, <1>4, <1>5, <1>6, <1>7

\* Only the finalizer's wait is touched.
LEMMA DestroyNotifyInd ==
  ASSUME IndInv, DestroyNotify
  PROVE  IndInv'
<1> USE DEF IndInv, DestroyNotify, DestGoto, Wake, submitterVars, batchVars, gpuVars, poolVars, queueVars
<1>1. TypeOK'
  BY DEF TypeOK
<1>2. Threads'
  BY DEF Threads
<1>3. Reclaiming'
  BY DEF Reclaiming
<1>4. FreePairsQuiet'
  BY DEF FreePairsQuiet, Threads
<1>5. PairsExclusive'
  BY DEF PairsExclusive
<1>6. Batching' /\ Submits' /\ Running' /\ Queued' /\ WorkKept'
  BY DEF Batching, Submits, Running, Queued, WorkKept, Idle
<1>7. QED
  BY <1>1, <1>2, <1>3, <1>4, <1>5, <1>6

\* The device has nothing left to do.
LEMMA DestroyWaitIdleInd ==
  ASSUME IndInv, DestroyWaitIdle
  PROVE  IndInv'
<1> USE DEF IndInv, DestroyWaitIdle, DestGoto, submitterVars, batchVars, gpuVars, poolVars,
            queueVars, finVars
<1>1. TypeOK'
  BY DEF TypeOK
<1>2. Threads'
  BY DEF Threads
<1>3. Reclaiming'
  BY DEF Reclaiming, Idle
<1>4. FreePairsQuiet'
  BY DEF FreePairsQuiet, Threads
<1>5. PairsExclusive'
  BY DEF PairsExclusive
<1>6. Batching' /\ Submits' /\ Running' /\ Queued' /\ WorkKept'
  BY DEF Batching, Submits, Running, Queued, WorkKept, Idle
<1>7. QED
  BY <1>1, <1>2, <1>3, <1>4, <1>5, <1>6

\* Nothing is known of the device.
LEMMA DestroyWaitFailsInd ==
  ASSUME IndInv, DestroyWaitFails
  PROVE  IndInv'
<1> USE DEF IndInv, DestroyWaitFails, DestGoto, submitterVars, batchVars, gpuVars, poolVars,
            queueVars, finVars
<1>1. TypeOK'
  BY DEF TypeOK
<1>2. Threads'
  BY DEF Threads
<1>3. Reclaiming'
  BY DEF Reclaiming, Idle
<1>4. FreePairsQuiet'
  BY DEF FreePairsQuiet, Threads
<1>5. PairsExclusive'
  BY DEF PairsExclusive
<1>6. Batching' /\ Submits' /\ Running' /\ Queued' /\ WorkKept'
  BY DEF Batching, Submits, Running, Queued, WorkKept, Idle
<1>7. QED
  BY <1>1, <1>2, <1>3, <1>4, <1>5, <1>6

\* The finalizer has returned.
LEMMA DestroyJoinInd ==
  ASSUME IndInv, DestroyJoin
  PROVE  IndInv'
<1> USE DEF IndInv, DestroyJoin, DestGoto, submitterVars, batchVars, gpuVars, poolVars,
            queueVars, finVars
<1>1. TypeOK'
  BY DEF TypeOK
<1>2. Threads'
  BY DEF Threads
<1>3. Reclaiming'
  BY DEF Reclaiming, Idle
<1>4. FreePairsQuiet'
  BY DEF TypeOK, FreePairsQuiet, Idle, Reclaiming
<1>5. PairsExclusive'
  BY DEF PairsExclusive
<1>6. Batching' /\ Submits' /\ Running' /\ Queued' /\ WorkKept'
  BY DEF Batching, Submits, Running, Queued, WorkKept, Idle
<1>7. QED
  BY <1>1, <1>2, <1>3, <1>4, <1>5, <1>6

\* The pairs that are free are destroyed.
LEMMA DestroyTeardownInd ==
  ASSUME IndInv, DestroyTeardown
  PROVE  IndInv'
<1> USE DEF IndInv, DestroyTeardown, DestGoto, Free, submitterVars, batchVars, gpuVars,
            queueVars, finVars
<1>1. TypeOK'
  BY DEF TypeOK
<1>2. Threads'
  BY DEF Threads
<1>3. Reclaiming'
  BY DEF Reclaiming, Idle
<1>4. FreePairsQuiet'
  BY DEF FreePairsQuiet, Idle
<1>5. PairsExclusive'
  BY DEF PairsExclusive
<1>6. Batching' /\ Submits' /\ Running' /\ Queued' /\ WorkKept'
  BY DEF Batching, Submits, Running, Queued, WorkKept, Idle
<1>7. QED
  BY <1>1, <1>2, <1>3, <1>4, <1>5, <1>6

-------------------------------------------------------------------------------
(***************************************************************************)
(* The batches in the finalizer's care, counted.                           *)
(***************************************************************************)

\* Two vectors without a common batch, one after the other.
LEMMA ConcatStep ==
  ASSUME NEW s \in Seq(Batches), NEW r \in Seq(Batches)
  PROVE  /\ s \o r \in Seq(Batches)
         /\ RangeOf(s \o r) = RangeOf(s) \cup RangeOf(r)
         /\ IsInjective(s) /\ IsInjective(r) /\ RangeOf(s) \cap RangeOf(r) = {} =>
              IsInjective(s \o r)
<1> DEFINE c == s \o r
<1>1. /\ c \in Seq(Batches)
      /\ Len(c) = Len(s) + Len(r)
      /\ \A i \in 1..Len(s) : c[i] = s[i]
      /\ \A i \in 1..Len(r) : c[Len(s) + i] = r[i]
  OBVIOUS
<1> HIDE DEF c
<1>2. /\ DOMAIN c = 1..(Len(s) + Len(r))
      /\ DOMAIN s = 1..Len(s) /\ DOMAIN r = 1..Len(r)
      /\ Len(s) \in Nat /\ Len(r) \in Nat
  BY <1>1
<1>3. \A i \in DOMAIN c : \/ i \in DOMAIN s /\ c[i] = s[i]
                          \/ i - Len(s) \in DOMAIN r /\ c[i] = r[i - Len(s)]
  <2> SUFFICES ASSUME NEW i \in DOMAIN c, i \notin DOMAIN s
               PROVE  i - Len(s) \in DOMAIN r /\ c[i] = r[i - Len(s)]
    BY <1>1, <1>2
  <2>1. i - Len(s) \in 1..Len(r) /\ i = Len(s) + (i - Len(s))
    BY <1>2
  <2>2. QED
    BY <2>1, <1>1, <1>2
<1>4. RangeOf(c) = RangeOf(s) \cup RangeOf(r)
  <2>1. RangeOf(c) \subseteq RangeOf(s) \cup RangeOf(r)
    BY <1>3 DEF RangeOf
  <2>2. RangeOf(s) \subseteq RangeOf(c)
    BY <1>1, <1>2 DEF RangeOf
  <2>3. \A i \in 1..Len(r) : Len(s) + i \in DOMAIN c
    BY <1>2
  <2>4. RangeOf(r) \subseteq RangeOf(c)
    BY <1>1, <1>2, <2>3 DEF RangeOf
  <2>5. QED
    BY <2>1, <2>2, <2>4
<1>5. ASSUME IsInjective(s), IsInjective(r), RangeOf(s) \cap RangeOf(r) = {},
             NEW i \in DOMAIN c, NEW j \in DOMAIN c, c[i] = c[j]
      PROVE  i = j
  <2>1. CASE i \in DOMAIN s /\ c[i] = s[i] /\ j \in DOMAIN s /\ c[j] = s[j]
    BY <1>5, <2>1 DEF IsInjective
  <2>2. CASE /\ i - Len(s) \in DOMAIN r /\ c[i] = r[i - Len(s)]
             /\ j - Len(s) \in DOMAIN r /\ c[j] = r[j - Len(s)]
    <3>1. i - Len(s) = j - Len(s)
      BY <1>5, <2>2 DEF IsInjective
    <3>2. QED
      BY <3>1, <1>2
  <2>3. ~(c[i] \in RangeOf(s) /\ c[j] \in RangeOf(r)) /\ ~(c[j] \in RangeOf(s) /\ c[i] \in RangeOf(r))
    BY <1>5
  <2>4. QED
    BY <1>3, <2>1, <2>2, <2>3 DEF RangeOf
<1>6. QED
  BY <1>1, <1>4, <1>5 DEF c, IsInjective

\* A vector with no batch twice is as long as it has batches.
LEMMA InjectiveLength ==
  ASSUME NEW s \in Seq(Batches), IsInjective(s)
  PROVE  Cardinality(RangeOf(s)) = Len(s)
<1>1. s \in [1..Len(s) -> RangeOf(s)] /\ Len(s) \in Nat
  BY DEF RangeOf
<1>2. s \in Bijection(1..Len(s), RangeOf(s))
  BY <1>1 DEF Bijection, Injection, Surjection, RangeOf
<1>3. QED
  BY <1>1, <1>2, FS_CountingElements DEF ExistsBijection

\* What the two vectors and the finalizer's hands hold adds up to the batches
\* in its care.
LEMMA QueuedIsOnce == IndInv => QueuedOnce
<1> SUFFICES ASSUME IndInv PROVE QueuedOnce
  OBVIOUS
<1> DEFINE hand == IF fin_cur = NoBatch THEN <<>> ELSE <<fin_cur>>
           ahead == stagingResourcesQueue \o local
           q == ahead \o hand
<1>1. /\ hand \in Seq(Batches) /\ IsInjective(hand)
      /\ RangeOf(hand) = {fin_cur} \ {NoBatch}
  <2>1. CASE fin_cur = NoBatch
    BY <2>1, EmptyStep
  <2>2. CASE fin_cur # NoBatch
    BY <2>2 DEF IndInv, TypeOK, IsInjective, RangeOf
  <2>3. QED
    BY <2>1, <2>2
<1> HIDE DEF hand
<1>2. /\ stagingResourcesQueue \in Seq(Batches) /\ local \in Seq(Batches)
      /\ IsInjective(stagingResourcesQueue) /\ IsInjective(local)
      /\ RangeOf(stagingResourcesQueue) \cap RangeOf(local) = {}
      /\ fin_cur \notin RangeOf(stagingResourcesQueue) \cup RangeOf(local)
  BY DEF IndInv, TypeOK, Queued
<1>3. /\ ahead \in Seq(Batches) /\ IsInjective(ahead)
      /\ RangeOf(ahead) = RangeOf(stagingResourcesQueue) \cup RangeOf(local)
  BY <1>2, ConcatStep
<1> HIDE DEF ahead
<1>4. /\ q \in Seq(Batches) /\ IsInjective(q)
      /\ RangeOf(q) = RangeOf(ahead) \cup RangeOf(hand)
  BY <1>1, <1>2, <1>3, ConcatStep
<1>5. Cardinality(RangeOf(q)) = Len(q)
  BY <1>4, InjectiveLength
<1>6. RangeOf(q) = {b \in Batches : home[b] = "reclaim"}
  <2>1. RangeOf(q) \subseteq Batches
    BY <1>4 DEF RangeOf
  <2>2. \A b \in Batches : home[b] = "reclaim" <=> b \in RangeOf(q)
    BY <1>1, <1>3, <1>4, NamesAssumption DEF IndInv, Queued
  <2>3. QED
    BY <2>1, <2>2
<1>7. QED
  BY <1>5, <1>6 DEF QueuedOnce, ahead, hand

-------------------------------------------------------------------------------
(***************************************************************************)
(* The invariant holds.                                                    *)
(***************************************************************************)

\* Nothing has been used.
LEMMA InitInd == Init => IndInv
<1> SUFFICES ASSUME Init PROVE IndInv
  OBVIOUS
<1> USE DEF Init
<1>1. TypeOK
  BY EmptyStep, NamesAssumption DEF TypeOK
<1>2. Threads /\ Batching /\ WorkKept
  BY NamesAssumption DEF Threads, Batching, WorkKept
<1>3. Submits /\ Running /\ FreePairsQuiet
  BY DEF Submits, Running, FreePairsQuiet, Idle, Active
<1>4. Reclaiming /\ Queued
  BY EmptyStep, NamesAssumption DEF Reclaiming, Queued
<1>5. PairsExclusive
  BY NamesAssumption DEF PairsExclusive
<1>6. QED
  BY <1>1, <1>2, <1>3, <1>4, <1>5 DEF IndInv

\* Every step preserves the invariant.
LEMMA StepInd == IndInv /\ [Next]_vars => IndInv'
<1> SUFFICES ASSUME IndInv, [Next]_vars PROVE IndInv'
  OBVIOUS
<1>1. ASSUME NEW t \in Submitters, Submitting(t)
      PROVE  IndInv'
  BY <1>1, RecordInd, QueueSubmitInd, NotifyInd, DriverSubmitInd,
     StageSubmitInd, SubmitFailsInd, WaitOneShotInd, WaitOneShotFailsInd,
     FreeCommandBuffersInd
     DEF Submitting
<1>2. CASE Device
  BY <1>2, FinishWorkInd, FinishStageInd DEF Device
<1>3. CASE Finalizing \/ FinWaitFails \/ SpuriousWake
  BY <1>3, FinLoopInd, FinTakeInd, FinDozeInd, FinSleepInd, FinNextInd,
     FinWaitInd, FinWaitFailsInd, FinCleanupInd, FinDiscardInd, SpuriousWakeInd DEF Finalizing
<1>4. CASE Destroying \/ DestroyWaitFails
  BY <1>4, DestroyLookupInd, DestroyStopInd, DestroyNotifyInd, DestroyWaitIdleInd,
     DestroyWaitFailsInd, DestroyJoinInd, DestroyTeardownInd DEF Destroying
<1>5. CASE UNCHANGED vars
  <2> USE <1>5 DEF vars, submitterVars, batchVars, gpuVars, poolVars,
                   queueVars, finVars, IndInv
  <2>1. TypeOK' /\ Threads' /\ Batching' /\ WorkKept'
    BY DEF TypeOK, Threads, Batching, WorkKept
  <2>2. Submits' /\ Running' /\ FreePairsQuiet' /\ PairsExclusive'
    BY DEF Submits, Running, FreePairsQuiet, PairsExclusive, Idle, Active
  <2>3. Reclaiming' /\ Queued'
    BY DEF Reclaiming, Queued, Idle
  <2>4. QED
    BY <2>1, <2>2, <2>3
<1>6. QED
  BY <1>1, <1>2, <1>3, <1>4, <1>5 DEF Next

\* The invariant holds in every state.
LEMMA Inductive == Spec => []IndInv
BY InitInd, StepInd, PTL DEF Spec

-------------------------------------------------------------------------------
(***************************************************************************)
(* What the finalizer will find.                                           *)
(***************************************************************************)

\* The semaphore of a pair is signaled, or the device is going to signal it.
Signaling(p) == sem[p] \/ \E c \in Batches : work[c] = "pending" /\ signals[c] = p

\* The fence of a queued batch: FenceComes of one batch.
Coming(b) ==
    \/ signaled[pair[b]]
    \/ pair[b] \in stage
    \/ \E t \in Submitters : cur[t] = b /\ pc[t] \in {"notify", "driver", "stage"}
    \/ outcome[b] \in {"submit", "stage"}
    \/ pair[b] \in spoiled

\* The finalizer falls asleep beside an empty queue only, and with the lock.
Sleeping ==
    /\ fin_pc = "dozing" => global_lock = Finalizer /\ stagingResourcesQueue = <<>>
    /\ WakeUpKept

\* A second submission never waits for a semaphore nothing signals, but for
\* one of a spoiled pair.
Staged ==
    /\ \A p \in stage \ spoiled : Signaling(p)
    /\ \A t \in Submitters :
         pc[t] = "stage" /\ fence[t] \notin spoiled => Signaling(fence[t])

\* No thread inside a call has its result yet, and each fence comes.
Fences ==
    /\ \A t \in Submitters : pc[t] \in Active => outcome[cur[t]] = "none"
    /\ \A b \in Batches : home[b] = "reclaim" => Coming(b)

\* The inductive invariant, beside IndInv.
ServeInd ==
    /\ Sleeping
    /\ Staged
    /\ Fences

\* The pair of a queued batch is not free, so Acquire resets none that is
\* waited for.
LEMMA QueueSubmitServes ==
  ASSUME NEW t \in Submitters, IndInv, ServeInd, QueueSubmit(t)
  PROVE  ServeInd'
<1>1. /\ cur[t] \in Batches /\ home[cur[t]] = "cb" /\ dest_pc = "none" /\ pc[t] = "submit"
      /\ outcome[cur[t]] = "none" /\ pc' = [pc EXCEPT ![t] = "notify"]
      /\ UNCHANGED <<global_lock, cur, outcome, work, signals, stage, sem, fin_pc>>
      /\ global_lock = Nobody /\ spoiled \subseteq spoiled'
  BY DEF Acquire, QueueSubmit, Free, IndInv, TypeOK, Threads, Submits, ServeInd, Fences, Active, finVars
<1>2. pc \in [Submitters -> {"idle", "submit", "notify", "driver", "stage", "wait", "free",
                              "stuck"}]
  BY DEF IndInv, TypeOK
<1>3. Sleeping'
  BY <1>1, <1>2, NamesAssumption DEF ServeInd, Sleeping, WakeUpKept
<1>4. Staged'
  <2>1. \A u \in Submitters : pc'[u] = "stage" => pc[u] = "stage" /\ fence'[u] = fence[u]
    BY <1>1, <1>2 DEF QueueSubmit, IndInv, TypeOK
  <2>2. QED
    BY <1>1, <2>1 DEF ServeInd, Staged, Signaling
<1>5. \A b \in Batches : home[b] = "reclaim" =>
        /\ home'[b] = "reclaim" /\ pair'[b] = pair[b]
        /\ signaled'[pair[b]] = signaled[pair[b]]
  <2>1. CASE res[cur[t]] = "none"
    BY <1>1, <2>1 DEF QueueSubmit, IndInv, TypeOK
  <2>2. CASE res[cur[t]] # "none"
    <3>1. PICK p \in Pairs :
            /\ Acquire(p)
            /\ pair' = [pair EXCEPT ![cur[t]] = p]
            /\ home' = [home EXCEPT ![cur[t]] = "reclaim"]
      BY <2>2 DEF QueueSubmit
    <3>2. \A b \in Batches : pair[b] # p
      BY <1>1, <3>1, NamesAssumption DEF Acquire, IndInv, PairsExclusive
    <3>3. \A q \in Pairs : q # p => signaled'[q] = signaled[q]
      BY <3>1 DEF Acquire, IndInv, TypeOK
    <3>4. \A b \in Batches : home[b] = "reclaim" => pair[b] \in Pairs
      BY DEF IndInv, TypeOK, Batching
    <3>5. QED
      BY <1>1, <3>1, <3>2, <3>3, <3>4 DEF IndInv, TypeOK
  <2>3. QED
    BY <2>1, <2>2
<1>6. \A b \in Batches : home'[b] = "reclaim" => home[b] = "reclaim" \/ b = cur[t]
  BY <1>1 DEF QueueSubmit, IndInv, TypeOK
<1>7. Fences'
  <2>1. \A u \in Submitters : pc'[u] \in Active => pc[u] \in Active
    BY <1>1, <1>2 DEF Active
  <2>2. ASSUME NEW b \in Batches, home'[b] = "reclaim"
        PROVE  Coming(b)'
    <3>1. CASE b = cur[t]
      BY <1>1, <1>2, <3>1 DEF Coming
    <3>2. CASE b # cur[t]
      <4>1. Coming(b) /\ pair'[b] = pair[b] /\ signaled'[pair[b]] = signaled[pair[b]]
        BY <1>5, <1>6, <2>2, <3>2 DEF ServeInd, Fences
      <4>2. \A u \in Submitters : cur[u] = b => u # t /\ pc'[u] = pc[u]
        BY <1>1, <1>2, <3>2
      <4>3. QED
        BY <1>1, <4>1, <4>2 DEF Coming
    <3>3. QED
      BY <3>1, <3>2
  <2>3. QED
    BY <1>1, <2>1, <2>2 DEF ServeInd, Fences
<1>8. QED
  BY <1>3, <1>4, <1>7 DEF ServeInd

\* The other steps of a thread: what it leaves to do the next step does, or the
\* device.
LEMMA SubmitterServes ==
  ASSUME NEW t \in Submitters, IndInv, ServeInd, Submitting(t)
  PROVE  ServeInd'
<1> USE DEF ServeInd, gpuVars, poolVars, queueVars, finVars
<1>1. /\ pc \in [Submitters -> {"idle", "submit", "notify", "driver", "stage", "wait",
                                 "free", "stuck"}]
      /\ cur \in [Submitters -> Batches \cup {NoBatch}]
      /\ fence \in [Submitters -> Pairs \cup {NoPair}]
      /\ outcome \in [Batches -> {"none", "ok", "record", "submit", "stage", "unwaited"}]
      /\ home \in [Batches -> {"unused", "cb", "reclaim", "gone"}]
      /\ pc[t] # "idle" => cur[t] \in Batches
      /\ \A u \in Submitters : u # t => cur[u] # cur[t] \/ cur[t] = NoBatch
  BY DEF IndInv, TypeOK, Threads
<1>2. ASSUME NEW b \in Batches, Record(t, b)
      PROVE  ServeInd'
  <2> USE DEF Record, Free
  <2>1. \A u \in Submitters : u # t =>
          pc'[u] = pc[u] /\ cur'[u] = cur[u] /\ fence'[u] = fence[u] /\ cur[u] # b
    BY <1>1, <1>2 DEF IndInv, Batching
  <2>2. pc[t] = "idle" /\ pc'[t] \in {"submit", "free"} /\ cur'[t] = b
    BY <1>1, <1>2
  <2>3. Sleeping'
    BY <1>2, <2>1, <2>2 DEF Sleeping, WakeUpKept
  <2>4. Staged'
    BY <1>2, <2>1, <2>2 DEF Staged, Signaling
  <2>5. outcome[b] = "none" /\ home[b] = "unused" /\ home'[b] = "cb"
    BY <1>1, <1>2 DEF IndInv, Batching
  <2>6. \A c \in Batches : c # b => home'[c] = home[c] /\ outcome'[c] = outcome[c]
    BY <1>1, <1>2
  <2>7. pc'[t] = "submit" => outcome'[b] = "none"
    BY <1>1, <1>2, <2>5
  <2>8. \A u \in Submitters : pc[u] # "idle" => cur[u] \in Batches
    BY DEF IndInv, TypeOK, Threads
  <2>9. Fences'
    <3>1. ASSUME NEW u \in Submitters, pc'[u] \in Active
          PROVE  outcome'[cur'[u]] = "none"
      <4>1. CASE u = t
        BY <2>2, <2>7, <3>1, <4>1 DEF Active
      <4>2. CASE u # t
        BY <2>1, <2>6, <2>8, <3>1, <4>2 DEF Active, Fences
      <4>3. QED
        BY <4>1, <4>2
    <3>2. ASSUME NEW c \in Batches, home'[c] = "reclaim"
          PROVE  Coming(c)'
      <4>1. c # b /\ home[c] = "reclaim" /\ Coming(c)
        BY <2>5, <2>6, <3>2 DEF Fences
      <4>2. \A u \in Submitters : pc[u] \in {"notify", "driver", "stage"} =>
              u # t /\ pc'[u] = pc[u] /\ cur'[u] = cur[u]
        BY <2>1, <2>2
      <4>3. UNCHANGED <<signaled, pair, stage, spoiled>> /\ outcome'[c] = outcome[c]
        BY <1>2, <2>6, <4>1
      <4> HIDE DEF Record
      <4>4. QED
        BY <4>1, <4>2, <4>3 DEF Coming
    <3>3. QED
      BY <3>1, <3>2 DEF Fences
  <2>10. QED
    BY <2>3, <2>4, <2>9
<1>3. CASE Notify(t)
  <2> USE <1>3 DEF Notify, Wake, batchVars
  <2>1. Sleeping'
    BY DEF Sleeping, WakeUpKept
  <2>2. Staged'
    BY <1>1 DEF Staged, Signaling
  <2>3. Fences'
    BY <1>1 DEF Fences, Coming, Active
  <2>4. QED
    BY <2>1, <2>2, <2>3
<1>4. CASE DriverSubmit(t)
  <2> USE <1>4 DEF DriverSubmit, batchVars
  <2>1. /\ cur[t] \in Batches /\ work[cur[t]] = "unsubmitted"
        /\ work' = [work EXCEPT ![cur[t]] = "pending"]
        /\ signals' = [signals EXCEPT ![cur[t]] = fence[t]]
        /\ work \in [Batches -> {"unsubmitted", "pending", "done"}]
        /\ signals \in [Batches -> Pairs \cup {NoPair}]
        /\ home[cur[t]] = "reclaim" => fence[t] # NoPair
    BY <1>1 DEF IndInv, TypeOK, Submits, Batching
  <2>2. Signaling(fence[t])'
    BY <2>1 DEF Signaling
  <2>3. \A p : Signaling(p) => Signaling(p)'
    BY <2>1 DEF Signaling
  <2>4. Sleeping'
    BY <1>1 DEF Sleeping, WakeUpKept
  <2>5. Staged'
    BY <1>1, <2>2, <2>3 DEF Staged, Signaling
  <2>6. Fences'
    <3>1. \A u \in Submitters : u # t => pc'[u] = pc[u]
      BY <1>1
    <3>2. home[cur[t]] = "reclaim" => pc'[t] = "stage"
      BY <1>1, <2>1
    <3>3. pc[t] = "driver" /\ UNCHANGED <<cur, signaled, pair, stage, spoiled, outcome, home>>
      OBVIOUS
    <3>4. pc'[t] \in Active /\ pc[t] \in Active
      BY <1>1 DEF Active
    <3> HIDE DEF DriverSubmit
    <3>5. ASSUME NEW b \in Batches, home[b] = "reclaim"
          PROVE  Coming(b)'
      <4>1. CASE b = cur[t]
        BY <3>2, <3>3, <3>5, <4>1 DEF Coming
      <4>2. CASE b # cur[t]
        BY <3>1, <3>3, <3>5, <4>2 DEF Fences, Coming
      <4>3. QED
        BY <4>1, <4>2
    <3>6. QED
      BY <3>1, <3>3, <3>4, <3>5 DEF Fences
  <2>7. QED
    BY <2>4, <2>5, <2>6
<1>5. CASE StageSubmit(t)
  <2> USE <1>5 DEF StageSubmit, batchVars
  <2>1. /\ stage' = stage \cup {fence[t]}
        /\ fence[t] \notin spoiled => fence[t] = pair[cur[t]] /\ Signaling(fence[t])
        /\ home[cur[t]] = "reclaim" => pair[cur[t]] = fence[t]
    BY <1>1 DEF IndInv, Submits, Batching, Staged
  <2>2. \A p : Signaling(p)' <=> Signaling(p)
    BY DEF Signaling
  <2>3. Sleeping'
    BY <1>1 DEF Sleeping, WakeUpKept
  <2>4. Staged'
    BY <1>1, <2>1, <2>2 DEF Staged, Signaling
  <2>5. Fences'
    <3>1. /\ \A u \in Submitters : u # t => pc'[u] = pc[u]
          /\ pc[t] = "stage" /\ pc'[t] = "wait"
          /\ UNCHANGED <<cur, signaled, pair, spoiled, outcome, home>>
      BY <1>1
    <3> HIDE DEF StageSubmit
    <3>2. ASSUME NEW b \in Batches, home[b] = "reclaim"
          PROVE  Coming(b)'
      <4>1. CASE b = cur[t]
        BY <2>1, <3>1, <3>2, <4>1 DEF Coming
      <4>2. CASE b # cur[t]
        BY <2>1, <3>1, <3>2, <4>2 DEF Fences, Coming
      <4>3. QED
        BY <4>1, <4>2
    <3>3. QED
      BY <3>1, <3>2 DEF Fences, Active
  <2>6. QED
    BY <2>3, <2>4, <2>5
<1>6. CASE SubmitFails(t)
  <2> USE <1>6 DEF SubmitFails
  <2>1. /\ pc[t] \in {"driver", "stage"} /\ pc' = [pc EXCEPT ![t] = "free"]
        /\ cur[t] \in Batches
        /\ outcome' = [outcome EXCEPT ![cur[t]] = "submit"]
             \/ outcome' = [outcome EXCEPT ![cur[t]] = "stage"]
        /\ UNCHANGED <<cur, fence, signaled, pair, stage, spoiled, home, sem, work, signals, fin_pc,
                       global_lock, stagingResourcesQueue>>
    BY <1>1
  <2> HIDE DEF SubmitFails
  <2>2. Sleeping'
    BY <1>1, <2>1 DEF Sleeping, WakeUpKept
  <2>3. Staged'
    BY <1>1, <2>1 DEF Staged, Signaling
  <2>4. Fences'
    <3>1. \A u \in Submitters : u # t => pc'[u] = pc[u] /\ cur[u] # cur[t]
      BY <1>1, <2>1, NamesAssumption
    <3>2. \A u \in Submitters : pc'[u] \in Active => u # t /\ pc[u] \in Active
      BY <1>1, <2>1 DEF Active
    <3>3. \A u \in Submitters : pc'[u] \in Active => outcome'[cur'[u]] = "none"
      <4>1. \A u \in Submitters : pc[u] \in Active => cur[u] \in Batches
        BY DEF IndInv, TypeOK, Threads, Active
      <4>2. QED
        BY <1>1, <2>1, <3>1, <3>2, <4>1 DEF Fences
    <3>4. ASSUME NEW b \in Batches, home[b] = "reclaim"
          PROVE  Coming(b)'
      <4>1. CASE b = cur[t]
        BY <1>1, <2>1, <4>1 DEF Coming
      <4>2. CASE b # cur[t]
        <5>1. outcome'[b] = outcome[b]
          BY <1>1, <2>1, <4>2
        <5>2. QED
          BY <2>1, <3>1, <3>4, <4>2, <5>1 DEF Fences, Coming
      <4>3. QED
        BY <4>1, <4>2
    <3>5. QED
      BY <2>1, <3>3, <3>4 DEF Fences
  <2>5. QED
    BY <2>2, <2>3, <2>4
<1>7. CASE WaitOneShot(t) \/ WaitOneShotFails(t)
  <2> USE <1>7 DEF WaitOneShot, WaitOneShotFails
  <2>1. /\ pc[t] = "wait" /\ pc' = [pc EXCEPT ![t] = "free"]
        /\ cur[t] \in Batches /\ outcome[cur[t]] = "none"
        /\ \/ outcome' = [outcome EXCEPT ![cur[t]] = "ok"]
           \/ outcome' = [outcome EXCEPT ![cur[t]] = "unwaited"]
        /\ UNCHANGED <<cur, fence, signaled, pair, stage, spoiled, home, sem, work, signals, fin_pc,
                       global_lock, stagingResourcesQueue>>
    BY <1>1 DEF Fences, Active
  <2> HIDE DEF WaitOneShot, WaitOneShotFails
  <2>2. Sleeping'
    BY <1>1, <2>1 DEF Sleeping, WakeUpKept
  <2>3. Staged'
    BY <1>1, <2>1 DEF Staged, Signaling
  <2>4. Fences'
    <3>1. \A u \in Submitters : u # t => pc'[u] = pc[u] /\ cur[u] # cur[t]
      BY <1>1, <2>1, NamesAssumption
    <3>2. \A u \in Submitters : pc'[u] \in Active => outcome'[cur'[u]] = "none"
      <4>1. \A u \in Submitters : pc[u] \in Active => cur[u] \in Batches
        BY DEF IndInv, TypeOK, Threads, Active
      <4>2. pc'[t] \notin Active
        BY <1>1, <2>1 DEF Active
      <4>3. QED
        BY <1>1, <2>1, <3>1, <4>1, <4>2 DEF Fences
    <3>3. ASSUME NEW b \in Batches, home[b] = "reclaim"
          PROVE  Coming(b)'
      <4>1. \A u \in Submitters : pc[u] \in {"notify", "driver", "stage"} => pc'[u] = pc[u]
        BY <2>1, <3>1
      <4>2. outcome[b] \in {"submit", "stage"} => outcome'[b] = outcome[b]
        BY <1>1, <2>1
      <4>3. QED
        BY <2>1, <3>3, <4>1, <4>2 DEF Fences, Coming
    <3>4. QED
      BY <2>1, <3>2, <3>3 DEF Fences
  <2>5. QED
    BY <2>2, <2>3, <2>4
<1>8. CASE FreeCommandBuffers(t)
  <2> USE <1>8 DEF FreeCommandBuffers, Free
  <2>1. /\ global_lock = Nobody /\ pc[t] = "free" /\ pc'[t] \in {"idle", "stuck"}
        /\ \A u \in Submitters : u # t => pc'[u] = pc[u] /\ cur'[u] = cur[u]
        /\ \A b \in Batches : home'[b] = "reclaim" => home[b] = "reclaim"
        /\ UNCHANGED <<fence, signaled, pair, stage, spoiled, sem, work, signals, fin_pc,
                       stagingResourcesQueue, outcome>>
    BY <1>1
  <2> HIDE DEF FreeCommandBuffers
  <2>2. Sleeping'
    BY <2>1, NamesAssumption DEF Sleeping, WakeUpKept
  <2>3. Staged'
    BY <2>1 DEF Staged, Signaling
  <2>4. Fences'
    <3>1. \A u \in Submitters : pc'[u] \in Active => u # t /\ pc[u] \in Active
      BY <2>1 DEF Active
    <3>2. \A u \in Submitters : pc[u] \in {"notify", "driver", "stage"} =>
            pc'[u] = pc[u] /\ cur'[u] = cur[u]
      BY <2>1
    <3>3. QED
      BY <2>1, <3>1, <3>2 DEF Fences, Coming
  <2>5. QED
    BY <2>2, <2>3, <2>4
<1>9. QED
  BY <1>2, <1>3, <1>4, <1>5, <1>6, <1>7, <1>8, QueueSubmitServes DEF Submitting

\* The device signals what was announced.
LEMMA DeviceServes ==
  ASSUME IndInv, ServeInd, Device
  PROVE  ServeInd'
<1> USE DEF ServeInd, submitterVars, batchVars, poolVars, queueVars, finVars
<1>1. /\ sem \in [Pairs -> BOOLEAN] /\ signaled \in [Pairs -> BOOLEAN]
      /\ work \in [Batches -> {"unsubmitted", "pending", "done"}]
      /\ signals \in [Batches -> Pairs \cup {NoPair}]
      /\ stage \subseteq Pairs
      /\ \A t \in Submitters : pc[t] = "stage" => 
           /\ fence[t] \in Pairs
           /\ fence[t] \notin spoiled => fence[t] \notin stage
      /\ \A b \in Batches : home[b] = "reclaim" => pair[b] \in Pairs
  BY DEF IndInv, TypeOK, Submits, Batching
<1>2. ASSUME NEW b \in Batches, FinishWork(b)
      PROVE  ServeInd'
  <2>1. Sleeping' /\ Fences'
    BY <1>2 DEF FinishWork, Sleeping, WakeUpKept, Fences, Coming
  <2>2. ASSUME NEW p \in Pairs, Signaling(p)
        PROVE  Signaling(p)'
    <3>1. CASE sem[p]
      BY <1>1, <1>2, <3>1 DEF FinishWork, Signaling
    <3>2. CASE signals[b] = p
      BY <1>1, <1>2, <3>2, NamesAssumption DEF FinishWork, Signaling
    <3>3. ASSUME NEW c \in Batches, c # b, work[c] = "pending", signals[c] = p
          PROVE  Signaling(p)'
      BY <1>1, <1>2, <3>3 DEF FinishWork, Signaling
    <3>4. QED
      BY <2>2, <3>1, <3>2, <3>3 DEF Signaling
  <2>3. Staged'
    <3>1. UNCHANGED <<stage, spoiled, pc, fence>>
      BY <1>2 DEF FinishWork
    <3>2. QED
      BY <1>1, <2>2, <3>1 DEF Staged
  <2>4. QED
    BY <2>1, <2>3
<1>3. ASSUME NEW p \in Pairs, FinishStage(p)
      PROVE  ServeInd'
  <2>1. Sleeping'
    BY <1>3 DEF FinishStage, Sleeping, WakeUpKept
  <2>2. \A q \in Pairs : q # p /\ Signaling(q) => Signaling(q)'
    BY <1>1, <1>3 DEF FinishStage, Signaling
  <2>3. Staged'
    <3>1. /\ p \in stage /\ stage' = stage \ {p} /\ UNCHANGED <<spoiled, pc, fence>>
      BY <1>3 DEF FinishStage
    <3>2. QED
      BY <1>1, <2>2, <3>1 DEF Staged
  <2>4. Fences'
    BY <1>1, <1>3 DEF FinishStage, Fences, Coming
  <2>5. QED
    BY <2>1, <2>3, <2>4
<1>4. QED
  BY <1>2, <1>3 DEF Device

\* A batch that is cleaned up is not queued any more; the others are as before.
LEMMA CleanupServes ==
  ASSUME IndInv, ServeInd, NEW b \in Batches, Cleanup(b),
         UNCHANGED <<global_lock, submitterVars, res, outcome, gpuVars, spoiled,
                     stagingResourcesQueue>>,
         fin_pc' \notin {"dozing", "asleep"}
  PROVE  ServeInd'
<1> USE DEF ServeInd, submitterVars, gpuVars
<1>1. /\ home' = [home EXCEPT ![b] = "gone"] /\ pair' = [pair EXCEPT ![b] = NoPair]
      /\ home \in [Batches -> {"unused", "cb", "reclaim", "gone"}]
      /\ pair \in [Batches -> Pairs \cup {NoPair}]
  BY DEF Cleanup, IndInv, TypeOK
<1>2. Sleeping'
  BY DEF Sleeping, WakeUpKept
<1>3. Staged'
  BY DEF Staged, Signaling
<1>4. \A c \in Batches : home'[c] = "reclaim" => home[c] = "reclaim" /\ pair'[c] = pair[c]
  BY <1>1
<1>5. Fences'
  BY <1>4 DEF Fences, Coming
<1>6. QED
  BY <1>2, <1>3, <1>5

\* The finalizer sleeps after it has seen an empty queue, under the lock.
LEMMA FinalizerServes ==
  ASSUME IndInv, ServeInd, Finalizing \/ FinWaitFails \/ SpuriousWake
  PROVE  ServeInd'
<1> USE DEF ServeInd
<1>1. CASE FinCleanup
  <2>1. fin_cur \in Batches /\ fin_pc = "cleanup"
    BY <1>1 DEF FinCleanup, IndInv, TypeOK, Reclaiming
  <2>2. QED
    BY <1>1, <2>1, CleanupServes DEF FinCleanup, queueVars
<1>2. CASE FinDiscard /\ local # <<>>
  <2>1. local[Len(local)] \in Batches
    BY <1>2, FrontStep DEF IndInv, TypeOK
  <2>2. Cleanup(local[Len(local)]) /\ fin_pc' = "discard"
    BY <1>2 DEF FinDiscard
  <2>3. QED
    BY <1>2, <2>1, <2>2, CleanupServes DEF FinDiscard, queueVars
<1>3. CASE FinLoop \/ FinTake \/ FinDoze \/ FinSleep \/ SpuriousWake \/ FinNext \/ FinWait
           \/ FinWaitFails \/ (FinDiscard /\ local = <<>>)
  <2>1. UNCHANGED <<submitterVars, outcome, pair, home, gpuVars>> /\ spoiled \subseteq spoiled'
    BY <1>3 DEF FinLoop, FinTake, FinDoze, FinSleep, SpuriousWake, FinNext, FinWait,
                FinWaitFails, FinDiscard, batchVars, poolVars
  <2>2. Staged'
    BY <2>1 DEF Staged, Signaling, submitterVars, gpuVars
  <2>3. Fences'
    BY <2>1 DEF Fences, Coming, submitterVars, gpuVars
  <2>4. Sleeping'
    BY <1>3 DEF FinLoop, FinTake, FinDoze, FinSleep, SpuriousWake, FinNext, FinWait,
                FinWaitFails, FinDiscard, FinGoto, queueVars, submitterVars, Sleeping, WakeUpKept
  <2>5. QED
    BY <2>2, <2>3, <2>4
<1>4. QED
  BY <1>1, <1>2, <1>3 DEF Finalizing

\* DestroyDevice touches the queue's owner, not the queue.
LEMMA DestroyServes ==
  ASSUME IndInv, ServeInd, Destroying \/ DestroyWaitFails
  PROVE  ServeInd'
<1> USE DEF ServeInd
<1>1. /\ UNCHANGED <<submitterVars, batchVars, gpuVars, spoiled, stagingResourcesQueue>>
      /\ fin_pc' = fin_pc \/ fin_pc' = "check"
      /\ global_lock' = global_lock \/ global_lock = Nobody
  BY DEF Destroying, DestroyLookup, DestroyStop, DestroyNotify, DestroyWaitIdle,
         DestroyWaitFails, DestroyJoin, DestroyTeardown, poolVars, Wake, Free, queueVars, finVars
<1>2. Sleeping'
  BY <1>1, NamesAssumption DEF Sleeping, WakeUpKept, submitterVars
<1>3. Staged'
  BY <1>1 DEF Staged, Signaling, submitterVars, gpuVars
<1>4. Fences'
  BY <1>1 DEF Fences, Coming, submitterVars, gpuVars, batchVars
<1>5. QED
  BY <1>2, <1>3, <1>4

\* Both invariants hold in every state.
LEMMA ServeInductive == Spec => [](IndInv /\ ServeInd)
<1>1. Init => IndInv /\ ServeInd
  <2>1. Init => ServeInd
    BY DEF Init, ServeInd, Sleeping, WakeUpKept, Staged, Fences, Active
  <2>2. QED
    BY <2>1, InitInd
<1>2. IndInv /\ ServeInd /\ [Next]_vars => (IndInv /\ ServeInd)'
  <2> SUFFICES ASSUME IndInv, ServeInd, [Next]_vars PROVE ServeInd'
    BY StepInd
  <2>1. CASE UNCHANGED vars
    <3> USE <2>1 DEF vars, submitterVars, batchVars, gpuVars, poolVars, queueVars, finVars, ServeInd
    <3>1. Sleeping'
      BY DEF Sleeping, WakeUpKept
    <3>2. Staged'
      BY DEF Staged, Signaling
    <3>3. Fences'
      BY DEF Fences, Coming
    <3>4. QED
      BY <3>1, <3>2, <3>3
  <2>2. QED
    BY <2>1, SubmitterServes, DeviceServes, FinalizerServes, DestroyServes DEF Next
<1>3. QED
  BY <1>1, <1>2, PTL DEF Spec

-------------------------------------------------------------------------------
(***************************************************************************)
(* Phases.                                                                 *)
(***************************************************************************)

\* A step that changes one batch is a move of that batch.
LEMMA PhaseMoves ==
  ASSUME NEW b \in Batches, NEW from, NEW to, Phase[b] = from, Phase[b]' = to,
         \A c \in Batches : c # b => Phase[c]' = Phase[c]
  PROVE  Lifetime!Move(b, from, to)
<1>1. Phase = [c \in Batches |-> Phase[c]] /\ Phase' = [c \in Batches |-> Phase[c]']
  BY DEF Phase
<1> HIDE DEF Phase
<1>2. Phase' = [Phase EXCEPT ![b] = to]
  BY <1>1
<1>3. QED
  BY <1>2 DEF Lifetime!Move

\* One that changes none leaves all phases alone.
LEMMA PhaseStays ==
  ASSUME \A c \in Batches : Phase[c]' = Phase[c]
  PROVE  UNCHANGED Phase
BY DEF Phase

-------------------------------------------------------------------------------
(***************************************************************************)
(* The theorems.                                                           *)
(***************************************************************************)

\* Threads, batches, pairs and vectors are what they should be (queue.cpp).
THEOREM TypeCorrect == Spec => []TypeOK
<1>1. IndInv => TypeOK
  BY DEF IndInv
<1>2. QED
  BY <1>1, Inductive, PTL

\* What the device may still execute keeps its command buffer and its staging
\* resources, whichever thread frees them first; a one-shot that gave up keeps
\* the resources until the device is destroyed, and a failed wait of the
\* finalizer costs only the batches that use its pair (SubmitOneShot,
\* QueueSubmit and the finalizer thread of queue.cpp, FreeCommandBuffers).
THEOREM BatchesAreKept == Spec => []PendingWorkKept
<1>1. IndInv => PendingWorkKept
  <2> SUFFICES ASSUME IndInv, NEW b \in Batches, work[b] = "pending"
               PROVE  /\ outcome[b] \notin GivenUp => ~cb_freed[b]
                      /\ /\ res[b] # "none" /\ signals[b] \notin spoiled
                         /\ outcome[b] \notin GivenUp \/ ~stop_thread
                         => home[b] = "reclaim"
    BY DEF PendingWorkKept
  <2>1. outcome[b] \notin GivenUp =>
          ~cb_freed[b] /\ (res[b] # "none" /\ signals[b] \notin spoiled => home[b] = "reclaim")
    BY DEF IndInv, WorkKept
  <2>2. ~stop_thread /\ res[b] # "none" /\ signals[b] \notin spoiled => pair[b] # NoPair
    BY DEF IndInv, Running
  <2>3. pair[b] # NoPair => home[b] = "reclaim"
    BY DEF IndInv, Batching
  <2>4. QED
    BY <2>1, <2>2, <2>3
<1>2. QED
  BY <1>1, Inductive, PTL

\* A batch that was handed over is in the queue, in the finalizer's vector or
\* in its hands, once, and nothing else is; the finalizer does not sleep beside
\* a queue unless a notification is coming; and the fence it will wait for is
\* signaled or will be, unless the driver refused a submission or a call for
\* its pair failed (the push in QueueSubmit, FinalizerThread). It is what QueuedReclaimed rests on.
THEOREM QueueIsServed == Spec => []QueueServed
<1>1. IndInv /\ ServeInd => QueueServed
  <2> SUFFICES ASSUME IndInv, ServeInd PROVE WakeUpKept /\ FenceComes
    BY QueuedIsOnce DEF QueueServed
  <2>1. \A b \in Batches : home[b] = "reclaim" => Coming(b)
    BY DEF ServeInd, Fences
  <2>2. \A p \in stage \ spoiled : Signaling(p)
    BY DEF ServeInd, Staged
  <2>3. QED
    BY <2>1, <2>2 DEF ServeInd, Sleeping, FenceComes, Coming, Signaling
<1>2. QED
  BY <1>1, ServeInductive, PTL

\* No submission refers to a pair in the pool and its semaphore is
\* unsignaled, so Acquire may reset it and a submission signal it, unless a
\* call for this pair failed; when the pool is destroyed the device is done
\* with every pair, unless DeviceWaitIdle failed (SyncPool of layer.hpp).
THEOREM FreePairsAreQuiet == Spec => []FreePairsQuiet
<1>1. IndInv => FreePairsQuiet
  BY DEF IndInv
<1>2. QED
  BY <1>1, Inductive, PTL

\* Every pair ever created is in the pool or in one batch until the pool is
\* destroyed: none is in two places and none is lost (SyncPool's Acquire and
\* Release).
THEOREM PairsAreExclusive == Spec => []PairsExclusive
<1>1. IndInv => PairsExclusive
  BY DEF IndInv
<1>2. QED
  BY <1>1, Inductive, PTL

-------------------------------------------------------------------------------
(***************************************************************************)
(* Refinement of BatchLifetime.                                            *)
(***************************************************************************)

\* A step that touches nothing a phase is made of.
LEMMA QuietRefines ==
  ASSUME UNCHANGED <<home, res, work, outcome, pair, spoiled>>
  PROVE  UNCHANGED Phase
BY DEF Phase

\* Cleaning a batch up ends its life, for the device is done with it, or
\* somebody gave it up.
LEMMA CleanupRefines ==
  ASSUME IndInv, NEW b \in Batches, home[b] = "reclaim",
         work[b] # "pending" \/ outcome[b] \in GivenUp \/ pair[b] \in spoiled,
         Cleanup(b), UNCHANGED <<res, work, outcome, spoiled>>
  PROVE  Lifetime!Reclaim(b)
<1>1. /\ home' = [home EXCEPT ![b] = "gone"] /\ res[b] # "none"
      /\ pair' = [pair EXCEPT ![b] = NoPair]
      /\ home \in [Batches -> {"unused", "cb", "reclaim", "gone"}]
      /\ pair \in [Batches -> Pairs \cup {NoPair}]
      /\ work[b] \in {"unsubmitted", "pending", "done"}
  BY DEF IndInv, TypeOK, Batching, Cleanup
<1>2. \A c \in Batches : c # b => Phase[c]' = Phase[c]
  BY <1>1 DEF Phase
<1>3. Phase[b]' = "reclaimed" /\ Phase[b] \in {"recorded", "finished", "abandoned"}
  BY <1>1 DEF Phase
<1>4. QED
  BY <1>2, <1>3, PhaseMoves DEF Lifetime!Reclaim

\* A batch that is given up, or has its pair spoiled, is abandoned, unless it
\* was already or is gone.
LEMMA GivingUpRefines ==
  ASSUME IndInv, NEW b \in Batches, home[b] # "unused",
         Faults \cap {"stage", "pair", "wait", "fence"} # {},
         UNCHANGED <<home, res, work>>,
         \A c \in Batches : c # b =>
            /\ outcome'[c] = outcome[c]
            /\ pair'[c] \in spoiled' <=> pair[c] \in spoiled,
         outcome'[b] \in GivenUp \/ pair'[b] \in spoiled'
  PROVE  Lifetime!Abandon(b) \/ UNCHANGED Phase
<1>1. \A c \in Batches : c # b => Phase[c]' = Phase[c]
  BY DEF Phase
<1>2. CASE home[b] = "gone" /\ res[b] # "none"
  <2>1. Phase[b]' = Phase[b]
    BY <1>2 DEF Phase
  <2>2. QED
    BY <1>1, <2>1, PhaseStays
<1>3. CASE ~(home[b] = "gone" /\ res[b] # "none")
  <2>1. Phase[b]' = "abandoned"
    BY <1>3 DEF Phase
  <2>2. Phase[b] \in {"recorded", "executing", "finished", "abandoned"}
    BY <1>3 DEF Phase
  <2>3. CASE Phase[b] = "abandoned"
    BY <1>1, <2>1, <2>3, PhaseStays
  <2>4. CASE Phase[b] # "abandoned"
    BY <1>1, <2>1, <2>2, <2>4, PhaseMoves DEF Lifetime!Abandon
  <2>5. QED
    BY <2>3, <2>4
<1>4. QED
  BY <1>2, <1>3

\* Pairs are spoiled by calls that may fail.
Spoiling == spoiled # {} => Faults \cap {"pair", "fence"} # {}

\* No other step spoils one.
LEMMA SpoilingInductive == Spec => []Spoiling
<1>1. Init => Spoiling
  BY DEF Init, Spoiling
<1>2. Spoiling /\ [Next]_vars => Spoiling'
  <2> SUFFICES ASSUME Spoiling, [Next]_vars,
                      spoiled' # spoiled
               PROVE  Faults \cap {"pair", "fence"} # {}
    BY DEF Spoiling
  <2>1. ASSUME NEW t \in Submitters, Submitting(t)
        PROVE  "pair" \in Faults
    <3>1. QueueSubmit(t)
      BY <2>1 DEF Submitting, Record, Notify, DriverSubmit, StageSubmit, SubmitFails,
                  WaitOneShot, WaitOneShotFails, FreeCommandBuffers, poolVars
    <3>2. QED
      BY <3>1 DEF QueueSubmit, Acquire
  <2>2. CASE Device
    BY <2>2 DEF Device, FinishWork, FinishStage, poolVars
  <2>3. CASE Finalizing \/ SpuriousWake
    BY <2>3 DEF Finalizing, FinLoop, FinTake, FinDoze, FinSleep, FinNext, FinWait,
                FinCleanup, FinDiscard, SpuriousWake, poolVars
  <2>4. CASE FinWaitFails
    BY <2>4 DEF FinWaitFails
  <2>5. CASE Destroying \/ DestroyWaitFails
    BY <2>5 DEF Destroying, DestroyLookup, DestroyStop, DestroyNotify, DestroyWaitIdle,
                DestroyWaitFails, DestroyJoin, DestroyTeardown, poolVars
  <2>6. CASE UNCHANGED vars
    BY <2>6 DEF vars, poolVars
  <2>7. QED
    BY <2>1, <2>2, <2>3, <2>4, <2>5, <2>6 DEF Next
<1>3. QED
  BY <1>1, <1>2, PTL DEF Spec

\* What a submitting thread does is a step of BatchLifetime or none.
LEMMA SubmitterRefines ==
  ASSUME IndInv, ServeInd, Spoiling, NEW t \in Submitters, Submitting(t)
  PROVE  Lifetime!Next \/ UNCHANGED Phase
<1>1. ASSUME NEW b \in Batches, Record(t, b)
      PROVE  Lifetime!Next
  <2>1. /\ home[b] = "unused" /\ work[b] = "unsubmitted" /\ outcome[b] = "none"
        /\ pair[b] = NoPair /\ NoPair \notin spoiled
        /\ home' = [home EXCEPT ![b] = "cb"] /\ home'[b] = "cb" /\ work' = work
        /\ UNCHANGED <<pair, spoiled>> /\ outcome'[b] \in {"none", "record"}
        /\ \A c \in Batches : c # b =>
             home'[c] = home[c] /\ res'[c] = res[c] /\ outcome'[c] = outcome[c]
    BY <1>1, NamesAssumption DEF Record, IndInv, TypeOK, Batching, gpuVars, poolVars
  <2>2. Phase[b] = "unused" /\ Phase[b]' = "recorded"
    BY <2>1 DEF Phase, GivenUp
  <2>3. \A c \in Batches : c # b => Phase[c]' = Phase[c]
    BY <2>1 DEF Phase
  <2>4. QED
    BY <2>2, <2>3, PhaseMoves DEF Lifetime!Record, Lifetime!Next
<1>2. CASE QueueSubmit(t)
  <2> DEFINE b == cur[t]
  <2>1. /\ b \in Batches /\ home[b] = "cb" /\ work[b] = "unsubmitted"
        /\ pair[b] = NoPair /\ NoPair \notin spoiled
        /\ home \in [Batches -> {"unused", "cb", "reclaim", "gone"}]
        /\ pair \in [Batches -> Pairs \cup {NoPair}]
        /\ outcome[b] = "none" /\ dest_pc = "none"
        /\ UNCHANGED <<res, work, outcome>>
    BY <1>2, NamesAssumption
       DEF QueueSubmit, IndInv, TypeOK, Threads, Submits, Batching, ServeInd, Fences, Active
  <2>2. CASE res[b] = "none"
    <3>1. home' = [home EXCEPT ![b] = "gone"] /\ UNCHANGED <<pair, spoiled>>
      BY <1>2, <2>2 DEF QueueSubmit
    <3>2. \A c \in Batches : Phase[c]' = Phase[c]
      BY <2>1, <2>2, <3>1 DEF Phase
    <3>3. QED
      BY <3>2, PhaseStays
  <2>3. CASE res[b] # "none"
    <3>1. PICK p \in Pairs :
            /\ Acquire(p)
            /\ home' = [home EXCEPT ![b] = "reclaim"]
            /\ pair' = [pair EXCEPT ![b] = p]
      BY <1>2, <2>3 DEF QueueSubmit
    <3>2. \A c \in Batches : pair[c] # p
      BY <2>1, <3>1, NamesAssumption DEF Acquire, IndInv, PairsExclusive
    <3>3. \/ spoiled' = spoiled
          \/ spoiled' = spoiled \cup {p} /\ "pair" \in Faults
      BY <3>1 DEF Acquire
    <3>4. \A c \in Batches : c # b => Phase[c]' = Phase[c]
      BY <2>1, <3>1, <3>2, <3>3 DEF Phase
    <3>5. Phase[b] = "recorded"
      BY <2>1 DEF Phase, GivenUp
    <3>6. CASE p \notin spoiled'
      <4>1. Phase'[b] = "recorded"
        BY <2>1, <3>1, <3>6 DEF Phase, GivenUp
      <4>2. QED
        BY <3>4, <3>5, <4>1, PhaseStays
    <3>7. CASE p \in spoiled'
      <4>1. Phase'[b] = "abandoned"
        BY <2>1, <3>1, <3>7 DEF Phase
      <4>2. Faults \cap {"stage", "pair", "wait", "fence"} # {}
        BY <3>3, <3>7 DEF Spoiling
      <4>3. Lifetime!Move(b, "recorded", "abandoned")
        BY <2>1, <3>4, <3>5, <4>1, PhaseMoves
      <4>4. Lifetime!Abandon(b)
        BY <4>2, <4>3 DEF Lifetime!Abandon
      <4>5. QED
        BY <2>1, <4>4 DEF Lifetime!Next
    <3>8. QED
      BY <3>6, <3>7
  <2>4. QED
    BY <2>2, <2>3
<1>3. CASE DriverSubmit(t)
  <2>1. /\ cur[t] \in Batches /\ work[cur[t]] = "unsubmitted" /\ outcome[cur[t]] = "none"
        /\ home[cur[t]] \in {"gone", "reclaim"}
        /\ work' = [work EXCEPT ![cur[t]] = "pending"]
        /\ UNCHANGED <<home, res, outcome, pair, spoiled>>
        /\ work \in [Batches -> {"unsubmitted", "pending", "done"}]
    BY <1>3
       DEF DriverSubmit, IndInv, TypeOK, Threads, Submits, batchVars, poolVars, ServeInd,
           Fences, Active
  <2>2. \A c \in Batches : c # cur[t] => Phase[c]' = Phase[c]
    BY <2>1 DEF Phase
  <2>3. CASE \/ home[cur[t]] = "gone" /\ res[cur[t]] # "none"
             \/ pair[cur[t]] \in spoiled
    <3>1. Phase'[cur[t]] = Phase[cur[t]]
      BY <2>1, <2>3 DEF Phase
    <3>2. QED
      BY <2>2, <3>1, PhaseStays
  <2>4. CASE ~ \/ home[cur[t]] = "gone" /\ res[cur[t]] # "none"
               \/ pair[cur[t]] \in spoiled
    <3>1. Phase[cur[t]] = "recorded" /\ Phase'[cur[t]] = "executing"
      BY <2>1, <2>4 DEF Phase, GivenUp
    <3>2. Lifetime!Submit(cur[t])
      BY <2>1, <2>2, <3>1, PhaseMoves DEF Lifetime!Submit
    <3>3. QED
      BY <2>1, <3>2 DEF Lifetime!Next
  <2>5. QED
    BY <2>3, <2>4
<1>4. CASE FreeCommandBuffers(t)
  <2> DEFINE b == cur[t]
  <2>1. /\ b \in Batches /\ UNCHANGED <<res, work, outcome, pair, spoiled>>
        /\ home \in [Batches -> {"unused", "cb", "reclaim", "gone"}]
        /\ NoPair \notin spoiled
    BY <1>4, NamesAssumption
       DEF FreeCommandBuffers, IndInv, TypeOK, Threads, gpuVars, poolVars
  <2>2. \/ UNCHANGED home
        \/ home[b] = "cb" /\ home' = [home EXCEPT ![b] = "gone"]
    BY <1>4, <2>1 DEF FreeCommandBuffers
  <2>3. CASE UNCHANGED home
    BY <2>1, <2>3, QuietRefines
  <2>4. CASE home[b] = "cb" /\ home' = [home EXCEPT ![b] = "gone"]
    <3>1. /\ Phase[b] \in {"recorded", "abandoned"} /\ work[b] = "unsubmitted"
          /\ pair[b] = NoPair
      BY <2>1, <2>4 DEF IndInv, Batching, Phase
    <3>2. \A c \in Batches : c # b => Phase[c]' = Phase[c]
      BY <2>1, <2>4 DEF Phase
    <3>3. CASE res[b] = "none"
      <4>1. Phase'[b] = Phase[b]
        BY <2>1, <2>4, <3>3 DEF Phase
      <4>2. QED
        BY <3>2, <4>1, PhaseStays
    <3>4. CASE res[b] # "none"
      <4>1. Phase'[b] = "reclaimed"
        BY <2>1, <2>4, <3>4 DEF Phase
      <4>2. Lifetime!Reclaim(b)
        BY <2>1, <3>1, <3>2, <4>1, PhaseMoves DEF Lifetime!Reclaim
      <4>3. QED
        BY <2>1, <4>2 DEF Lifetime!Next
    <3>5. QED
      BY <3>3, <3>4
  <2>5. QED
    BY <2>2, <2>3, <2>4
<1>5. CASE SubmitFails(t) \/ WaitOneShotFails(t)
  <2> DEFINE b == cur[t]
  <2>1. /\ b \in Batches /\ home[b] # "unused"
        /\ UNCHANGED <<home, res, work, pair, spoiled>>
        /\ outcome \in [Batches -> {"none", "ok", "record", "submit", "stage", "unwaited"}]
        /\ outcome[b] = "none"
    BY <1>5
       DEF SubmitFails, WaitOneShotFails, IndInv, TypeOK, Threads, Batching, gpuVars, poolVars,
           ServeInd, Fences, Active
  <2>2. \/ outcome' = [outcome EXCEPT ![b] = "submit"]
        \/ outcome' = [outcome EXCEPT ![b] = "stage"] /\ "stage" \in Faults
        \/ outcome' = [outcome EXCEPT ![b] = "unwaited"] /\ "wait" \in Faults
    BY <1>5 DEF SubmitFails, WaitOneShotFails
  <2>3. CASE outcome' = [outcome EXCEPT ![b] = "submit"]
    <3>1. \A c \in Batches : outcome'[c] \in GivenUp <=> outcome[c] \in GivenUp
      BY <2>1, <2>3 DEF GivenUp
    <3>2. \A c \in Batches : Phase[c]' = Phase[c]
      BY <2>1, <3>1 DEF Phase
    <3>3. QED
      BY <3>2, PhaseStays
  <2>4. CASE outcome' # [outcome EXCEPT ![b] = "submit"]
    <3>1. /\ outcome'[b] \in GivenUp
          /\ \A c \in Batches : c # b => outcome'[c] = outcome[c]
          /\ Faults \cap {"stage", "pair", "wait", "fence"} # {}
      BY <2>1, <2>2, <2>4 DEF GivenUp
    <3>2. Lifetime!Abandon(b) \/ UNCHANGED Phase
      BY <2>1, <3>1, GivingUpRefines
    <3>3. QED
      BY <2>1, <3>2 DEF Lifetime!Next
  <2>5. QED
    BY <2>3, <2>4
<1>6. CASE WaitOneShot(t)
  <2>1. /\ UNCHANGED <<home, res, work, pair, spoiled>>
        /\ \A c \in Batches : outcome'[c] \in GivenUp <=> outcome[c] \in GivenUp
    <3>1. /\ cur[t] \in Batches /\ outcome[cur[t]] = "none"
          /\ outcome' = [outcome EXCEPT ![cur[t]] = "ok"]
          /\ outcome \in [Batches -> {"none", "ok", "record", "submit", "stage", "unwaited"}]
      BY <1>6 DEF WaitOneShot, IndInv, TypeOK, Threads, ServeInd, Fences, Active
    <3>2. QED
      BY <1>6, <3>1 DEF WaitOneShot, gpuVars, poolVars, GivenUp
  <2>2. \A c \in Batches : Phase[c]' = Phase[c]
    BY <2>1 DEF Phase
  <2>3. QED
    BY <2>2, PhaseStays
<1>7. CASE Notify(t) \/ StageSubmit(t)
  BY <1>7, QuietRefines DEF Notify, StageSubmit, batchVars, gpuVars, poolVars
<1>8. QED
  BY <1>1, <1>2, <1>3, <1>4, <1>5, <1>6, <1>7 DEF Submitting

\* The end of the work of a batch that was not given up is the end of its
\* execution; it still holds what it was recorded with.
LEMMA FinishWorkRefines ==
  ASSUME IndInv, NEW b \in Batches, FinishWork(b)
  PROVE  Lifetime!Next \/ UNCHANGED Phase
<1>1. /\ work[b] = "pending" /\ work' = [work EXCEPT ![b] = "done"]
      /\ work \in [Batches -> {"unsubmitted", "pending", "done"}]
      /\ home[b] # "unused" /\ UNCHANGED <<home, res, outcome, pair, spoiled>>
  BY DEF FinishWork, IndInv, TypeOK, Batching, batchVars, poolVars
<1>2. \A c \in Batches : c # b => Phase[c]' = Phase[c]
  BY <1>1 DEF Phase
<1>3. CASE \/ home[b] = "gone" /\ res[b] # "none"
           \/ outcome[b] \in GivenUp \/ pair[b] \in spoiled
  <2>1. Phase[b]' = Phase[b]
    BY <1>1, <1>3 DEF Phase
  <2>2. QED
    BY <1>2, <2>1, PhaseStays
<1>4. CASE ~ \/ home[b] = "gone" /\ res[b] # "none"
             \/ outcome[b] \in GivenUp \/ pair[b] \in spoiled
  <2>1. Phase[b] = "executing" /\ Phase[b]' = "finished"
    BY <1>1, <1>4 DEF Phase
  <2>2. QED
    BY <1>2, <2>1, PhaseMoves DEF Lifetime!Finish, Lifetime!Next
<1>5. QED
  BY <1>3, <1>4

\* Every step is one of BatchLifetime or leaves the phases alone.
LEMMA StepRefines ==
  ASSUME IndInv, ServeInd, Spoiling, [Next]_vars
  PROVE  [Lifetime!Next]_Phase
<1>1. ASSUME NEW t \in Submitters, Submitting(t)
      PROVE  [Lifetime!Next]_Phase
  BY <1>1, SubmitterRefines
<1>2. ASSUME NEW b \in Batches, FinishWork(b)
      PROVE  [Lifetime!Next]_Phase
  BY <1>2, FinishWorkRefines
<1>3. CASE FinCleanup
  <2>1. /\ fin_cur \in Batches /\ home[fin_cur] = "reclaim"
        /\ signaled[pair[fin_cur]] \/ pair[fin_cur] \in spoiled
        /\ pair[fin_cur] \in Pairs
    BY <1>3 DEF FinCleanup, IndInv, TypeOK, Reclaiming, Queued, Batching
  <2>2. work[fin_cur] # "pending" \/ outcome[fin_cur] \in GivenUp \/ pair[fin_cur] \in spoiled
    <3>1. stop_thread /\ work[fin_cur] = "pending" => outcome[fin_cur] \in GivenUp
      BY <2>1 DEF IndInv, Running, Threads
    <3>2. work[fin_cur] = "pending" => signals[fin_cur] = pair[fin_cur]
      BY <2>1, NamesAssumption DEF IndInv, Running
    <3>3. ~stop_thread /\ ~Idle(pair[fin_cur]) => ~signaled[pair[fin_cur]] \/ pair[fin_cur] \in spoiled
      BY <2>1 DEF IndInv, Running
    <3>4. QED
      BY <2>1, <3>1, <3>2, <3>3 DEF Idle
  <2>3. UNCHANGED <<res, work, outcome, spoiled>> /\ Cleanup(fin_cur)
    BY <1>3 DEF FinCleanup, gpuVars
  <2>4. Lifetime!Reclaim(fin_cur)
    BY <2>1, <2>2, <2>3, CleanupRefines
  <2>5. QED
    BY <2>1, <2>4 DEF Lifetime!Next
<1>4. CASE FinDiscard
  <2> DEFINE b == local[Len(local)]
  <2>1. CASE local = <<>>
    BY <1>4, <2>1, QuietRefines DEF FinDiscard, gpuVars
  <2>2. CASE local # <<>>
    <3>1. b \in Batches /\ home[b] = "reclaim" /\ stop_thread
      BY <1>4, <2>2, FrontStep
         DEF FinDiscard, IndInv, TypeOK, Reclaiming, Queued
    <3>2. work[b] # "pending" \/ outcome[b] \in GivenUp
      BY <3>1 DEF IndInv, Running, Threads
    <3>3. Cleanup(b) /\ UNCHANGED <<res, work, outcome, spoiled>>
      BY <1>4, <2>2 DEF FinDiscard, gpuVars
    <3>4. Lifetime!Reclaim(b)
      BY <3>1, <3>2, <3>3, CleanupRefines
    <3>5. QED
      BY <3>1, <3>4 DEF Lifetime!Next
  <2>3. QED
    BY <2>1, <2>2
<1>5. CASE FinWaitFails
  <2> DEFINE b == fin_cur
  <2>1. /\ b \in Batches /\ home[b] = "reclaim" /\ pair[b] \in Pairs
        /\ spoiled' = spoiled \cup {pair[b]} /\ "fence" \in Faults
        /\ UNCHANGED <<home, res, work, outcome, pair>>
    BY <1>5 DEF FinWaitFails, IndInv, TypeOK, Reclaiming, Queued, Batching, batchVars, gpuVars
  <2>2. \A c \in Batches : c # b => (pair'[c] \in spoiled' <=> pair[c] \in spoiled)
    BY <2>1, NamesAssumption DEF IndInv, PairsExclusive
  <2>3. Faults \cap {"stage", "pair", "wait", "fence"} # {}
    BY <2>1
  <2>4. Lifetime!Abandon(b) \/ UNCHANGED Phase
    BY <2>1, <2>2, <2>3, GivingUpRefines
  <2>5. QED
    BY <2>1, <2>4 DEF Lifetime!Next
<1>6. CASE \/ \E p \in Pairs : FinishStage(p)
           \/ FinLoop \/ FinTake \/ FinDoze \/ FinSleep \/ FinNext \/ FinWait
           \/ SpuriousWake
  BY <1>6, QuietRefines DEF FinishStage, FinLoop, FinTake, FinDoze, FinSleep,
     FinNext, FinWait, SpuriousWake, batchVars, gpuVars, poolVars
<1>7. CASE Destroying \/ DestroyWaitFails
  BY <1>7, QuietRefines DEF Destroying, DestroyLookup, DestroyStop, DestroyNotify,
     DestroyWaitIdle, DestroyWaitFails, DestroyJoin, DestroyTeardown, batchVars, gpuVars,
     poolVars
<1>8. CASE UNCHANGED vars
  BY <1>8, QuietRefines DEF vars, batchVars, gpuVars, poolVars
<1>9. QED
  BY <1>1, <1>2, <1>3, <1>4, <1>5, <1>6, <1>7, <1>8 DEF Next, Device, Finalizing

\* Every batch is unused.
LEMMA InitRefines == Init => Lifetime!Init
BY DEF Init, Lifetime!Init, Phase

\* A batch is recorded, submitted once, executed and only then reclaimed, once,
\* unless a failed call made its owner abandon it before; it is abandoned at
\* most once, one batch at a time and none where no such call can fail:
\* StagingReclaim implements BatchLifetime, whatever fails.
THEOREM ImplementsLifetime == Spec => LifetimeSpec
<1>1. IndInv /\ ServeInd /\ Spoiling /\ [Next]_vars => [Lifetime!Next]_Phase
  BY StepRefines
<1>2. QED
  BY <1>1, InitRefines, ServeInductive, SpoilingInductive, PTL DEF Spec, LifetimeSpec, Lifetime!Spec
===============================================================================
