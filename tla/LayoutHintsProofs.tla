-------------------------- MODULE LayoutHintsProofs ---------------------------
(***************************************************************************)
(* Proofs about LayoutHints for any threads, handles, shaders and          *)
(* pipelines.                                                              *)
(*                                                                         *)
(* A thread that creates a pipeline holds no lock from one step to the     *)
(* next, so the invariant says what the other threads may have done        *)
(* meanwhile. The objects of the pipeline stay (Standing), for the         *)
(* application may not destroy them, and so the maps give what the driver  *)
(* knows of them (LayoutsTracked, ModulesTracked). A set layout may go at  *)
(* any moment, and its handle may come back: numbers tell the layouts      *)
(* apart that have had one handle. No entry, no pointer that a thread has  *)
(* kept and no hint that is due names a layout that is about to be entered *)
(* (Fresh), so a pointer with the number of the layout that exists now is  *)
(* to an entry that is still there.                                        *)
(*                                                                         *)
(* That no hint is lost is an invariant of the work under way (Owing):     *)
(* whatever is due to a layout that still exists is there already, or      *)
(* among the stages, the bindings or the write the thread has left. All of *)
(* it but for handles that were given out while their old entry was still  *)
(* to be erased: the thread that does so later takes the new entry with it *)
(* (racedHandles).                                                         *)
(***************************************************************************)
EXTENDS LayoutHints, TLAPS

\* Set layouts and pipeline layouts; what a pipeline is to leave in one
\* binding; the steps of a thread at work on an object and on a pipeline.
LayoutObjects == SetLayouts \cup PipelineLayouts
Debts == [at : SetLayouts, layout : 1 .. MaxLayouts, binding : BindingNumbers]
ObjectSteps == {"insert", "track", "erase", "destroyModule"}
PipelineSteps == {"findLayout", "stage", "binding", "write", "undefined"}

\* The creation of o has returned, and o has not been destroyed.
Ready(o) ==
    /\ exists[o] # Nothing
    /\ \A u \in HintThreads : hintAt[u] \in {"insert", "track"} => object[u] # o

\* A module that no thread is destroying.
Kept(m) ==
    /\ Ready(m)
    /\ \A u \in HintThreads : hintAt[u] = "destroyModule" => object[u] # m

\* The bindings that the modules of a sequence show.
Reflection(code) == IF code = Unreadable THEN {} ELSE code
ShownBy(s) == UNION {Reflection(exists[s[i]]) : i \in DOMAIN s}

\* The types of what is kept of objects, and of what threads work on.
HintTypes ==
    /\ hintAt \in [HintThreads -> {"idle"} \cup ObjectSteps \cup PipelineSteps]
    /\ object \in [HintThreads -> HintObjects \cup {Nothing}]
    /\ created \in 0 .. MaxLayouts
    /\ DOMAIN exists = HintObjects /\ DOMAIN entries = HintObjects
    /\ \A o \in SetLayouts :
         /\ exists[o] \in 1 .. created \cup {Nothing}
         /\ entries[o] \in LayoutEntries \cup {Nothing}
         /\ entries[o] # Nothing => entries[o].layout <= created
    /\ \A o \in PipelineLayouts :
         exists[o] \in SetLayoutLists \cup {Nothing} /\ entries[o] \in SetLayoutLists \cup {Nothing}
    /\ \A o \in Modules : exists[o] \in Codes \cup {Nothing}
    /\ racedHandles \in SUBSET HintObjects

WorkTypes ==
    /\ pipeline \in [HintThreads -> NewPipelines \cup {Nothing}]
    /\ stages \in [HintThreads -> Seq(Modules)]
    /\ bindings \in [HintThreads -> SUBSET Reflected]
    /\ writing \in [HintThreads -> Writings \cup {Nothing}]
    /\ \A t \in HintThreads : writing[t] # Nothing => writing[t].layout <= created
    /\ owed \in [HintThreads -> SUBSET Debts]
    /\ \A t \in HintThreads : \A w \in owed[t] : w.layout <= created
    /\ settled \in SUBSET Debts

\* A thread works on an object of the right kind.  No two threads create or
\* destroy the same object, but for a handle that came back before its entry
\* was erased.
Objects ==
    /\ \A t \in HintThreads :
         /\ hintAt[t] \notin ObjectSteps => object[t] = Nothing
         /\ hintAt[t] \in {"insert", "erase"} => object[t] \in LayoutObjects
         /\ hintAt[t] \in {"track", "destroyModule"} => object[t] \in Modules
         /\ hintAt[t] \in {"insert", "track"} => exists[object[t]] # Nothing
         /\ hintAt[t] = "erase" /\ exists[object[t]] # Nothing => object[t] \in racedHandles
         /\ hintAt[t] = "destroyModule" => Ready(object[t])
    /\ \A t, u \in HintThreads :
         /\ t # u /\ object[t] = object[u]
         /\ hintAt[t] \in {"insert", "track", "destroyModule"}
         => hintAt[u] \notin {"insert", "track", "destroyModule"}

\* A module that stays is in its map, if it could be reflected.
ModulesTracked ==
    \A m \in Modules : entries[m] = IF Kept(m) /\ exists[m] # Unreadable THEN exists[m] ELSE Nothing

\* A layout whose creation has returned has its own entry, or none if its
\* handle was given out too early.
LayoutsTracked ==
    /\ \A o \in LayoutObjects : Ready(o) /\ o \notin racedHandles => entries[o] # Nothing
    /\ \A o \in PipelineLayouts : Ready(o) => entries[o] \in {Nothing, exists[o]}
    /\ \A o \in SetLayouts : Ready(o) /\ entries[o] # Nothing => entries[o].layout = exists[o]

\* A set layout about to be entered has a number that nothing names.
Fresh ==
    \A t \in HintThreads : hintAt[t] = "insert" /\ object[t] \in SetLayouts =>
        LET o == object[t]
        IN  /\ entries[o] # Nothing => entries[o].layout # exists[o]
            /\ \A u \in HintThreads :
                 /\ writing[u] # Nothing /\ writing[u].at = o => writing[u].layout # exists[o]
                 /\ \A w \in owed[u] : w.at = o => w.layout # exists[o]

\* A hint that is due is there.
Hinted(w) ==
    entries[w.at] # Nothing /\ entries[w.at].hints[w.binding] # Nothing

\* What is due once the creation of a pipeline has returned.
Settled ==
    \A w \in settled :
        /\ Ready(w.at) /\ exists[w.at] = w.layout
        /\ w.at \notin racedHandles => Hinted(w)

\* The binding d of a pipeline goes to the set layout at o.
GoesTo(p, d, o) == d.set \in DOMAIN exists[p.layout] /\ o = For(p, d)

\* A thread has yet to hand on such a binding.
Pending(t, w) ==
    \E d \in bindings[t] \cup ShownBy(stages[t])
               \cup {writing[u].binding : u \in {v \in {t} : writing[v] # Nothing}} :
        d.binding = w.binding /\ GoesTo(pipeline[t], d, w.at)

\* The objects a pipeline is created from stay.
Standing(t) ==
    /\ Ready(pipeline[t].layout)
    /\ \A i \in DOMAIN pipeline[t].stages : Kept(pipeline[t].stages[i])

\* What a thread has left is of its own pipeline.
Steps(t) ==
    /\ \A i \in DOMAIN stages[t] : \E j \in DOMAIN pipeline[t].stages :
         stages[t][i] = pipeline[t].stages[j]
    /\ bindings[t] \subseteq ShownBy(pipeline[t].stages)
    /\ hintAt[t] = "findLayout" => stages[t] = pipeline[t].stages
    /\ hintAt[t] \in {"findLayout", "stage"} => bindings[t] = {}
    /\ hintAt[t] \in {"findLayout", "stage", "binding"} => writing[t] = Nothing
    /\ hintAt[t] = "write" => writing[t] # Nothing
    /\ writing[t] # Nothing =>
         /\ writing[t].binding \in ShownBy(pipeline[t].stages)
         /\ GoesTo(pipeline[t], writing[t].binding, writing[t].at)

\* A freed entry was one of a layout that is gone, or of a handle given out
\* too early.
Freed(t) ==
    hintAt[t] = "undefined" =>
      \/ pipeline[t].layout \in racedHandles
      \/ /\ writing[t] # Nothing
         /\ \/ exists[writing[t].at] # writing[t].layout
            \/ writing[t].at \in racedHandles

\* No hint that is due is lost.
Owing(t) ==
    /\ owed[t] # {} => pipeline[t].layout \notin racedHandles
    /\ \A w \in owed[t] :
         exists[w.at] = w.layout /\ w.at \notin racedHandles => Pending(t, w) \/ Hinted(w)

Working(t) == Standing(t) /\ Steps(t) /\ Freed(t) /\ Owing(t)

\* A thread that creates no pipeline.
Waiting(t) ==
    /\ hintAt[t] \notin PipelineSteps
    /\ bindings[t] = {} /\ writing[t] = Nothing /\ owed[t] = {} /\ stages[t] = <<>>

Works ==
    \A t \in HintThreads :
        IF pipeline[t] = Nothing THEN Waiting(t) ELSE hintAt[t] \in PipelineSteps /\ Working(t)

\* The inductive invariant.
IndInv ==
    /\ HintTypes
    /\ WorkTypes
    /\ Objects
    /\ ModulesTracked
    /\ LayoutsTracked
    /\ Fresh
    /\ Settled
    /\ Works

-------------------------------------------------------------------------------
(***************************************************************************)
(* Objects and the pipelines they are part of.                             *)
(***************************************************************************)

\* Objects of different kinds are different.
LEMMA KindFacts ==
  /\ \A o \in SetLayouts : o[1] = "setLayout" /\ o \notin PipelineLayouts /\ o \notin Modules
  /\ \A o \in PipelineLayouts : o[1] # "setLayout" /\ o \notin SetLayouts /\ o \notin Modules
  /\ \A o \in Modules : o[1] # "setLayout" /\ o \notin LayoutObjects
  /\ HintObjects = SetLayouts \cup PipelineLayouts \cup Modules
  /\ LayoutObjects = SetLayouts \cup PipelineLayouts
BY DEF SetLayouts, PipelineLayouts, Modules, HintObjects, LayoutObjects

\* Nothing is none of the values it stands beside.
LEMMA NothingFacts ==
  /\ Nothing \notin HintObjects /\ Nothing \notin Codes /\ Nothing \notin SetLayoutLists
  /\ \A n \in 1 .. MaxLayouts : n # Nothing
  /\ Nothing \notin LayoutEntries /\ Nothing \notin Writings /\ Nothing \notin NewPipelines
BY NothingAssumption

\* The terms of the module in those of these proofs.
LEMMA ReadyAvailable == Available = {o \in HintObjects : Ready(o)}
BY DEF Available, Ready

LEMMA ShownIs == \A p : Shown(p) = ShownBy(p.stages)
BY DEF Shown, ShownBy, Reflection

\* The object is part of a pipeline that is being created.
InPipeline(o) ==
    \E u \in HintThreads : pipeline[u] # Nothing /\
        (pipeline[u].layout = o
          \/ \E i \in DOMAIN pipeline[u].stages : pipeline[u].stages[i] = o)

LEMMA InPipelineFacts ==
  ASSUME IndInv
  PROVE  /\ \A o : InPipeline(o) => Ready(o) /\ o \in HintObjects
         /\ \A o \in Modules : InPipeline(o) => Kept(o)
         /\ \A u \in HintThreads : pipeline[u] # Nothing =>
              /\ pipeline[u].layout \in PipelineLayouts
              /\ pipeline[u].stages \in Seq(Modules)
              /\ \A i \in DOMAIN pipeline[u].stages : pipeline[u].stages[i] \in Modules
<1>1. ASSUME NEW u \in HintThreads, pipeline[u] # Nothing
      PROVE  /\ pipeline[u].layout \in PipelineLayouts /\ pipeline[u].stages \in Seq(Modules)
             /\ \A i \in DOMAIN pipeline[u].stages : pipeline[u].stages[i] \in Modules
             /\ Standing(u)
  <2>1. pipeline[u] \in NewPipelines
    BY <1>1 DEF IndInv, WorkTypes
  <2>2. pipeline[u].layout \in PipelineLayouts /\ pipeline[u].stages \in Seq(Modules)
    BY <2>1, LayoutHintsAssumption DEF NewPipelines
  <2>3. QED
    BY <1>1, <2>2 DEF IndInv, Works, Working
<1>2. ASSUME NEW o, InPipeline(o)
      PROVE  Ready(o) /\ o \in HintObjects /\ (o \in Modules => Kept(o))
  BY <1>1, <1>2, KindFacts DEF InPipeline, Standing, Kept
<1>3. QED
  BY <1>1, <1>2

\* What is used by nobody is part of no pipeline.
LEMMA UsableFacts ==
  ASSUME IndInv, NEW o, Usable(o)
  PROVE  Kept(o) /\ o \in HintObjects /\ ~InPipeline(o)
<1>1. o \in HintObjects /\ Ready(o)
  BY ReadyAvailable DEF Usable
<1>2. ASSUME NEW u \in HintThreads, hintAt[u] = "destroyModule"
      PROVE  object[u] # o
  <2>1. pipeline[u] = Nothing
    BY <1>2 DEF IndInv, Works, PipelineSteps
  <2>2. InUse(u) = {object[u]}
    BY <1>2, <2>1 DEF InUse
  <2>3. QED
    BY <2>2 DEF Usable
<1>3. ~InPipeline(o)
  BY DEF InUse, Usable, InPipeline
<1>4. QED
  BY <1>1, <1>2, <1>3 DEF Kept

\* A step on objects disturbs no pipeline that is being created.
LEMMA WorksGoOn ==
  ASSUME IndInv, UNCHANGED workVars,
         \A u \in HintThreads : \A s \in PipelineSteps : hintAt'[u] = s <=> hintAt[u] = s,
         \A o \in HintObjects : InPipeline(o) =>
           /\ exists'[o] = exists[o]
           /\ Ready(o) => Ready(o)'
           /\ Kept(o) => Kept(o)',
         \A o \in SetLayouts : exists'[o] \in {exists[o], Nothing, created + 1},
         \A o \in HintObjects :
           /\ o \in racedHandles /\ o \notin racedHandles' => exists'[o] = Nothing
           /\ o \notin racedHandles /\ o \in racedHandles' => exists[o] = Nothing,
         \A u \in HintThreads : \A w \in owed[u] :
           /\ exists'[w.at] = w.layout /\ w.at \notin racedHandles' /\ Hinted(w)
           => Hinted(w)'
  PROVE  Works'
<1> SUFFICES ASSUME NEW t \in HintThreads
             PROVE  IF pipeline'[t] = Nothing THEN Waiting(t)'
                    ELSE hintAt'[t] \in PipelineSteps /\ Working(t)'
  BY DEF Works
<1>1. /\ pipeline' = pipeline /\ stages' = stages /\ bindings' = bindings
      /\ writing' = writing /\ owed' = owed
  BY DEF workVars
<1>2. CASE pipeline[t] = Nothing
  BY <1>1, <1>2 DEF IndInv, Works, Waiting
<1>3. CASE pipeline[t] # Nothing
  <2> DEFINE p == pipeline[t]
  <2>0. /\ InPipeline(p.layout) /\ p.layout \in HintObjects
        /\ \A i \in DOMAIN p.stages : InPipeline(p.stages[i]) /\ p.stages[i] \in HintObjects
    BY <1>3, InPipelineFacts DEF InPipeline
  <2>1. /\ hintAt[t] \in PipelineSteps /\ Standing(t) /\ Steps(t) /\ Freed(t) /\ Owing(t)
        /\ hintAt'[t] = hintAt[t] /\ Standing(t)'
        /\ exists'[p.layout] = exists[p.layout]
        /\ \A i \in DOMAIN p.stages : exists'[p.stages[i]] = exists[p.stages[i]]
    <3>1. hintAt[t] \in PipelineSteps /\ Standing(t) /\ Steps(t) /\ Freed(t) /\ Owing(t)
      BY <1>3 DEF IndInv, Works, Working
    <3>2. QED
      BY <1>1, <2>0, <3>1 DEF Standing
  <2>2. p \in NewPipelines /\ p.layout \in PipelineLayouts /\ p.layout \in HintObjects
    BY <1>3, KindFacts DEF IndInv, WorkTypes, NewPipelines
  <2>3. exists[p.layout] # Nothing
    BY <2>1 DEF Standing, Ready
  <2>4. ShownBy(p.stages)' = ShownBy(p.stages) /\ ShownBy(stages[t])' = ShownBy(stages[t])
    BY <1>1, <2>1 DEF ShownBy, Steps
  <2>5. \A d, o : GoesTo(p, d, o)' <=> GoesTo(p, d, o)
    BY <1>1, <2>1 DEF GoesTo, For
  <2>6. Steps(t)'
    BY <1>1, <2>1, <2>4, <2>5 DEF Steps
  <2>7. Freed(t)'
    <3> SUFFICES ASSUME hintAt[t] = "undefined", p.layout \notin racedHandles'
                 PROVE  /\ writing[t] # Nothing
                        /\ \/ exists'[writing[t].at] # writing[t].layout
                           \/ writing[t].at \in racedHandles'
      BY <1>1, <2>1 DEF Freed
    <3>1. p.layout \notin racedHandles
      BY <2>1, <2>2, <2>3
    <3>2. /\ writing[t] # Nothing /\ writing[t] \in Writings
          /\ writing[t].at \in SetLayouts /\ writing[t].at \in HintObjects
          /\ writing[t].layout \in 1 .. MaxLayouts /\ writing[t].layout <= created
      BY <2>1, <3>1, KindFacts DEF Freed, IndInv, WorkTypes, Writings
    <3>3. /\ writing[t].layout # Nothing /\ writing[t].layout # created + 1
      BY <3>2, NothingFacts, LayoutHintsAssumption DEF IndInv, HintTypes
    <3>4. \/ exists[writing[t].at] # writing[t].layout \/ writing[t].at \in racedHandles
      BY <2>1, <3>1 DEF Freed
    <3>5. QED
      BY <3>2, <3>3, <3>4
  <2>8. Owing(t)'
    <3>1. ASSUME owed[t] # {}
          PROVE  p.layout \notin racedHandles'
      BY <2>1, <2>2, <2>3, <3>1 DEF Owing
    <3>2. ASSUME NEW w \in owed[t], exists'[w.at] = w.layout, w.at \notin racedHandles'
          PROVE  Pending(t, w)' \/ Hinted(w)'
      <4>1. /\ w.at \in SetLayouts /\ w.at \in HintObjects
            /\ w.layout \in 1 .. MaxLayouts /\ w.layout <= created
        BY KindFacts DEF IndInv, WorkTypes, Debts
      <4>2. w.layout # Nothing /\ w.layout # created + 1
        BY <4>1, NothingFacts, LayoutHintsAssumption DEF IndInv, HintTypes
      <4>3. exists[w.at] = w.layout /\ w.at \notin racedHandles
        BY <3>2, <4>1, <4>2
      <4>4. Pending(t, w) \/ Hinted(w)
        BY <2>1, <4>3 DEF Owing
      <4>5. Pending(t, w) => Pending(t, w)'
        BY <1>1, <2>4, <2>5 DEF Pending
      <4>6. QED
        BY <3>2, <4>4, <4>5
    <3>3. QED
      BY <1>1, <3>1, <3>2 DEF Owing
  <2>9. QED
    BY <1>1, <1>3, <2>1, <2>6, <2>7, <2>8 DEF Working
<1>4. QED
  BY <1>2, <1>3

\* The step of a thread that creates a pipeline: it leaves the objects alone,
\* and adds hints at most.
OnlyAdds ==
    /\ DOMAIN entries' = HintObjects
    /\ \A o \in PipelineLayouts \cup Modules : entries'[o] = entries[o]
    /\ \A o \in SetLayouts :
         /\ entries'[o] \in LayoutEntries \cup {Nothing}
         /\ entries'[o] # Nothing <=> entries[o] # Nothing
         /\ entries[o] # Nothing =>
              /\ entries'[o].layout = entries[o].layout
              /\ \A b \in BindingNumbers :
                   entries[o].hints[b] # Nothing => entries'[o].hints[b] # Nothing

Moves(t) ==
    /\ UNCHANGED trackVars
    /\ OnlyAdds
    /\ hintAt[t] \notin ObjectSteps
    /\ hintAt' \in [HintThreads -> {"idle"} \cup ObjectSteps \cup PipelineSteps]
    /\ hintAt'[t] \notin ObjectSteps
    /\ \A u \in HintThreads \ {t} :
         /\ hintAt'[u] = hintAt[u] /\ pipeline'[u] = pipeline[u] /\ stages'[u] = stages[u]
         /\ bindings'[u] = bindings[u] /\ writing'[u] = writing[u] /\ owed'[u] = owed[u]

\* In particular when no entry changes.
LEMMA UnchangedAdds ==
  ASSUME HintTypes, UNCHANGED entries
  PROVE  OnlyAdds
BY DEF HintTypes, OnlyAdds

\* Such a step keeps all that is said of objects, and takes no hint away.
LEMMA MoveFacts ==
  ASSUME IndInv, NEW t \in HintThreads, Moves(t)
  PROVE  /\ HintTypes' /\ Objects' /\ ModulesTracked' /\ LayoutsTracked'
         /\ \A o : Ready(o)' <=> Ready(o)
         /\ \A o : Kept(o)' <=> Kept(o)
         /\ \A w \in Debts : Hinted(w) => Hinted(w)'
<1>1. /\ object' = object /\ exists' = exists /\ created' = created
      /\ racedHandles' = racedHandles
  BY DEF Moves, trackVars
<1>2. \A u \in HintThreads : \A s \in ObjectSteps : hintAt'[u] = s <=> hintAt[u] = s
  BY DEF Moves
<1>3. \A u \in HintThreads :
        /\ hintAt'[u] = "insert" <=> hintAt[u] = "insert"
        /\ hintAt'[u] = "track" <=> hintAt[u] = "track"
        /\ hintAt'[u] = "erase" <=> hintAt[u] = "erase"
        /\ hintAt'[u] = "destroyModule" <=> hintAt[u] = "destroyModule"
        /\ hintAt'[u] \in ObjectSteps <=> hintAt[u] \in ObjectSteps
  BY <1>2 DEF ObjectSteps
<1>4. \A o : Ready(o)' <=> Ready(o)
  BY <1>1, <1>3 DEF Ready
<1>5. \A o : Kept(o)' <=> Kept(o)
  BY <1>1, <1>3, <1>4 DEF Kept
<1>6. HintTypes'
  BY <1>1, KindFacts DEF IndInv, HintTypes, Moves, OnlyAdds
<1>7. Objects'
  <2>1. ASSUME NEW u \in HintThreads
        PROVE  /\ hintAt'[u] \notin ObjectSteps => object[u] = Nothing
               /\ hintAt'[u] \in {"insert", "erase"} => object[u] \in LayoutObjects
               /\ hintAt'[u] \in {"track", "destroyModule"} => object[u] \in Modules
               /\ hintAt'[u] \in {"insert", "track"} => exists[object[u]] # Nothing
               /\ hintAt'[u] = "erase" /\ exists[object[u]] # Nothing => object[u] \in racedHandles
               /\ hintAt'[u] = "destroyModule" => Ready(object[u])
    BY <1>3 DEF IndInv, Objects
  <2>2. ASSUME NEW v \in HintThreads, NEW u \in HintThreads, v # u, object[v] = object[u],
               hintAt'[v] \in {"insert", "track", "destroyModule"}
        PROVE  hintAt'[u] \notin {"insert", "track", "destroyModule"}
    BY <1>3, <2>2 DEF IndInv, Objects
  <2>3. \A o : Ready(o) => Ready(o)'
    BY <1>4
  <2>4. QED
    BY <1>1, <2>1, <2>2, <2>3 DEF Objects
<1>8. ModulesTracked'
  BY <1>1, <1>5 DEF IndInv, ModulesTracked, Moves, OnlyAdds
<1>9. LayoutsTracked'
  BY <1>1, <1>4, KindFacts DEF IndInv, LayoutsTracked, Moves, OnlyAdds
<1>10. \A w \in Debts : Hinted(w) => Hinted(w)'
  BY DEF Hinted, Debts, Moves, OnlyAdds
<1>11. QED
  BY <1>4, <1>5, <1>6, <1>7, <1>8, <1>9, <1>10

\* The pipelines of the others are not disturbed either.
LEMMA OthersWork ==
  ASSUME IndInv, NEW t \in HintThreads, Moves(t), NEW u \in HintThreads, u # t
  PROVE  IF pipeline'[u] = Nothing THEN Waiting(u)'
         ELSE hintAt'[u] \in PipelineSteps /\ Working(u)'
<1>1. /\ exists' = exists /\ racedHandles' = racedHandles
      /\ hintAt'[u] = hintAt[u] /\ pipeline'[u] = pipeline[u] /\ stages'[u] = stages[u]
      /\ bindings'[u] = bindings[u] /\ writing'[u] = writing[u] /\ owed'[u] = owed[u]
  BY DEF Moves, trackVars
<1>2. CASE pipeline[u] = Nothing
  BY <1>1, <1>2 DEF IndInv, Works, Waiting
<1>3. CASE pipeline[u] # Nothing
  <2>1. hintAt[u] \in PipelineSteps /\ Standing(u) /\ Steps(u) /\ Freed(u) /\ Owing(u)
    BY <1>3 DEF IndInv, Works, Working
  <2>2. Standing(u)'
    BY <1>1, <2>1, MoveFacts DEF Standing
  <2>3. /\ \A s : ShownBy(s)' = ShownBy(s)
        /\ \A p, d, o : GoesTo(p, d, o)' <=> GoesTo(p, d, o)
    BY <1>1 DEF ShownBy, GoesTo, For
  <2>4. Steps(u)'
    BY <1>1, <2>1, <2>3 DEF Steps
  <2>5. Freed(u)'
    BY <1>1, <2>1 DEF Freed
  <2>6. Owing(u)'
    <3>1. \A w \in owed[u] : Pending(u, w) => Pending(u, w)'
      BY <1>1, <2>3 DEF Pending
    <3>2. \A w \in owed[u] : Hinted(w) => Hinted(w)'
      BY MoveFacts DEF IndInv, WorkTypes
    <3>3. QED
      BY <1>1, <2>1, <3>1, <3>2 DEF Owing
  <2>7. QED
    BY <1>1, <1>3, <2>1, <2>2, <2>4, <2>5, <2>6 DEF Working
<1>4. QED
  BY <1>2, <1>3

\* The driver creates an object, of any kind.
Creates(t, o, is, to) ==
    /\ CreateFirst(t, o, is, to)
    /\ \/ /\ o \in SetLayouts /\ to = "insert" /\ created < MaxLayouts
          /\ is = created + 1 /\ created' = created + 1
       \/ /\ o \in PipelineLayouts /\ to = "insert" /\ is \in SetLayoutLists
          /\ UNCHANGED created
       \/ /\ o \in Modules /\ to = "track" /\ is \in Codes
          /\ UNCHANGED created

-------------------------------------------------------------------------------
(***************************************************************************)
(* One lemma per action on an object.                                      *)
(***************************************************************************)

\* The new object has a number that nothing names, and a handle that is noted
\* if an erasure of it is under way.
LEMMA CreatesInd ==
  ASSUME IndInv, NEW t \in HintThreads, NEW o \in HintObjects, NEW is, NEW to,
         Creates(t, o, is, to)
  PROVE  IndInv'
<1> USE DEF IndInv
<1>1. /\ hintAt[t] = "idle" /\ hintAt' = [hintAt EXCEPT ![t] = to] /\ to \in {"insert", "track"}
      /\ exists[o] = Nothing /\ exists' = [exists EXCEPT ![o] = is]
      /\ object' = [object EXCEPT ![t] = o]
      /\ racedHandles \subseteq racedHandles' /\ racedHandles' \subseteq racedHandles \cup {o}
      /\ (\E u \in HintThreads : hintAt[u] = "erase" /\ object[u] = o) => o \in racedHandles'
      /\ UNCHANGED <<entries, workVars, settled>>
  BY DEF Creates, CreateFirst, Go
<1>2. \/ /\ o \in SetLayouts /\ o \in LayoutObjects /\ o \notin PipelineLayouts /\ o \notin Modules
         /\ to = "insert" /\ is = created + 1 /\ created' = created + 1
         /\ created' \in 0 .. MaxLayouts /\ is \in 1 .. created' /\ is # Nothing
      \/ /\ o \in PipelineLayouts /\ o \in LayoutObjects /\ o \notin SetLayouts /\ o \notin Modules
         /\ to = "insert" /\ is \in SetLayoutLists /\ created' = created /\ is # Nothing
      \/ /\ o \in Modules /\ o \notin SetLayouts /\ o \notin PipelineLayouts
         /\ to = "track" /\ is \in Codes /\ created' = created /\ is # Nothing
  <2>1. created \in 0 .. MaxLayouts /\ MaxLayouts \in Nat
    BY LayoutHintsAssumption DEF HintTypes
  <2>2. created < MaxLayouts => created + 1 \in 1 .. MaxLayouts
    BY <2>1
  <2>3. QED
    BY <2>1, <2>2, KindFacts, NothingFacts DEF Creates
<1>3. /\ \A x \in HintObjects \ {o} : exists'[x] = exists[x]
      /\ exists'[o] = is /\ is # Nothing /\ racedHandles' \in SUBSET HintObjects
      /\ created' \in 0 .. MaxLayouts /\ created <= created' /\ created \in Nat
      /\ 1 .. created \subseteq 1 .. created'
  BY <1>1, <1>2, LayoutHintsAssumption DEF HintTypes
<1>4. /\ \A x \in HintObjects : Ready(x)' <=> Ready(x)
      /\ \A x \in HintObjects : Kept(x)' <=> Kept(x)
      /\ ~Ready(o)
      /\ \A x \in HintObjects : Ready(x) => x # o
  BY <1>1, <1>3 DEF Ready, Kept, HintTypes
<1>5. HintTypes'
  <2>1. hintAt' \in [HintThreads -> {"idle"} \cup ObjectSteps \cup PipelineSteps]
    BY <1>1 DEF HintTypes, ObjectSteps
  <2>2. object' \in [HintThreads -> HintObjects \cup {Nothing}]
    BY <1>1 DEF HintTypes
  <2>3. DOMAIN exists' = HintObjects /\ DOMAIN entries' = HintObjects
    BY <1>1 DEF HintTypes
  <2>4. \A x \in SetLayouts :
          /\ exists'[x] \in 1 .. created' \cup {Nothing}
          /\ entries'[x] \in LayoutEntries \cup {Nothing}
          /\ entries'[x] # Nothing => entries'[x].layout <= created'
    <3> SUFFICES ASSUME NEW x \in SetLayouts
                 PROVE  /\ exists'[x] \in 1 .. created' \cup {Nothing}
                        /\ entries'[x] \in LayoutEntries \cup {Nothing}
                        /\ entries'[x] # Nothing => entries'[x].layout <= created'
      OBVIOUS
    <3>1. /\ exists[x] \in 1 .. created \cup {Nothing}
          /\ entries[x] \in LayoutEntries \cup {Nothing}
          /\ entries[x] # Nothing => entries[x].layout <= created
          /\ entries[x] # Nothing => entries[x].layout \in Nat
      BY DEF HintTypes, LayoutEntries
    <3>2. exists'[x] \in 1 .. created' \cup {Nothing}
      BY <1>2, <1>3, <3>1, KindFacts
    <3>3. QED
      BY <1>1, <1>3, <3>1, <3>2
  <2>5. \A x \in PipelineLayouts :
          exists'[x] \in SetLayoutLists \cup {Nothing} /\ entries'[x] \in SetLayoutLists \cup {Nothing}
    BY <1>1, <1>2, <1>3, KindFacts DEF HintTypes
  <2>6. \A x \in Modules : exists'[x] \in Codes \cup {Nothing}
    BY <1>1, <1>2, <1>3, KindFacts DEF HintTypes
  <2>7. QED
    BY <1>3, <2>1, <2>2, <2>3, <2>4, <2>5, <2>6 DEF HintTypes
<1>6. WorkTypes'
  <2>1. /\ \A u \in HintThreads : writing[u] # Nothing => writing[u].layout <= created'
        /\ \A u \in HintThreads : \A w \in owed[u] : w.layout <= created'
    <3>1. /\ \A u \in HintThreads : writing[u] # Nothing =>
               writing[u].layout \in Nat /\ writing[u].layout <= created
          /\ \A u \in HintThreads : \A w \in owed[u] :
               w.layout \in Nat /\ w.layout <= created
      BY DEF WorkTypes, Writings, Debts
    <3>2. created' \in Nat
      BY <1>3
    <3>3. QED
      BY <1>3, <3>1, <3>2
  <2>2. QED
    BY <1>1, <2>1 DEF WorkTypes, workVars
<1>7. Objects'
  <2>1. object'[t] = o /\ hintAt'[t] = to
    BY <1>1 DEF HintTypes
  <2>2. \A u \in HintThreads \ {t} : object'[u] = object[u] /\ hintAt'[u] = hintAt[u]
    BY <1>1 DEF HintTypes
  <2>3. \A u \in HintThreads : hintAt[u] \in {"insert", "track", "destroyModule"} => object[u] # o
    BY <1>1 DEF Objects, Ready
  <2>4. ASSUME NEW u \in HintThreads
        PROVE  /\ hintAt'[u] \notin ObjectSteps => object'[u] = Nothing
               /\ hintAt'[u] \in {"insert", "erase"} => object'[u] \in LayoutObjects
               /\ hintAt'[u] \in {"track", "destroyModule"} => object'[u] \in Modules
               /\ hintAt'[u] \in {"insert", "track"} => exists'[object'[u]] # Nothing
               /\ hintAt'[u] = "erase" /\ exists'[object'[u]] # Nothing =>
                    object'[u] \in racedHandles'
    <3>1. CASE u = t
      BY <1>2, <1>3, <2>1, <3>1 DEF ObjectSteps
    <3>2. CASE u # t
      <4>1. /\ hintAt'[u] = hintAt[u] /\ object'[u] = object[u]
            /\ hintAt[u] \in ObjectSteps => object[u] \in HintObjects
        BY <2>2, <3>2, KindFacts DEF Objects, ObjectSteps
      <4>2. QED
        BY <1>1, <1>3, <2>3, <4>1 DEF Objects, ObjectSteps
    <3>3. QED
      BY <3>1, <3>2
  <2>5. ASSUME NEW u \in HintThreads, hintAt'[u] = "destroyModule"
        PROVE  Ready(object[u])'
    <3>1. u # t /\ hintAt[u] = "destroyModule" /\ object'[u] = object[u]
      BY <1>1, <2>1, <2>2, <2>5
    <3>2. Ready(object[u]) /\ object[u] \in HintObjects
      BY <3>1, KindFacts DEF Objects
    <3>3. PICK x \in HintObjects : x = object[u]
      BY <3>2
    <3>4. Ready(x)'
      BY <1>4, <3>2, <3>3
    <3>5. QED
      BY <3>1, <3>3, <3>4 DEF Ready
  <2>6. ASSUME NEW v \in HintThreads, NEW u \in HintThreads, v # u, object'[v] = object'[u],
               hintAt'[v] \in {"insert", "track", "destroyModule"}
        PROVE  hintAt'[u] \notin {"insert", "track", "destroyModule"}
    BY <2>1, <2>2, <2>3, <2>6 DEF Objects
  <2>7. QED
    BY <2>4, <2>5, <2>6 DEF Objects
<1>8. ModulesTracked'
  BY <1>1, <1>3, <1>4, KindFacts DEF ModulesTracked, HintTypes, Kept
<1>9. LayoutsTracked'
  BY <1>1, <1>3, <1>4, KindFacts DEF LayoutsTracked, HintTypes
<1>10. Fresh'
  <2> SUFFICES ASSUME NEW v \in HintThreads, hintAt'[v] = "insert", object'[v] \in SetLayouts
               PROVE  LET x == object'[v]
                      IN  /\ entries[x] # Nothing => entries[x].layout # exists'[x]
                          /\ \A u \in HintThreads :
                               /\ writing[u] # Nothing /\ writing[u].at = x =>
                                    writing[u].layout # exists'[x]
                               /\ \A w \in owed[u] : w.at = x => w.layout # exists'[x]
    BY <1>1 DEF Fresh, workVars
  <2>1. CASE v = t
    <3>1. object'[v] = o /\ exists'[o] = created + 1
      BY <1>1, <1>2, <1>3, <2>1 DEF HintTypes
    <3>2. /\ entries[o] # Nothing => entries[o].layout \in Nat /\ entries[o].layout <= created
          /\ \A u \in HintThreads :
               /\ writing[u] # Nothing => writing[u].layout \in Nat /\ writing[u].layout <= created
               /\ \A w \in owed[u] : w.layout \in Nat /\ w.layout <= created
      BY <3>1 DEF HintTypes, WorkTypes, LayoutEntries, Writings, Debts
    <3>3. QED
      BY <1>3, <3>1, <3>2
  <2>2. CASE v # t
    <3>1. hintAt[v] = "insert" /\ object'[v] = object[v] /\ exists[object[v]] # Nothing
      BY <1>1, <2>2 DEF HintTypes, Objects
    <3>2. object[v] # o /\ exists'[object[v]] = exists[object[v]]
      BY <1>1, <1>3, <3>1 DEF HintTypes
    <3>3. QED
      BY <3>1, <3>2 DEF Fresh
  <2>3. QED
    BY <2>1, <2>2
<1>11. Settled'
  <2>1. \A w \in settled : w.at \in HintObjects
    BY KindFacts DEF WorkTypes, Debts
  <2>2. \A w \in settled : Hinted(w)' <=> Hinted(w)
    BY <1>1 DEF Hinted
  <2>3. QED
    BY <1>1, <1>3, <1>4, <2>1, <2>2 DEF Settled
<1>12. Works'
  <2>1. ~InPipeline(o)
    BY <1>4, InPipelineFacts
  <2>2. \A x \in HintObjects : InPipeline(x) =>
          exists'[x] = exists[x] /\ (Ready(x) => Ready(x)') /\ (Kept(x) => Kept(x)')
    BY <1>3, <1>4, <2>1
  <2>3. \A u \in HintThreads : \A s \in PipelineSteps : hintAt'[u] = s <=> hintAt[u] = s
    BY <1>1 DEF HintTypes, PipelineSteps
  <2>4. \A x \in SetLayouts : exists'[x] \in {exists[x], Nothing, created + 1}
    BY <1>2, <1>3, KindFacts
  <2>5. \A u \in HintThreads : \A w \in owed[u] : Hinted(w)' <=> Hinted(w)
    BY <1>1 DEF Hinted
  <2>6. QED
    BY <1>1, <1>3, <2>2, <2>3, <2>4, <2>5, WorksGoOn
<1>13. QED
  BY <1>5, <1>6, <1>7, <1>8, <1>9, <1>10, <1>11, <1>12

\* What a new entry replaces was not of this layout, so no hint of it is due.
LEMMA InsertEntryInd ==
  ASSUME IndInv, NEW t \in HintThreads, InsertEntry(t)
  PROVE  IndInv'
<1> USE DEF IndInv
<1>0. PICK o \in LayoutObjects : o = object[t]
  BY DEF InsertEntry, Go, Objects
<1>1. /\ hintAt[t] = "insert" /\ hintAt' = [hintAt EXCEPT ![t] = "idle"]
      /\ object' = [object EXCEPT ![t] = Nothing]
      /\ entries' = [entries EXCEPT ![o] =
            IF o[1] = "setLayout" THEN [layout |-> exists[o], hints |-> NoHints] ELSE exists[o]]
      /\ UNCHANGED <<exists, created, racedHandles, workVars, settled>>
  BY <1>0 DEF InsertEntry, Go
<1>2. /\ o \in HintObjects /\ o \notin Modules /\ exists[o] # Nothing
      /\ \A u \in HintThreads : u # t /\ hintAt[u] \in {"insert", "track", "destroyModule"} =>
           object[u] # o
      /\ ~Ready(o)
  BY <1>0, <1>1, KindFacts DEF Objects, Ready
<1>3. /\ \A x \in HintObjects \ {o} : entries'[x] = entries[x]
      /\ entries'[o] # Nothing
      /\ o \in SetLayouts => /\ entries'[o] = [layout |-> exists[o], hints |-> NoHints]
                             /\ entries'[o] \in LayoutEntries /\ exists[o] <= created
      /\ o \in PipelineLayouts => entries'[o] = exists[o] /\ exists[o] \in SetLayoutLists
  <2>1. /\ o \in DOMAIN entries
        /\ entries'[o] = IF o[1] = "setLayout" THEN [layout |-> exists[o], hints |-> NoHints]
                         ELSE exists[o]
        /\ \A x \in HintObjects \ {o} : entries'[x] = entries[x]
    BY <1>1, <1>2 DEF HintTypes
  <2>2. ASSUME o \in SetLayouts
        PROVE  /\ entries'[o] = [layout |-> exists[o], hints |-> NoHints]
               /\ entries'[o] \in LayoutEntries /\ exists[o] <= created
               /\ entries'[o] # Nothing
    <3>1. exists[o] \in 1 .. created /\ exists[o] \in 1 .. MaxLayouts /\ exists[o] <= created
      BY <1>2, <2>2, LayoutHintsAssumption DEF HintTypes
    <3>2. NoHints \in [BindingNumbers -> {d.hint : d \in Reflected} \cup {Nothing}]
      BY DEF NoHints
    <3>3. entries'[o] = [layout |-> exists[o], hints |-> NoHints]
      BY <2>1, <2>2, KindFacts
    <3>4. QED
      BY <3>1, <3>2, <3>3, NothingFacts DEF LayoutEntries
  <2>3. ASSUME o \in PipelineLayouts
        PROVE  entries'[o] = exists[o] /\ exists[o] \in SetLayoutLists
    BY <1>2, <2>1, <2>3, KindFacts DEF HintTypes
  <2>4. QED
    BY <1>2, <2>1, <2>2, <2>3, KindFacts
<1>4. /\ \A x \in HintObjects \ {o} : Ready(x)' <=> Ready(x)
      /\ \A x \in HintObjects \ {o} : Kept(x)' <=> Kept(x)
      /\ \A x \in HintObjects : Ready(x) => x # o /\ Ready(x)'
  BY <1>1, <1>2 DEF Ready, Kept, HintTypes
<1>5. HintTypes'
  <2>1. hintAt' \in [HintThreads -> {"idle"} \cup ObjectSteps \cup PipelineSteps]
    BY <1>1 DEF HintTypes
  <2>2. object' \in [HintThreads -> HintObjects \cup {Nothing}]
    BY <1>1 DEF HintTypes
  <2>3. DOMAIN entries' = HintObjects
    BY <1>1 DEF HintTypes
  <2>4. \A x \in SetLayouts :
          /\ entries'[x] \in LayoutEntries \cup {Nothing}
          /\ entries'[x] # Nothing => entries'[x].layout <= created
    BY <1>3, KindFacts DEF HintTypes
  <2>5. \A x \in PipelineLayouts : entries'[x] \in SetLayoutLists \cup {Nothing}
    BY <1>3, KindFacts DEF HintTypes
  <2>6. QED
    BY <1>1, <2>1, <2>2, <2>3, <2>4, <2>5 DEF HintTypes
<1>6. WorkTypes'
  BY <1>1 DEF WorkTypes, workVars
<1>7. Objects'
  BY <1>1, <1>2, <1>3, <1>4, KindFacts DEF Objects, HintTypes, ObjectSteps
<1>8. ModulesTracked'
  BY <1>1, <1>2, <1>3, <1>4, KindFacts DEF ModulesTracked
<1>9. LayoutsTracked'
  BY <1>1, <1>3, <1>4, KindFacts DEF LayoutsTracked
<1>10. Fresh'
  BY <1>1, <1>2, <1>3, KindFacts DEF Fresh, HintTypes, workVars
<1>11. Settled'
  BY <1>1, <1>3, <1>4, KindFacts DEF Settled, Hinted, WorkTypes, Debts
<1>12. Works'
  <2>1. \A x \in HintObjects : InPipeline(x) =>
          exists'[x] = exists[x] /\ (Ready(x) => Ready(x)') /\ (Kept(x) => Kept(x)')
    BY <1>1, <1>2, <1>4, InPipelineFacts
  <2>2. \A u \in HintThreads : \A s \in PipelineSteps : hintAt'[u] = s <=> hintAt[u] = s
    BY <1>1 DEF HintTypes, PipelineSteps
  <2>3. ASSUME NEW u \in HintThreads, NEW w \in owed[u], exists'[w.at] = w.layout, Hinted(w)
        PROVE  Hinted(w)'
    <3>1. w.at \in SetLayouts /\ w.at \in HintObjects
      BY KindFacts DEF WorkTypes, Debts
    <3>2. w.at # o
      BY <1>0, <1>1, <2>3, <3>1 DEF Fresh
    <3>3. QED
      BY <1>3, <2>3, <3>1, <3>2 DEF Hinted
  <2>4. QED
    BY <1>1, <2>1, <2>2, <2>3, WorksGoOn
<1>13. QED
  BY <1>5, <1>6, <1>7, <1>8, <1>9, <1>10, <1>11, <1>12

\* If the handle is in use again the new entry goes: it is noted.
LEMMA EraseEntryInd ==
  ASSUME IndInv, NEW t \in HintThreads, EraseEntry(t)
  PROVE  IndInv'
<1> USE DEF IndInv
<1>0. PICK o \in LayoutObjects : o = object[t]
  BY DEF EraseEntry, Go, Objects
<1>1. /\ hintAt[t] = "erase" /\ hintAt' = [hintAt EXCEPT ![t] = "idle"]
      /\ object' = [object EXCEPT ![t] = Nothing]
      /\ entries' = [entries EXCEPT ![o] = Nothing]
      /\ UNCHANGED <<exists, created, racedHandles, workVars, settled>>
  BY <1>0 DEF EraseEntry, Go
<1>2. /\ o \in HintObjects /\ o \notin Modules
      /\ exists[o] # Nothing => o \in racedHandles
  BY <1>0, <1>1, KindFacts DEF Objects
<1>3. /\ \A x \in HintObjects \ {o} : entries'[x] = entries[x]
      /\ entries'[o] = Nothing
  BY <1>1, <1>2 DEF HintTypes
<1>4. /\ \A x \in HintObjects : Ready(x)' <=> Ready(x)
      /\ \A x \in HintObjects : Kept(x)' <=> Kept(x)
  BY <1>1 DEF Ready, Kept, HintTypes
<1>5. HintTypes'
  <2>1. hintAt' \in [HintThreads -> {"idle"} \cup ObjectSteps \cup PipelineSteps]
    BY <1>1 DEF HintTypes
  <2>2. object' \in [HintThreads -> HintObjects \cup {Nothing}]
    BY <1>1 DEF HintTypes
  <2>3. DOMAIN entries' = HintObjects
    BY <1>1 DEF HintTypes
  <2>4. \A x \in HintObjects : entries'[x] \in {entries[x], Nothing}
    BY <1>3
  <2>5. QED
    BY <1>1, <2>1, <2>2, <2>3, <2>4, KindFacts DEF HintTypes
<1>6. WorkTypes'
  BY <1>1 DEF WorkTypes, workVars
<1>7. Objects'
  BY <1>1, <1>2, <1>3, <1>4, KindFacts DEF Objects, HintTypes, ObjectSteps
<1>8. ModulesTracked'
  BY <1>1, <1>2, <1>3, <1>4, KindFacts DEF ModulesTracked
<1>9. LayoutsTracked'
  BY <1>1, <1>2, <1>3, <1>4, KindFacts DEF LayoutsTracked, Ready
<1>10. Fresh'
  BY <1>1, <1>2, <1>3, KindFacts DEF Fresh, HintTypes, workVars
<1>11. Settled'
  BY <1>1, <1>2, <1>3, <1>4, KindFacts
     DEF Settled, Hinted, WorkTypes, Debts, Ready
<1>12. Works'
  <2>1. \A x \in HintObjects : InPipeline(x) =>
          exists'[x] = exists[x] /\ (Ready(x) => Ready(x)') /\ (Kept(x) => Kept(x)')
    BY <1>1, <1>4
  <2>2. \A u \in HintThreads : \A s \in PipelineSteps : hintAt'[u] = s <=> hintAt[u] = s
    BY <1>1 DEF HintTypes, PipelineSteps
  <2>3. ASSUME NEW u \in HintThreads, NEW w \in owed[u], exists'[w.at] = w.layout,
               w.at \notin racedHandles', Hinted(w)
        PROVE  Hinted(w)'
    <3>1. w.at \in HintObjects /\ w.layout # Nothing
      BY KindFacts, NothingFacts DEF WorkTypes, Debts
    <3>2. w.at # o
      BY <1>1, <1>2, <2>3, <3>1
    <3>3. QED
      BY <1>3, <2>3, <3>1, <3>2 DEF Hinted
  <2>4. QED
    BY <1>1, <2>1, <2>2, <2>3, WorksGoOn
<1>13. QED
  BY <1>5, <1>6, <1>7, <1>8, <1>9, <1>10, <1>11, <1>12

\* The module is in no pipeline yet.
LEMMA TrackShaderInd ==
  ASSUME IndInv, NEW t \in HintThreads, TrackShader(t)
  PROVE  IndInv'
<1> USE DEF IndInv
<1>0. PICK o \in Modules : o = object[t]
  BY DEF TrackShader, Go, Objects
<1>1. /\ hintAt[t] = "track" /\ hintAt' = [hintAt EXCEPT ![t] = "idle"]
      /\ object' = [object EXCEPT ![t] = Nothing]
      /\ entries' = [entries EXCEPT ![o] = IF exists[o] = Unreadable THEN @ ELSE exists[o]]
      /\ UNCHANGED <<exists, created, racedHandles, workVars, settled>>
  BY <1>0 DEF TrackShader, Go
<1>2. /\ o \in HintObjects /\ o \notin LayoutObjects /\ exists[o] # Nothing /\ exists[o] \in Codes
      /\ \A u \in HintThreads : u # t /\ hintAt[u] \in {"insert", "track", "destroyModule"} =>
           object[u] # o
      /\ ~Ready(o) /\ ~Kept(o) /\ entries[o] = Nothing
  BY <1>0, <1>1, KindFacts DEF Objects, Ready, Kept, ModulesTracked, HintTypes
<1>3. /\ \A x \in HintObjects \ {o} : entries'[x] = entries[x]
      /\ entries'[o] = IF exists[o] = Unreadable THEN Nothing ELSE exists[o]
  BY <1>1, <1>2 DEF HintTypes
<1>4. /\ \A x \in HintObjects \ {o} : Ready(x)' <=> Ready(x)
      /\ \A x \in HintObjects \ {o} : Kept(x)' <=> Kept(x)
      /\ \A x \in HintObjects : Ready(x) => x # o /\ Ready(x)'
      /\ Kept(o)'
  BY <1>1, <1>2 DEF Ready, Kept, HintTypes
<1>5. HintTypes'
  <2>1. hintAt' \in [HintThreads -> {"idle"} \cup ObjectSteps \cup PipelineSteps]
    BY <1>1 DEF HintTypes
  <2>2. object' \in [HintThreads -> HintObjects \cup {Nothing}]
    BY <1>1 DEF HintTypes
  <2>3. DOMAIN entries' = HintObjects
    BY <1>1 DEF HintTypes
  <2>4. \A x \in LayoutObjects : entries'[x] = entries[x]
    BY <1>2, <1>3, KindFacts
  <2>5. QED
    BY <1>1, <2>1, <2>2, <2>3, <2>4, KindFacts DEF HintTypes
<1>6. WorkTypes'
  BY <1>1 DEF WorkTypes, workVars
<1>7. Objects'
  BY <1>1, <1>2, <1>3, <1>4, KindFacts DEF Objects, HintTypes, ObjectSteps
<1>8. ModulesTracked'
  BY <1>1, <1>2, <1>3, <1>4, KindFacts DEF ModulesTracked
<1>9. LayoutsTracked'
  BY <1>1, <1>2, <1>3, <1>4, KindFacts DEF LayoutsTracked
<1>10. Fresh'
  BY <1>1, <1>2, <1>3, KindFacts DEF Fresh, HintTypes, workVars
<1>11. Settled'
  BY <1>1, <1>2, <1>3, <1>4, KindFacts DEF Settled, Hinted, WorkTypes, Debts
<1>12. Works'
  <2>1. \A x \in HintObjects : InPipeline(x) =>
          exists'[x] = exists[x] /\ (Ready(x) => Ready(x)') /\ (Kept(x) => Kept(x)')
    BY <1>1, <1>2, <1>4, InPipelineFacts
  <2>2. \A u \in HintThreads : \A s \in PipelineSteps : hintAt'[u] = s <=> hintAt[u] = s
    BY <1>1 DEF HintTypes, PipelineSteps
  <2>3. ASSUME NEW u \in HintThreads, NEW w \in owed[u], Hinted(w)
        PROVE  Hinted(w)'
    <3>1. w.at \in HintObjects /\ w.at # o
      BY <1>2, KindFacts DEF WorkTypes, Debts
    <3>2. QED
      BY <1>3, <2>3, <3>1 DEF Hinted
  <2>4. QED
    BY <1>1, <2>1, <2>2, <2>3, WorksGoOn
<1>13. QED
  BY <1>5, <1>6, <1>7, <1>8, <1>9, <1>10, <1>11, <1>12

\* Nothing is due any more to a layout that is gone.
LEMMA DestroyLayoutInd ==
  ASSUME IndInv, NEW t \in HintThreads, NEW o \in LayoutObjects, DestroyLayout(t, o)
  PROVE  IndInv'
<1> USE DEF IndInv
<1>1. /\ hintAt[t] = "idle" /\ hintAt' = [hintAt EXCEPT ![t] = "erase"]
      /\ exists' = [exists EXCEPT ![o] = Nothing]
      /\ object' = [object EXCEPT ![t] = o]
      /\ racedHandles' = racedHandles \ {o}
      /\ settled' = {w \in settled : w.at # o}
      /\ UNCHANGED <<created, entries, workVars>>
  BY DEF DestroyLayout, Go
<1>2. /\ o \in HintObjects /\ o \notin Modules /\ Ready(o) /\ ~InPipeline(o)
      /\ \A u \in HintThreads : hintAt[u] \in {"insert", "track", "destroyModule"} =>
           object[u] # o
  BY KindFacts, UsableFacts DEF DestroyLayout, Objects, Ready, Kept
<1>3. /\ \A x \in HintObjects \ {o} : exists'[x] = exists[x]
      /\ exists'[o] = Nothing
  BY <1>1, <1>2 DEF HintTypes
<1>4. /\ \A x \in HintObjects \ {o} : Ready(x)' <=> Ready(x)
      /\ \A x \in HintObjects \ {o} : Kept(x)' <=> Kept(x)
      /\ ~Ready(o)'
  BY <1>1, <1>2, <1>3 DEF Ready, Kept, HintTypes
<1>5. HintTypes'
  <2>1. hintAt' \in [HintThreads -> {"idle"} \cup ObjectSteps \cup PipelineSteps]
    BY <1>1 DEF HintTypes, ObjectSteps
  <2>2. object' \in [HintThreads -> HintObjects \cup {Nothing}]
    BY <1>1, <1>2 DEF HintTypes
  <2>3. DOMAIN exists' = HintObjects
    BY <1>1 DEF HintTypes
  <2>4. \A x \in HintObjects : exists'[x] \in {exists[x], Nothing}
    BY <1>3
  <2>5. QED
    BY <1>1, <2>1, <2>2, <2>3, <2>4, KindFacts DEF HintTypes
<1>6. WorkTypes'
  BY <1>1 DEF WorkTypes, workVars
<1>7. Objects'
  <2>1. /\ \A u \in HintThreads : hintAt[u] \in ObjectSteps => object[u] \in HintObjects
        /\ "erase" \in ObjectSteps
    BY KindFacts DEF Objects, ObjectSteps
  <2>2. QED
    BY <1>1, <1>2, <1>3, <1>4, <2>1, KindFacts
       DEF Objects, HintTypes, ObjectSteps
<1>8. ModulesTracked'
  BY <1>1, <1>2, <1>3, <1>4, KindFacts DEF ModulesTracked
<1>9. LayoutsTracked'
  BY <1>1, <1>2, <1>3, <1>4, KindFacts DEF LayoutsTracked
<1>10. Fresh'
  BY <1>1, <1>2, <1>3, KindFacts DEF Fresh, HintTypes, workVars
<1>11. Settled'
  BY <1>1, <1>2, <1>3, <1>4, KindFacts DEF Settled, Hinted, WorkTypes, Debts
<1>12. Works'
  <2>1. \A x \in HintObjects : InPipeline(x) =>
          exists'[x] = exists[x] /\ (Ready(x) => Ready(x)') /\ (Kept(x) => Kept(x)')
    BY <1>2, <1>3, <1>4
  <2>2. \A u \in HintThreads : \A s \in PipelineSteps : hintAt'[u] = s <=> hintAt[u] = s
    BY <1>1 DEF HintTypes, PipelineSteps
  <2>3. \A u \in HintThreads : \A w \in owed[u] : Hinted(w)' <=> Hinted(w)
    BY <1>1 DEF Hinted
  <2>4. \A x \in SetLayouts : exists'[x] \in {exists[x], Nothing, created + 1}
    BY <1>3, KindFacts
  <2>5. \A x \in HintObjects :
          /\ x \in racedHandles /\ x \notin racedHandles' => exists'[x] = Nothing
          /\ x \notin racedHandles /\ x \in racedHandles' => exists[x] = Nothing
    BY <1>1, <1>3
  <2>6. QED
    BY <1>1, <2>1, <2>2, <2>3, <2>4, <2>5, WorksGoOn
<1>13. QED
  BY <1>5, <1>6, <1>7, <1>8, <1>9, <1>10, <1>11, <1>12

\* No pipeline that is being created uses the module.
LEMMA UntrackShaderInd ==
  ASSUME IndInv, NEW t \in HintThreads, NEW o \in Modules, UntrackShader(t, o)
  PROVE  IndInv'
<1> USE DEF IndInv
<1>1. /\ hintAt[t] = "idle" /\ hintAt' = [hintAt EXCEPT ![t] = "destroyModule"]
      /\ entries' = [entries EXCEPT ![o] = Nothing]
      /\ object' = [object EXCEPT ![t] = o]
      /\ UNCHANGED <<exists, created, racedHandles, workVars, settled>>
  BY DEF UntrackShader, Go
<1>2. /\ o \in HintObjects /\ o \notin LayoutObjects /\ Ready(o) /\ ~InPipeline(o)
      /\ \A u \in HintThreads : hintAt[u] \in {"insert", "track", "destroyModule"} =>
           object[u] # o
  BY KindFacts, UsableFacts DEF UntrackShader, Objects, Ready, Kept
<1>3. /\ \A x \in HintObjects \ {o} : entries'[x] = entries[x]
      /\ entries'[o] = Nothing
  BY <1>1, <1>2 DEF HintTypes
<1>4. /\ \A x \in HintObjects : Ready(x)' <=> Ready(x)
      /\ \A x \in HintObjects \ {o} : Kept(x)' <=> Kept(x)
      /\ ~Kept(o)'
  BY <1>1, <1>2 DEF Ready, Kept, HintTypes
<1>5. HintTypes'
  <2>1. hintAt' \in [HintThreads -> {"idle"} \cup ObjectSteps \cup PipelineSteps]
    BY <1>1 DEF HintTypes, ObjectSteps
  <2>2. object' \in [HintThreads -> HintObjects \cup {Nothing}]
    BY <1>1, <1>2 DEF HintTypes
  <2>3. DOMAIN entries' = HintObjects
    BY <1>1 DEF HintTypes
  <2>4. \A x \in LayoutObjects : entries'[x] = entries[x]
    BY <1>2, <1>3, KindFacts
  <2>5. QED
    BY <1>1, <2>1, <2>2, <2>3, <2>4, KindFacts DEF HintTypes
<1>6. WorkTypes'
  BY <1>1 DEF WorkTypes, workVars
<1>7. Objects'
  <2>1. /\ \A u \in HintThreads : hintAt[u] \in ObjectSteps => object[u] \in HintObjects
        /\ "destroyModule" \in ObjectSteps
    BY KindFacts DEF Objects, ObjectSteps
  <2>2. QED
    BY <1>1, <1>2, <1>4, <2>1, KindFacts DEF Objects, HintTypes, ObjectSteps
<1>8. ModulesTracked'
  BY <1>1, <1>2, <1>3, <1>4, KindFacts DEF ModulesTracked
<1>9. LayoutsTracked'
  BY <1>1, <1>2, <1>3, <1>4, KindFacts DEF LayoutsTracked
<1>10. Fresh'
  BY <1>1, <1>2, <1>3, KindFacts DEF Fresh, HintTypes, workVars
<1>11. Settled'
  BY <1>1, <1>2, <1>3, <1>4, KindFacts DEF Settled, Hinted, WorkTypes, Debts
<1>12. Works'
  <2>1. \A x \in HintObjects : InPipeline(x) =>
          exists'[x] = exists[x] /\ (Ready(x) => Ready(x)') /\ (Kept(x) => Kept(x)')
    BY <1>1, <1>2, <1>4
  <2>2. \A u \in HintThreads : \A s \in PipelineSteps : hintAt'[u] = s <=> hintAt[u] = s
    BY <1>1 DEF HintTypes, PipelineSteps
  <2>3. ASSUME NEW u \in HintThreads, NEW w \in owed[u], Hinted(w)
        PROVE  Hinted(w)'
    <3>1. w.at \in HintObjects /\ w.at # o
      BY <1>2, KindFacts DEF WorkTypes, Debts
    <3>2. QED
      BY <1>3, <2>3, <3>1 DEF Hinted
  <2>4. QED
    BY <1>1, <2>1, <2>2, <2>3, WorksGoOn
<1>13. QED
  BY <1>5, <1>6, <1>7, <1>8, <1>9, <1>10, <1>11, <1>12

\* By now it is in no map.
LEMMA DestroyShaderModuleInd ==
  ASSUME IndInv, NEW t \in HintThreads, DestroyShaderModule(t)
  PROVE  IndInv'
<1> USE DEF IndInv
<1>0. PICK o \in Modules : o = object[t]
  BY DEF DestroyShaderModule, Go, Objects
<1>1. /\ hintAt[t] = "destroyModule" /\ hintAt' = [hintAt EXCEPT ![t] = "idle"]
      /\ exists' = [exists EXCEPT ![o] = Nothing]
      /\ object' = [object EXCEPT ![t] = Nothing]
      /\ UNCHANGED <<created, racedHandles, entries, workVars, settled>>
  BY <1>0 DEF DestroyShaderModule, Go
<1>2. /\ o \in HintObjects /\ o \notin LayoutObjects /\ ~Kept(o) /\ ~InPipeline(o)
      /\ \A u \in HintThreads : u # t /\ hintAt[u] \in {"insert", "track", "destroyModule"} =>
           object[u] # o
      /\ entries[o] = Nothing
  BY <1>0, <1>1, KindFacts, InPipelineFacts DEF Objects, Kept, ModulesTracked
<1>3. /\ \A x \in HintObjects \ {o} : exists'[x] = exists[x]
      /\ exists'[o] = Nothing
  BY <1>1, <1>2 DEF HintTypes
<1>4. /\ \A x \in HintObjects \ {o} : Ready(x)' <=> Ready(x)
      /\ \A x \in HintObjects \ {o} : Kept(x)' <=> Kept(x)
      /\ ~Kept(o)'
  BY <1>0, <1>1, <1>2, <1>3 DEF Ready, Kept, HintTypes
<1>5. HintTypes'
  <2>1. hintAt' \in [HintThreads -> {"idle"} \cup ObjectSteps \cup PipelineSteps]
    BY <1>1 DEF HintTypes
  <2>2. object' \in [HintThreads -> HintObjects \cup {Nothing}]
    BY <1>1 DEF HintTypes
  <2>3. DOMAIN exists' = HintObjects
    BY <1>1 DEF HintTypes
  <2>4. \A x \in HintObjects : exists'[x] \in {exists[x], Nothing}
    BY <1>3
  <2>5. QED
    BY <1>1, <2>1, <2>2, <2>3, <2>4, KindFacts DEF HintTypes
<1>6. WorkTypes'
  BY <1>1 DEF WorkTypes, workVars
<1>7. Objects'
  <2>1. \A u \in HintThreads : hintAt[u] \in ObjectSteps => object[u] \in HintObjects
    BY KindFacts DEF Objects, ObjectSteps
  <2>2. QED
    BY <1>0, <1>1, <1>2, <1>3, <1>4, <2>1, KindFacts
       DEF Objects, HintTypes, ObjectSteps
<1>8. ModulesTracked'
  BY <1>1, <1>2, <1>3, <1>4, KindFacts DEF ModulesTracked
<1>9. LayoutsTracked'
  BY <1>1, <1>2, <1>3, <1>4, KindFacts DEF LayoutsTracked
<1>10. Fresh'
  BY <1>1, <1>2, <1>3, KindFacts DEF Fresh, HintTypes, workVars
<1>11. Settled'
  BY <1>1, <1>2, <1>3, <1>4, KindFacts DEF Settled, Hinted, WorkTypes, Debts
<1>12. Works'
  <2>1. \A x \in HintObjects : InPipeline(x) =>
          exists'[x] = exists[x] /\ (Ready(x) => Ready(x)') /\ (Kept(x) => Kept(x)')
    BY <1>2, <1>3, <1>4
  <2>2. \A u \in HintThreads : \A s \in PipelineSteps : hintAt'[u] = s <=> hintAt[u] = s
    BY <1>1 DEF HintTypes, PipelineSteps
  <2>3. \A u \in HintThreads : \A w \in owed[u] : Hinted(w)' <=> Hinted(w)
    BY <1>1 DEF Hinted
  <2>4. \A x \in SetLayouts : exists'[x] \in {exists[x], Nothing, created + 1}
    BY <1>3, KindFacts
  <2>5. QED
    BY <1>1, <2>1, <2>2, <2>3, <2>4, WorksGoOn
<1>13. QED
  BY <1>5, <1>6, <1>7, <1>8, <1>9, <1>10, <1>11, <1>12

-------------------------------------------------------------------------------
(***************************************************************************)
(* One lemma per step in the creation of a pipeline.                       *)
(***************************************************************************)

\* So it is enough to look at the thread itself.
LEMMA WorksBut ==
  ASSUME IndInv, NEW t \in HintThreads, Moves(t),
         IF pipeline'[t] = Nothing THEN Waiting(t)'
         ELSE hintAt'[t] \in PipelineSteps /\ Working(t)'
  PROVE  Works'
BY OthersWork DEF Works

\* A debt is a set layout that is ready when the pipeline is created.
LEMMA OwedFacts ==
  ASSUME IndInv, NEW p, Ready(p.layout), p.layout \in PipelineLayouts
  PROVE  /\ \A d \in ShownBy(p.stages) : d.set \in DOMAIN exists[p.layout] =>
              For(p, d) \in SetLayouts
         /\ \A w \in Owed(p) :
              /\ w.at \in SetLayouts /\ Ready(w.at) /\ w.layout = exists[w.at]
              /\ w.layout \in 1 .. created
              /\ p.layout \notin racedHandles
              /\ \E d \in ShownBy(p.stages) : d.binding = w.binding /\ GoesTo(p, d, w.at)
<1>1. exists[p.layout] \in SetLayoutLists
  BY DEF IndInv, HintTypes, Ready
<1>2. ASSUME NEW d, d.set \in DOMAIN exists[p.layout]
      PROVE  For(p, d) \in SetLayouts
  BY <1>1, <1>2, LayoutHintsAssumption DEF For, SetLayouts
<1>3. ASSUME NEW w \in Owed(p)
      PROVE  /\ w.at \in SetLayouts /\ Ready(w.at) /\ w.layout = exists[w.at]
             /\ w.layout \in 1 .. created
             /\ p.layout \notin racedHandles
             /\ \E d \in ShownBy(p.stages) : d.binding = w.binding /\ GoesTo(p, d, w.at)
  <2>1. PICK d \in Shown(p) :
          /\ w = [at |-> For(p, d), layout |-> exists[For(p, d)], binding |-> d.binding]
          /\ p.layout \notin racedHandles /\ d.set \in DOMAIN exists[p.layout]
          /\ For(p, d) \in Available
    BY DEF Owed
  <2>2. w.at = For(p, d) /\ w.layout = exists[w.at] /\ w.binding = d.binding
    BY <2>1
  <2>3. w.at \in SetLayouts /\ Ready(w.at)
    BY <1>2, <2>1, <2>2, ReadyAvailable
  <2>4. w.layout \in 1 .. created
    BY <2>2, <2>3 DEF IndInv, HintTypes, Ready
  <2>5. d \in ShownBy(p.stages) /\ GoesTo(p, d, w.at)
    BY <2>1, <2>2, ShownIs DEF GoesTo
  <2>6. QED
    BY <2>1, <2>2, <2>3, <2>4, <2>5
<1>4. QED
  BY <1>2, <1>3

\* What modules show was reflected.
LEMMA ReflectedFacts ==
  ASSUME IndInv, NEW s \in Seq(Modules), \A i \in DOMAIN s : Ready(s[i])
  PROVE  /\ ShownBy(s) \subseteq Reflected
         /\ \A d \in ShownBy(s) : d.binding \in BindingNumbers
<1>1. ASSUME NEW i \in DOMAIN s
      PROVE  Reflection(exists[s[i]]) \subseteq Reflected
  <2>1. s[i] \in Modules /\ exists[s[i]] \in Codes
    BY DEF IndInv, HintTypes, Ready
  <2>2. QED
    BY <2>1 DEF Reflection, Reflected
<1>2. QED
  BY <1>1 DEF ShownBy, BindingNumbers

\* All that is due is in the stages.
LEMMA CreatePipelineInd ==
  ASSUME IndInv, NEW t \in HintThreads, NEW p \in NewPipelines, CreatePipeline(t, p)
  PROVE  IndInv'
<1> USE DEF IndInv
<1>1. /\ hintAt[t] = "idle" /\ hintAt' = [hintAt EXCEPT ![t] = "findLayout"]
      /\ pipeline' = [pipeline EXCEPT ![t] = p]
      /\ stages' = [stages EXCEPT ![t] = p.stages]
      /\ owed' = [owed EXCEPT ![t] = Owed(p)]
      /\ UNCHANGED <<trackVars, entries, bindings, writing, settled>>
  BY DEF CreatePipeline, Go
<1>2. /\ p.layout \in PipelineLayouts /\ p.stages \in Seq(Modules) /\ p.stages \in StageLists
      /\ Ready(p.layout) /\ \A i \in DOMAIN p.stages : Kept(p.stages[i])
      /\ p # Nothing
  BY UsableFacts, LayoutHintsAssumption, NothingFacts
     DEF CreatePipeline, NewPipelines, Kept
<1>3. pipeline[t] = Nothing /\ Waiting(t)
  BY <1>1 DEF Works, PipelineSteps
<1>4. Moves(t)
  BY <1>1, UnchangedAdds
     DEF HintTypes, WorkTypes, Moves, ObjectSteps, PipelineSteps
<1>5. /\ HintTypes' /\ Objects' /\ ModulesTracked' /\ LayoutsTracked'
      /\ \A o : Ready(o)' <=> Ready(o)
      /\ \A o : Kept(o)' <=> Kept(o)
  BY <1>4, MoveFacts
<1>6. \A d \in ShownBy(p.stages) : d \in Reflected /\ d.binding \in BindingNumbers
  BY <1>2, ReflectedFacts DEF Kept
<1>7. Owed(p) \in SUBSET Debts
  <2> SUFFICES ASSUME NEW w \in Owed(p) PROVE w \in Debts
    OBVIOUS
  <2>1. PICK d \in Shown(p) :
          w = [at |-> For(p, d), layout |-> exists[For(p, d)], binding |-> d.binding]
    BY DEF Owed
  <2>2. w.at \in SetLayouts /\ w.layout \in 1 .. created
    BY <1>2, OwedFacts
  <2>3. w.layout \in 1 .. MaxLayouts
    BY <2>2, LayoutHintsAssumption DEF HintTypes
  <2>4. d.binding \in BindingNumbers
    BY <1>6, ShownIs
  <2>5. QED
    BY <2>1, <2>2, <2>3, <2>4 DEF Debts
<1>8. WorkTypes'
  <2>1. \A w \in Owed(p) : w.layout <= created
    BY <1>2, OwedFacts DEF HintTypes
  <2>2. created' = created
    BY <1>1 DEF trackVars
  <2>3. /\ pipeline' \in [HintThreads -> NewPipelines \cup {Nothing}]
        /\ stages' \in [HintThreads -> Seq(Modules)]
        /\ owed' \in [HintThreads -> SUBSET Debts]
    BY <1>1, <1>2, <1>7 DEF WorkTypes
  <2>4. \A u \in HintThreads : \A w \in owed'[u] : w.layout <= created
    BY <1>1, <2>1 DEF WorkTypes
  <2>5. QED
    BY <1>1, <2>2, <2>3, <2>4 DEF WorkTypes
<1>9. Fresh'
  <2>1. \A w \in Owed(p) : \A u \in HintThreads : hintAt[u] = "insert" => w.at # object[u]
    BY <1>2, OwedFacts DEF Ready
  <2>2. QED
    BY <1>1, <2>1 DEF Fresh, HintTypes, WorkTypes, trackVars
<1>10. Settled'
  BY <1>1, <1>5 DEF Settled, Hinted, trackVars
<1>11. hintAt'[t] \in PipelineSteps /\ Working(t)' /\ pipeline'[t] = p
  <2>1. /\ hintAt'[t] = "findLayout" /\ pipeline'[t] = p /\ stages'[t] = p.stages
        /\ owed'[t] = Owed(p) /\ bindings'[t] = {} /\ writing'[t] = Nothing
        /\ exists' = exists /\ racedHandles' = racedHandles
    BY <1>1, <1>3 DEF HintTypes, WorkTypes, Waiting, trackVars
  <2>2. Standing(t)'
    BY <1>2, <1>5, <2>1 DEF Standing
  <2>3. Steps(t)'
    BY <2>1 DEF Steps
  <2>4. Freed(t)'
    BY <2>1 DEF Freed
  <2>5. Owing(t)'
    <3>1. ASSUME NEW w \in Owed(p)
          PROVE  Pending(t, w)' /\ p.layout \notin racedHandles
      <4>1. PICK d \in ShownBy(p.stages) : d.binding = w.binding /\ GoesTo(p, d, w.at)
        BY <1>2, OwedFacts
      <4>2. p.layout \notin racedHandles
        BY <1>2, OwedFacts
      <4>3. d \in ShownBy(stages[t])' /\ GoesTo(pipeline[t], d, w.at)'
        BY <2>1, <4>1 DEF ShownBy, GoesTo, For
      <4>4. QED
        BY <4>1, <4>2, <4>3 DEF Pending
    <3>2. QED
      BY <2>1, <3>1 DEF Owing
  <2>6. QED
    BY <2>1, <2>2, <2>3, <2>4, <2>5 DEF Working, PipelineSteps
<1>12. Works'
  BY <1>2, <1>4, <1>11, WorksBut
<1>13. QED
  BY <1>5, <1>8, <1>9, <1>10, <1>12

\* A debt whose layout still exists is one to a layout that is ready.
LEMMA DebtReady ==
  ASSUME IndInv, NEW t \in HintThreads, NEW w \in owed[t], exists[w.at] = w.layout
  PROVE  w.at \in SetLayouts /\ w.at \in HintObjects /\ Ready(w.at)
<1>1. w.at \in SetLayouts /\ w.at \in HintObjects /\ w.layout # Nothing
  BY KindFacts, NothingFacts DEF IndInv, WorkTypes, Debts
<1>2. \A u \in HintThreads : hintAt[u] \in {"insert", "track"} => object[u] # w.at
  BY <1>1, KindFacts DEF IndInv, Fresh, Objects
<1>3. QED
  BY <1>1, <1>2 DEF Ready

\* What was due to layouts that exist has been left.
LEMMA ReturnsInd ==
  ASSUME IndInv, NEW t \in HintThreads, NEW from \in PipelineSteps, Returns(t, from),
         pipeline[t] # Nothing, bindings[t] = {}, writing[t] = Nothing,
         \A w \in owed[t] :
           exists[w.at] = w.layout /\ w.at \notin racedHandles => Hinted(w)
  PROVE  IndInv'
<1> USE DEF IndInv
<1>1. /\ hintAt[t] = from /\ hintAt' = [hintAt EXCEPT ![t] = "idle"]
      /\ settled' = settled \cup {w \in owed[t] : exists[w.at] = w.layout}
      /\ pipeline' = [pipeline EXCEPT ![t] = Nothing]
      /\ owed' = [owed EXCEPT ![t] = {}]
      /\ stages' = [stages EXCEPT ![t] = <<>>]
      /\ UNCHANGED <<trackVars, entries, bindings, writing>>
  BY DEF Returns, Go
<1>2. Moves(t)
  BY <1>1, UnchangedAdds
     DEF HintTypes, WorkTypes, Moves, ObjectSteps, PipelineSteps
<1>3. /\ HintTypes' /\ Objects' /\ ModulesTracked' /\ LayoutsTracked'
      /\ \A o : Ready(o)' <=> Ready(o)
  BY <1>2, MoveFacts
<1>4. WorkTypes'
  BY <1>1 DEF WorkTypes, trackVars
<1>5. Fresh'
  BY <1>1 DEF Fresh, HintTypes, WorkTypes, trackVars, PipelineSteps
<1>6. Settled'
  <2>1. \A w \in owed[t] : exists[w.at] = w.layout => Ready(w.at)
    BY DebtReady
  <2>2. \A w : Hinted(w)' <=> Hinted(w)
    BY <1>1 DEF Hinted
  <2>3. QED
    BY <1>1, <1>3, <2>1, <2>2 DEF Settled, trackVars
<1>7. pipeline'[t] = Nothing /\ Waiting(t)'
  BY <1>1 DEF HintTypes, WorkTypes, Waiting, PipelineSteps
<1>8. Works'
  BY <1>2, <1>7, WorksBut
<1>9. QED
  BY <1>3, <1>4, <1>5, <1>6, <1>8

\* Without an entry nothing is due, for the handle was given out too early.
LEMMA FindPipelineLayoutInd ==
  ASSUME IndInv, NEW t \in HintThreads, FindPipelineLayout(t)
  PROVE  IndInv'
<1> USE DEF IndInv
<1>1. hintAt[t] = "findLayout" /\ pipeline[t] # Nothing /\ Working(t)
  BY DEF FindPipelineLayout, Works, Waiting, PipelineSteps
<1>2. CASE entries[pipeline[t].layout] = Nothing
  <2>1. pipeline[t].layout \in racedHandles
    BY <1>1, <1>2, InPipelineFacts, KindFacts
       DEF LayoutsTracked, Working, Standing
  <2>2. owed[t] = {} /\ bindings[t] = {} /\ writing[t] = Nothing
    BY <1>1, <2>1 DEF Working, Owing, Steps
  <2>3. "findLayout" \in PipelineSteps /\ Returns(t, "findLayout")
    BY <1>2 DEF FindPipelineLayout, PipelineSteps
  <2>4. QED
    BY <1>1, <2>2, <2>3, ReturnsInd
<1>3. CASE entries[pipeline[t].layout] # Nothing
  <2>1. /\ hintAt' = [hintAt EXCEPT ![t] = "stage"]
        /\ UNCHANGED <<trackVars, entries, workVars, settled>>
    BY <1>3 DEF FindPipelineLayout, Go
  <2>2. Moves(t)
    BY <1>1, <2>1, UnchangedAdds
       DEF HintTypes, Moves, ObjectSteps, PipelineSteps, workVars
  <2>3. /\ HintTypes' /\ Objects' /\ ModulesTracked' /\ LayoutsTracked'
        /\ \A o : Ready(o)' <=> Ready(o)
        /\ \A o : Kept(o)' <=> Kept(o)
    BY <2>2, MoveFacts
  <2>4. WorkTypes' /\ Fresh' /\ Settled'
    BY <1>1, <2>1, <2>3
       DEF WorkTypes, Fresh, Settled, Hinted, HintTypes, trackVars, workVars
  <2>5. hintAt'[t] = "stage"
    BY <2>1 DEF HintTypes
  <2>6. Working(t)'
    BY <1>1, <2>1, <2>3, <2>5
       DEF Working, Standing, Steps, Freed, Owing, Pending, Hinted, ShownBy,
           GoesTo, For, trackVars, workVars
  <2>7. Works'
    BY <1>1, <2>1, <2>2, <2>5, <2>6, WorksBut DEF PipelineSteps, workVars
  <2>8. QED
    BY <2>3, <2>4, <2>7
<1>4. QED
  BY <1>2, <1>3

\* Nothing is left.
LEMMA AllStagesInd ==
  ASSUME IndInv, NEW t \in HintThreads, AllStages(t)
  PROVE  IndInv'
<1> USE DEF IndInv
<1>1. stages[t] = <<>> /\ hintAt[t] = "stage" /\ Returns(t, "stage")
  BY DEF AllStages, Returns, Go
<1>2. pipeline[t] # Nothing /\ Working(t) /\ "stage" \in PipelineSteps
  BY <1>1 DEF Works, Waiting, PipelineSteps
<1>3. bindings[t] = {} /\ writing[t] = Nothing
  BY <1>1, <1>2 DEF Working, Steps
<1>4. ASSUME NEW w \in owed[t], exists[w.at] = w.layout, w.at \notin racedHandles
      PROVE  Hinted(w)
  <2>1. ShownBy(stages[t]) = {}
    BY <1>1 DEF ShownBy
  <2>2. ~Pending(t, w)
    BY <1>3, <2>1 DEF Pending
  <2>3. QED
    BY <1>2, <1>4, <2>2 DEF Working, Owing
<1>5. QED
  BY <1>1, <1>2, <1>3, <1>4, ReturnsInd

\* The first stage goes into the bindings, for its module is in the map.
LEMMA NextStageInd ==
  ASSUME IndInv, NEW t \in HintThreads, NextStage(t)
  PROVE  IndInv'
<1> USE DEF IndInv
<1> DEFINE p == pipeline[t]
           m == Head(stages[t])
<1>1. /\ hintAt[t] = "stage" /\ hintAt' = [hintAt EXCEPT ![t] = "binding"]
      /\ stages[t] # <<>>
      /\ bindings' = [bindings EXCEPT ![t] = IF entries[m] = Nothing THEN {} ELSE entries[m]]
      /\ stages' = [stages EXCEPT ![t] = Tail(@)]
      /\ UNCHANGED <<trackVars, entries, pipeline, writing, owed, settled>>
  BY DEF NextStage, Go
<1>2. p # Nothing /\ Working(t) /\ bindings[t] = {} /\ writing[t] = Nothing
  BY <1>1 DEF Works, Waiting, PipelineSteps, Working, Steps
<1>3. /\ stages[t] \in Seq(Modules) /\ Tail(stages[t]) \in Seq(Modules)
      /\ m = stages[t][1] /\ 1 \in DOMAIN stages[t] /\ m \in Modules
      /\ \A i \in DOMAIN stages[t] : i = 1 \/ (i - 1 \in DOMAIN Tail(stages[t])
                                             /\ Tail(stages[t])[i - 1] = stages[t][i])
      /\ \A i \in DOMAIN Tail(stages[t]) : i + 1 \in DOMAIN stages[t]
                                           /\ Tail(stages[t])[i] = stages[t][i + 1]
  BY <1>1 DEF WorkTypes
<1>4. Kept(m) /\ \E j \in DOMAIN p.stages : m = p.stages[j]
  BY <1>2, <1>3 DEF Working, Standing, Steps
<1>5. bindings'[t] = Reflection(exists[m])
  <2>1. exists[m] # Nothing
    BY <1>4 DEF Kept, Ready
  <2>2. QED
    BY <1>1, <1>3, <1>4, <2>1 DEF ModulesTracked, Reflection, WorkTypes
<1>6. Moves(t)
  BY <1>1, UnchangedAdds
     DEF HintTypes, WorkTypes, Moves, ObjectSteps, PipelineSteps
<1>7. /\ HintTypes' /\ Objects' /\ ModulesTracked' /\ LayoutsTracked'
      /\ \A o : Ready(o)' <=> Ready(o)
      /\ \A o : Kept(o)' <=> Kept(o)
  BY <1>6, MoveFacts
<1>8. bindings'[t] \subseteq Reflected
  BY <1>3, <1>4, <1>5 DEF HintTypes, Reflection, Reflected, Kept, Ready
<1>9. WorkTypes'
  <2>1. bindings' \in [HintThreads -> SUBSET Reflected]
    BY <1>1, <1>8 DEF WorkTypes
  <2>2. stages' \in [HintThreads -> Seq(Modules)]
    BY <1>1, <1>3 DEF WorkTypes
  <2>3. QED
    BY <1>1, <2>1, <2>2 DEF WorkTypes, trackVars
<1>10. Fresh' /\ Settled'
  BY <1>1, <1>7 DEF Fresh, Settled, Hinted, HintTypes, trackVars
<1>11. hintAt'[t] = "binding" /\ Working(t)'
  <2>1. /\ hintAt'[t] = "binding" /\ pipeline' = pipeline /\ exists' = exists
        /\ writing' = writing /\ owed' = owed /\ racedHandles' = racedHandles
        /\ stages'[t] = Tail(stages[t]) /\ entries' = entries
    BY <1>1 DEF HintTypes, WorkTypes, trackVars
  <2>2. Standing(t)'
    BY <1>2, <1>7, <2>1 DEF Working, Standing
  <2>3. ShownBy(p.stages)' = ShownBy(p.stages)
    BY <2>1 DEF ShownBy
  <2>4. bindings'[t] \subseteq ShownBy(p.stages)
    BY <1>4, <1>5 DEF ShownBy
  <2>5. Steps(t)'
    <3>1. \A i \in DOMAIN stages'[t] : \E j \in DOMAIN p.stages : stages'[t][i] = p.stages[j]
      BY <1>2, <1>3, <2>1 DEF Working, Steps
    <3>2. QED
      BY <1>2, <2>1, <2>3, <2>4, <3>1 DEF Steps
  <2>6. Freed(t)'
    BY <2>1 DEF Freed
  <2>7. Owing(t)'
    <3>1. ASSUME NEW w \in owed[t], Pending(t, w)
          PROVE  Pending(t, w)'
      <4>1. PICK d \in ShownBy(stages[t]) : d.binding = w.binding /\ GoesTo(p, d, w.at)
        BY <1>2, <3>1 DEF Pending
      <4>2. PICK i \in DOMAIN stages[t] : d \in Reflection(exists[stages[t][i]])
        BY <4>1 DEF ShownBy
      <4>3. d \in bindings'[t] \/ d \in ShownBy(stages[t])'
        <5>1. CASE i = 1
          BY <1>3, <1>5, <4>2, <5>1
        <5>2. CASE i # 1
          <6>1. PICK j \in DOMAIN Tail(stages[t]) : Tail(stages[t])[j] = stages[t][i]
            BY <1>3, <5>2
          <6>2. d \in Reflection(exists[Tail(stages[t])[j]])
            BY <4>2, <6>1
          <6>3. QED
            BY <2>1, <6>2 DEF ShownBy
        <5>3. QED
          BY <5>1, <5>2
      <4>4. GoesTo(pipeline[t], d, w.at)'
        BY <2>1, <4>1 DEF GoesTo, For
      <4>5. QED
        BY <4>1, <4>3, <4>4 DEF Pending
    <3>2. \A w : Hinted(w)' <=> Hinted(w)
      BY <2>1 DEF Hinted
    <3>3. QED
      BY <1>2, <2>1, <3>1, <3>2 DEF Working, Owing
  <2>8. QED
    BY <2>1, <2>2, <2>5, <2>6, <2>7 DEF Working
<1>12. Works'
  BY <1>1, <1>2, <1>6, <1>11, WorksBut DEF PipelineSteps
<1>13. QED
  BY <1>7, <1>9, <1>10, <1>12

\* Nothing changes but the step.
LEMMA AllBindingsInd ==
  ASSUME IndInv, NEW t \in HintThreads, AllBindings(t)
  PROVE  IndInv'
<1> USE DEF IndInv
<1>1. /\ hintAt[t] = "binding" /\ hintAt' = [hintAt EXCEPT ![t] = "stage"]
      /\ bindings[t] = {}
      /\ UNCHANGED <<trackVars, entries, workVars, settled>>
  BY DEF AllBindings, Go
<1>2. pipeline[t] # Nothing /\ Working(t)
  BY <1>1 DEF Works, Waiting, PipelineSteps
<1>3. Moves(t)
  BY <1>1, UnchangedAdds
     DEF HintTypes, Moves, ObjectSteps, PipelineSteps, workVars
<1>4. /\ HintTypes' /\ Objects' /\ ModulesTracked' /\ LayoutsTracked'
      /\ \A o : Ready(o)' <=> Ready(o)
      /\ \A o : Kept(o)' <=> Kept(o)
  BY <1>3, MoveFacts
<1>5. WorkTypes' /\ Fresh' /\ Settled'
  BY <1>1, <1>4
     DEF WorkTypes, Fresh, Settled, Hinted, HintTypes, trackVars, workVars
<1>6. hintAt'[t] = "stage"
  BY <1>1 DEF HintTypes
<1>7. Working(t)'
  BY <1>1, <1>2, <1>4, <1>6
     DEF Working, Standing, Steps, Freed, Owing, Pending, Hinted, ShownBy,
         GoesTo, For, trackVars, workVars
<1>8. Works'
  BY <1>1, <1>2, <1>3, <1>6, <1>7, WorksBut DEF PipelineSteps, workVars
<1>9. QED
  BY <1>4, <1>5, <1>8

\* The set layout of a binding, when the pipeline layout still has its entry.
LEMMA SetOfFacts ==
  ASSUME IndInv, NEW t \in HintThreads, pipeline[t] # Nothing,
         entries[pipeline[t].layout] # Nothing, NEW d
  PROVE  /\ entries[pipeline[t].layout] = exists[pipeline[t].layout]
         /\ SetOf(entries[pipeline[t].layout], d) # Nothing =>
              /\ SetOf(entries[pipeline[t].layout], d) = For(pipeline[t], d)
              /\ d.set \in DOMAIN exists[pipeline[t].layout]
              /\ For(pipeline[t], d) \in SetLayouts
         /\ d.set \in DOMAIN exists[pipeline[t].layout] =>
              /\ SetOf(entries[pipeline[t].layout], d) = For(pipeline[t], d)
              /\ For(pipeline[t], d) \in SetLayouts
<1>1. Ready(pipeline[t].layout) /\ pipeline[t].layout \in PipelineLayouts
  BY InPipelineFacts DEF InPipeline
<1>2. entries[pipeline[t].layout] = exists[pipeline[t].layout]
  BY <1>1 DEF IndInv, LayoutsTracked
<1>3. d.set \in DOMAIN exists[pipeline[t].layout] => For(pipeline[t], d) \in SetLayouts
  BY <1>1, LayoutHintsAssumption DEF For, SetLayouts, IndInv, HintTypes, Ready
<1>4. QED
  BY <1>2, <1>3 DEF SetOf, For

\* A binding to which something is due finds its layout.
LEMMA FindSetLayoutInd ==
  ASSUME IndInv, NEW t \in HintThreads, FindSetLayout(t)
  PROVE  IndInv'
<1> USE DEF IndInv
<1> DEFINE p == pipeline[t]
           list == entries[p.layout]
<1>1. PICK d \in bindings[t] :
        /\ bindings' = [bindings EXCEPT ![t] = @ \ {d}]
        /\ CASE list = Nothing -> Undefined(t)
             [] list # Nothing /\ ~HasEntry(SetOf(list, d)) ->
                  hintAt' = hintAt /\ UNCHANGED <<writing, entries>>
             [] list # Nothing /\ HasEntry(SetOf(list, d)) ->
                  /\ Go(t, "binding", "write")
                  /\ writing' = [writing EXCEPT ![t] =
                       [binding |-> d, at |-> SetOf(list, d), layout |-> entries[SetOf(list, d)].layout]]
                  /\ UNCHANGED entries
  BY DEF FindSetLayout
<1>2. /\ hintAt[t] = "binding" /\ UNCHANGED <<trackVars, pipeline, stages, owed, settled>>
  BY DEF FindSetLayout
<1>3. p # Nothing /\ Working(t) /\ writing[t] = Nothing
  BY <1>2 DEF Works, Waiting, PipelineSteps, Working, Steps
<1>4. \/ /\ list = Nothing /\ hintAt' = [hintAt EXCEPT ![t] = "undefined"]
         /\ UNCHANGED <<writing, entries>>
      \/ /\ list # Nothing /\ ~HasEntry(SetOf(list, d))
         /\ hintAt' = hintAt /\ UNCHANGED <<writing, entries>>
      \/ /\ list # Nothing /\ HasEntry(SetOf(list, d))
         /\ hintAt' = [hintAt EXCEPT ![t] = "write"]
         /\ writing' = [writing EXCEPT ![t] =
              [binding |-> d, at |-> SetOf(list, d), layout |-> entries[SetOf(list, d)].layout]]
         /\ UNCHANGED entries
  <2>1. CASE list = Nothing
    BY <1>1, <2>1 DEF Undefined
  <2>2. CASE list # Nothing /\ ~HasEntry(SetOf(list, d))
    BY <1>1, <2>2
  <2>3. CASE list # Nothing /\ HasEntry(SetOf(list, d))
    BY <1>1, <2>3 DEF Go
  <2>4. QED
    BY <2>1, <2>2, <2>3
<1>5. /\ bindings' = [bindings EXCEPT ![t] = @ \ {d}] /\ entries' = entries
      /\ hintAt' \in [HintThreads -> {"idle"} \cup ObjectSteps \cup PipelineSteps]
      /\ hintAt'[t] \in {"undefined", "binding", "write"}
      /\ \A u \in HintThreads \ {t} : hintAt'[u] = hintAt[u] /\ writing'[u] = writing[u]
      /\ UNCHANGED <<trackVars, pipeline, stages, owed, settled>>
  BY <1>1, <1>2, <1>4 DEF HintTypes, WorkTypes, PipelineSteps
<1>6. Moves(t)
  BY <1>2, <1>5, UnchangedAdds DEF WorkTypes, Moves, ObjectSteps, PipelineSteps
<1>7. /\ HintTypes' /\ Objects' /\ ModulesTracked' /\ LayoutsTracked'
      /\ \A o : Ready(o)' <=> Ready(o)
      /\ \A o : Kept(o)' <=> Kept(o)
  BY <1>6, MoveFacts
<1>8. /\ d \in Reflected /\ d \in ShownBy(p.stages)
      /\ exists' = exists /\ racedHandles' = racedHandles /\ created' = created
      /\ object' = object
  BY <1>2, <1>3 DEF WorkTypes, Working, Steps, trackVars
<1>9. \/ /\ writing' = writing
         /\ \/ hintAt'[t] = "undefined" /\ p.layout \in racedHandles
            \/ /\ hintAt'[t] = "binding" /\ list # Nothing
               /\ d.set \in DOMAIN exists[p.layout] => entries[For(p, d)] = Nothing
      \/ \E w \in Writings :
           /\ hintAt'[t] = "write" /\ writing' = [writing EXCEPT ![t] = w]
           /\ w.binding = d /\ GoesTo(p, d, w.at)
           /\ entries[w.at] # Nothing /\ w.layout = entries[w.at].layout /\ w.layout <= created
  <2>1. CASE list = Nothing
    <3>1. p.layout \in racedHandles
      BY <1>3, <2>1, InPipelineFacts, KindFacts
         DEF LayoutsTracked, Working, Standing
    <3>2. QED
      BY <1>4, <2>1, <3>1 DEF HintTypes
  <2>2. CASE list # Nothing /\ ~HasEntry(SetOf(list, d))
    <3>1. d.set \in DOMAIN exists[p.layout] => entries[For(p, d)] = Nothing
      <4>1. d.set \in DOMAIN exists[p.layout] =>
              SetOf(list, d) = For(p, d) /\ For(p, d) \in SetLayouts
        BY <1>3, <2>2, SetOfFacts
      <4>2. \A o \in SetLayouts : o # Nothing
        BY KindFacts, NothingFacts
      <4>3. QED
        BY <2>2, <4>1, <4>2 DEF HasEntry
    <3>2. QED
      BY <1>2, <1>4, <2>2, <3>1
  <2>3. CASE list # Nothing /\ HasEntry(SetOf(list, d))
    <3> DEFINE o == SetOf(list, d)
               w == [binding |-> d, at |-> o, layout |-> entries[o].layout]
    <3>1. o # Nothing /\ entries[o] # Nothing
      BY <2>3 DEF HasEntry
    <3>2. o = For(p, d) /\ d.set \in DOMAIN exists[p.layout] /\ o \in SetLayouts
      BY <1>3, <2>3, <3>1, SetOfFacts
    <3>3. entries[o].layout \in 1 .. MaxLayouts /\ entries[o].layout <= created
      BY <3>1, <3>2 DEF HintTypes, LayoutEntries
    <3>4. w \in Writings /\ w.binding = d /\ w.at = o /\ w.layout = entries[o].layout
      BY <1>8, <3>2, <3>3 DEF Writings
    <3>5. hintAt'[t] = "write" /\ writing' = [writing EXCEPT ![t] = w]
      BY <1>4, <2>3 DEF HintTypes
    <3> HIDE DEF w
    <3>6. QED
      BY <3>1, <3>2, <3>3, <3>4, <3>5 DEF GoesTo
  <2>4. QED
    BY <2>1, <2>2, <2>3
<1>10. WorkTypes'
  <2>1. bindings' \in [HintThreads -> SUBSET Reflected]
    BY <1>5 DEF WorkTypes
  <2>2. /\ writing' \in [HintThreads -> Writings \cup {Nothing}]
        /\ \A u \in HintThreads : writing'[u] # Nothing => writing'[u].layout <= created
    BY <1>9 DEF WorkTypes
  <2>3. QED
    BY <1>5, <1>8, <2>1, <2>2 DEF WorkTypes
<1>11. Fresh'
  <2> SUFFICES ASSUME NEW v \in HintThreads, hintAt[v] = "insert", object[v] \in SetLayouts,
                      NEW u \in HintThreads, writing'[u] # Nothing, writing'[u].at = object[v]
               PROVE  writing'[u].layout # exists[object[v]]
    <3>1. \A v \in HintThreads : hintAt'[v] = "insert" => hintAt[v] = "insert"
      BY <1>5
    <3>2. QED
      BY <1>5, <1>8, <3>1 DEF Fresh
  <2>1. CASE writing'[u] = writing[u]
    BY <2>1 DEF Fresh
  <2>2. CASE writing'[u] # writing[u]
    <3>1. /\ entries[writing'[u].at] # Nothing
          /\ writing'[u].layout = entries[writing'[u].at].layout
      BY <1>9, <2>2 DEF WorkTypes
    <3>2. QED
      BY <3>1 DEF Fresh
  <2>3. QED
    BY <2>1, <2>2
<1>12. Settled'
  BY <1>5, <1>7, <1>8 DEF Settled, Hinted
<1>13. Working(t)'
  <2>1. /\ bindings'[t] = bindings[t] \ {d} /\ stages' = stages /\ pipeline' = pipeline
        /\ owed' = owed
    BY <1>5 DEF WorkTypes
  <2>2. Standing(t)'
    BY <1>3, <1>7, <2>1 DEF Working, Standing
  <2>3. /\ ShownBy(p.stages)' = ShownBy(p.stages)
        /\ ShownBy(stages[t])' = ShownBy(stages[t])
        /\ \A e, o : GoesTo(pipeline[t], e, o)' <=> GoesTo(p, e, o)
    BY <1>8, <2>1 DEF ShownBy, GoesTo, For
  <2>4. \/ writing'[t] = Nothing /\ hintAt'[t] # "write"
        \/ /\ writing'[t] # Nothing /\ hintAt'[t] = "write"
           /\ writing'[t].binding = d /\ GoesTo(p, d, writing'[t].at)
    BY <1>3, <1>9, NothingFacts DEF WorkTypes
  <2>5. Steps(t)'
    BY <1>3, <1>5, <1>8, <2>1, <2>3, <2>4 DEF Working, Steps
  <2>6. Freed(t)'
    BY <1>8, <1>9, <2>1 DEF Freed
  <2>7. Owing(t)'
    <3>1. ASSUME NEW w \in owed[t], exists[w.at] = w.layout, w.at \notin racedHandles,
                 Pending(t, w)
          PROVE  Pending(t, w)'
      <4>1. PICK e \in bindings[t] \cup ShownBy(stages[t]) :
              e.binding = w.binding /\ GoesTo(p, e, w.at)
        BY <1>3, <3>1 DEF Pending
      <4>2. CASE e \in bindings'[t] \cup ShownBy(stages[t])
        BY <2>3, <4>1, <4>2 DEF Pending
      <4>3. CASE e = d
        <5>1. Ready(w.at) /\ w.at \in SetLayouts
          BY <3>1, DebtReady
        <5>2. entries[w.at] # Nothing
          BY <3>1, <5>1, KindFacts DEF LayoutsTracked
        <5>3. w.at = For(p, d) /\ d.set \in DOMAIN exists[p.layout]
          BY <4>1, <4>3 DEF GoesTo
        <5>4. p.layout \notin racedHandles
          BY <1>3 DEF Working, Owing
        <5>5. writing'[t] # Nothing /\ writing'[t].binding = d
          BY <1>9, <5>2, <5>3, <5>4, NothingFacts DEF WorkTypes
        <5>6. QED
          BY <2>3, <4>1, <4>3, <5>5 DEF Pending
      <4>4. QED
        BY <2>1, <4>1, <4>2, <4>3
    <3>2. \A w : Hinted(w)' <=> Hinted(w)
      BY <1>5 DEF Hinted
    <3>3. QED
      BY <1>3, <1>8, <2>1, <3>1, <3>2 DEF Working, Owing
  <2>8. QED
    BY <2>2, <2>5, <2>6, <2>7 DEF Working
<1>14. Works'
  BY <1>3, <1>5, <1>6, <1>13, WorksBut DEF PipelineSteps
<1>15. QED
  BY <1>7, <1>10, <1>11, <1>12, <1>14

\* The hint is written, or the entry was freed.
LEMMA WriteHintInd ==
  ASSUME IndInv, NEW t \in HintThreads, WriteHint(t)
  PROVE  IndInv'
<1> USE DEF IndInv
<1>0. PICK w : w = writing[t]
  OBVIOUS
<1>1. hintAt[t] = "write" /\ pipeline[t] # Nothing /\ Working(t) /\ w \in Writings
  BY <1>0
     DEF WriteHint, Works, Waiting, PipelineSteps, Working, Steps, WorkTypes
<1>2. /\ w.binding \in Reflected /\ w.at \in SetLayouts /\ w.at \in HintObjects
      /\ w.layout \in 1 .. MaxLayouts /\ w.binding.binding \in BindingNumbers
      /\ w.binding.hint # Nothing /\ w.binding.hint \in {d.hint : d \in Reflected}
  BY <1>1, KindFacts, LayoutHintsAssumption DEF Writings, BindingNumbers
<1>3. UNCHANGED <<trackVars, pipeline, stages, bindings, owed, settled>>
  BY DEF WriteHint
<1>4. \/ /\ entries[w.at] # Nothing /\ entries[w.at].layout = w.layout
         /\ hintAt' = [hintAt EXCEPT ![t] = "binding"]
         /\ entries' = [entries EXCEPT ![w.at].hints[w.binding.binding] = w.binding.hint]
         /\ writing' = [writing EXCEPT ![t] = Nothing]
      \/ /\ entries[w.at] = Nothing \/ entries[w.at].layout # w.layout
         /\ hintAt' = [hintAt EXCEPT ![t] = "undefined"]
         /\ UNCHANGED <<writing, entries>>
  BY <1>0 DEF WriteHint, Go, Undefined
<1>5. ASSUME entries[w.at] # Nothing,
             entries' = [entries EXCEPT ![w.at].hints[w.binding.binding] = w.binding.hint]
      PROVE  /\ OnlyAdds
             /\ entries'[w.at] # Nothing
             /\ entries'[w.at].hints[w.binding.binding] # Nothing
             /\ \A o \in SetLayouts : entries'[o] # Nothing => entries'[o].layout = entries[o].layout
  <2> DEFINE e == entries[w.at]
             new == [e EXCEPT !.hints[w.binding.binding] = w.binding.hint]
  <2>1. e \in LayoutEntries /\ w.at \in DOMAIN entries /\ DOMAIN entries = HintObjects
    BY <1>2, <1>5 DEF HintTypes
  <2>2. /\ new.layout = e.layout /\ new \in LayoutEntries
        /\ new.hints[w.binding.binding] = w.binding.hint
        /\ \A b \in BindingNumbers : b # w.binding.binding => new.hints[b] = e.hints[b]
    BY <1>2, <2>1 DEF LayoutEntries
  <2>3. /\ entries'[w.at] = new /\ DOMAIN entries' = HintObjects
        /\ \A o \in HintObjects \ {w.at} : entries'[o] = entries[o]
    BY <1>5, <2>1
  <2>4. new # Nothing
    BY <2>2, NothingFacts
  <2> HIDE DEF new
  <2>5. OnlyAdds
    BY <1>2, <1>5, <2>2, <2>3, <2>4, KindFacts DEF OnlyAdds, HintTypes
  <2>6. \A o \in SetLayouts : entries'[o] # Nothing => entries'[o].layout = entries[o].layout
    BY <2>2, <2>3, KindFacts
  <2>7. QED
    BY <1>2, <2>2, <2>3, <2>4, <2>5, <2>6
<1>6. /\ OnlyAdds
      /\ \A o \in SetLayouts : entries'[o] # Nothing => entries'[o].layout = entries[o].layout
  BY <1>4, <1>5, UnchangedAdds
<1>7. /\ hintAt' \in [HintThreads -> {"idle"} \cup ObjectSteps \cup PipelineSteps]
      /\ hintAt'[t] \in {"binding", "undefined"}
      /\ \A u \in HintThreads \ {t} : hintAt'[u] = hintAt[u] /\ writing'[u] = writing[u]
      /\ writing'[t] \in {w, Nothing}
  BY <1>0, <1>1, <1>4 DEF HintTypes, WorkTypes, PipelineSteps
<1>8. Moves(t)
  BY <1>1, <1>3, <1>6, <1>7 DEF Moves, ObjectSteps
<1>9. /\ HintTypes' /\ Objects' /\ ModulesTracked' /\ LayoutsTracked'
      /\ \A o : Ready(o)' <=> Ready(o)
      /\ \A o : Kept(o)' <=> Kept(o)
      /\ \A x \in Debts : Hinted(x) => Hinted(x)'
  BY <1>8, MoveFacts
<1>10. /\ exists' = exists /\ racedHandles' = racedHandles /\ created' = created
       /\ object' = object /\ pipeline' = pipeline /\ stages' = stages
       /\ bindings' = bindings /\ owed' = owed /\ settled' = settled
  BY <1>3 DEF trackVars
<1>11. WorkTypes'
  BY <1>4, <1>10 DEF WorkTypes
<1>12. Fresh'
  <2>1. \A u \in HintThreads : writing'[u] \in {writing[u], Nothing}
    BY <1>0, <1>7
  <2>2. \A v \in HintThreads : hintAt'[v] = "insert" => hintAt[v] = "insert"
    BY <1>7
  <2>3. \A o \in SetLayouts : entries'[o] # Nothing =>
          entries[o] # Nothing /\ entries'[o].layout = entries[o].layout
    BY <1>6 DEF OnlyAdds
  <2>4. QED
    BY <1>10, <2>1, <2>2, <2>3 DEF Fresh
<1>13. Settled'
  BY <1>9, <1>10 DEF Settled, WorkTypes
<1>14. Working(t)'
  <2>1. Standing(t)'
    BY <1>1, <1>9, <1>10 DEF Working, Standing
  <2>2. /\ \A s : ShownBy(s)' = ShownBy(s)
        /\ \A p, d, o : GoesTo(p, d, o)' <=> GoesTo(p, d, o)
    BY <1>10 DEF ShownBy, GoesTo, For
  <2>3. Steps(t)'
    <3>1. hintAt'[t] = "binding" => writing'[t] = Nothing
      BY <1>4, <1>7, <1>1 DEF HintTypes, WorkTypes
    <3>2. QED
      BY <1>0, <1>1, <1>7, <1>10, <2>2, <3>1 DEF Working, Steps
  <2>4. Freed(t)'
    <3> SUFFICES ASSUME hintAt'[t] = "undefined"
                 PROVE  /\ writing'[t] # Nothing
                        /\ \/ exists[writing'[t].at] # writing'[t].layout
                           \/ writing'[t].at \in racedHandles
      BY <1>10 DEF Freed
    <3>1. /\ entries[w.at] = Nothing \/ entries[w.at].layout # w.layout
          /\ writing' = writing
      BY <1>4 DEF HintTypes
    <3>2. writing'[t] = w /\ w # Nothing
      BY <1>0, <1>1, <3>1, NothingFacts
    <3>3. ASSUME exists[w.at] = w.layout
          PROVE  w.at \in racedHandles
      <4>1. \A u \in HintThreads : hintAt[u] \in {"insert", "track"} => object[u] # w.at
        BY <1>0, <1>2, <3>2, <3>3, KindFacts DEF Fresh, Objects
      <4>2. Ready(w.at)
        BY <1>2, <3>3, <4>1, NothingFacts DEF Ready
      <4>3. QED
        BY <1>2, <3>1, <3>3, <4>2, KindFacts DEF LayoutsTracked
    <3>4. QED
      BY <3>2, <3>3
  <2>5. Owing(t)'
    <3>1. ASSUME NEW x \in owed[t], Pending(t, x)
          PROVE  Pending(t, x)' \/ Hinted(x)'
      <4>1. PICK d \in bindings[t] \cup ShownBy(stages[t]) \cup {w.binding} :
              d.binding = x.binding /\ GoesTo(pipeline[t], d, x.at)
        BY <1>0, <3>1 DEF Pending
      <4>2. CASE d \in bindings[t] \cup ShownBy(stages[t])
        BY <1>10, <2>2, <4>1, <4>2 DEF Pending
      <4>3. CASE d = w.binding
        <5>1. w # Nothing /\ x.at = w.at
          BY <1>0, <1>1, <4>1, <4>3, NothingFacts DEF Working, Steps, GoesTo
        <5>2. CASE writing' = writing
          BY <1>0, <1>10, <2>2, <4>1, <4>3, <5>1, <5>2 DEF Pending
        <5>3. CASE entries'[w.at] # Nothing /\ entries'[w.at].hints[w.binding.binding] # Nothing
          BY <4>1, <4>3, <5>1, <5>3 DEF Hinted
        <5>4. QED
          BY <1>4, <1>5, <5>2, <5>3
      <4>4. QED
        BY <4>1, <4>2, <4>3
    <3>2. \A x \in owed[t] : Hinted(x) => Hinted(x)'
      BY <1>9 DEF WorkTypes
    <3>3. QED
      BY <1>1, <1>10, <3>1, <3>2 DEF Working, Owing
  <2>6. QED
    BY <2>1, <2>3, <2>4, <2>5 DEF Working
<1>15. Works'
  BY <1>1, <1>7, <1>8, <1>10, <1>14, WorksBut DEF PipelineSteps
<1>16. QED
  BY <1>9, <1>11, <1>12, <1>13, <1>15

-------------------------------------------------------------------------------
(***************************************************************************)
(* The invariant and the theorems.                                         *)
(***************************************************************************)

\* No thread is inside a call and there is no object.
LEMMA InitInd == HintsInit => IndInv
<1> SUFFICES ASSUME HintsInit PROVE IndInv
  OBVIOUS
<1> USE DEF HintsInit
<1>1. HintTypes
  BY KindFacts, LayoutHintsAssumption DEF HintTypes
<1>2. WorkTypes
  BY DEF WorkTypes
<1>3. Objects
  BY DEF Objects, ObjectSteps
<1>4. ModulesTracked
  BY KindFacts DEF ModulesTracked, Kept, Ready
<1>5. LayoutsTracked
  BY KindFacts DEF LayoutsTracked, Ready
<1>6. Fresh /\ Settled
  BY DEF Fresh, Settled
<1>7. Works
  BY DEF Works, Waiting, PipelineSteps
<1>8. QED
  BY <1>1, <1>2, <1>3, <1>4, <1>5, <1>6, <1>7 DEF IndInv

\* Every step preserves the invariant.
LEMMA StepInd == IndInv /\ [HintsNext]_layoutHintVars => IndInv'
<1> SUFFICES ASSUME IndInv, [HintsNext]_layoutHintVars PROVE IndInv'
  OBVIOUS
<1>1. ASSUME NEW t \in HintThreads, NEW o \in SetLayouts, CreateSetLayout(t, o)
      PROVE  IndInv'
  <2>1. o \in HintObjects /\ Creates(t, o, created + 1, "insert")
    BY <1>1, KindFacts DEF CreateSetLayout, Creates
  <2>2. QED
    BY <2>1, CreatesInd
<1>2. ASSUME NEW t \in HintThreads, NEW o \in PipelineLayouts, NEW list \in SetLayoutLists,
             CreatePipelineLayout(t, o, list)
      PROVE  IndInv'
  <2>1. o \in HintObjects /\ Creates(t, o, list, "insert")
    BY <1>2, KindFacts DEF CreatePipelineLayout, Creates
  <2>2. QED
    BY <2>1, CreatesInd
<1>3. ASSUME NEW t \in HintThreads, NEW o \in Modules, NEW code \in Codes,
             CreateShaderModule(t, o, code)
      PROVE  IndInv'
  <2>1. o \in HintObjects /\ Creates(t, o, code, "track")
    BY <1>3, KindFacts DEF CreateShaderModule, Creates
  <2>2. QED
    BY <2>1, CreatesInd
<1>4. ASSUME NEW t \in HintThreads, NEW o \in SetLayouts \cup PipelineLayouts, DestroyLayout(t, o)
      PROVE  IndInv'
  BY <1>4, DestroyLayoutInd, KindFacts
<1>5. ASSUME NEW t \in HintThreads, NEW o \in Modules, UntrackShader(t, o)
      PROVE  IndInv'
  BY <1>5, UntrackShaderInd
<1>6. ASSUME NEW t \in HintThreads,
             InsertEntry(t) \/ EraseEntry(t) \/ TrackShader(t) \/ DestroyShaderModule(t)
      PROVE  IndInv'
  BY <1>6, InsertEntryInd, EraseEntryInd, TrackShaderInd,
     DestroyShaderModuleInd
<1>7. ASSUME NEW t \in HintThreads, NEW o \in PipelineLayouts, NEW s \in StageLists,
             CreatePipeline(t, [layout |-> o, stages |-> s])
      PROVE  IndInv'
  <2>1. [layout |-> o, stages |-> s] \in NewPipelines
    BY DEF NewPipelines
  <2>2. QED
    BY <1>7, <2>1, CreatePipelineInd
<1>8. ASSUME NEW t \in HintThreads,
             \/ FindPipelineLayout(t) \/ NextStage(t) \/ AllStages(t) \/ AllBindings(t)
             \/ FindSetLayout(t) \/ WriteHint(t)
      PROVE  IndInv'
  BY <1>8, FindPipelineLayoutInd, NextStageInd, AllStagesInd, AllBindingsInd,
     FindSetLayoutInd, WriteHintInd
<1>9. CASE UNCHANGED layoutHintVars
  <2>1. UNCHANGED <<hintAt, object, exists, created, racedHandles, entries, pipeline, stages,
                    bindings, writing, owed, settled>>
    BY <1>9 DEF layoutHintVars, trackVars, workVars
  <2>2. HintTypes' /\ WorkTypes' /\ Fresh'
    BY <2>1 DEF IndInv, HintTypes, WorkTypes, Fresh
  <2>3. Objects' /\ ModulesTracked' /\ LayoutsTracked' /\ Settled'
    BY <2>1
       DEF IndInv, Objects, ModulesTracked, LayoutsTracked, Settled, Hinted,
           Ready, Kept
  <2>4. Works'
    BY <2>1
       DEF IndInv, Works, Waiting, Working, Standing, Steps, Freed, Owing,
           Pending, Hinted, ShownBy, GoesTo, For, Ready, Kept
  <2>5. QED
    BY <2>2, <2>3, <2>4 DEF IndInv
<1>10. QED
  BY <1>1, <1>2, <1>3, <1>4, <1>5, <1>6, <1>7, <1>8, <1>9 DEF HintsNext

\* The invariant holds in every state.
LEMMA Inductive == HintsSpec => []IndInv
BY InitInd, StepInd, PTL DEF HintsSpec

\* Set layouts, pipeline layouts, modules and threads are what they should be.
THEOREM HintTypesAreKept == HintsSpec => [](HintTypes /\ WorkTypes)
<1>1. IndInv => HintTypes /\ WorkTypes
  BY DEF IndInv
<1>2. QED
  BY <1>1, Inductive, PTL

\* A thread about to write a hint writes what a shader of its pipeline says,
\* into the set layout that the pipeline layout names; and the entry of a
\* layout is its own, not that of one that had the handle before
\* (TrackPipelineDescriptorLayoutBindingTypes, CreateDescriptorSetLayout).
THEOREM HintsAreTrue == HintsSpec => []HintsTrue
<1>1. ASSUME IndInv PROVE HintsTrue
  <2>1. ASSUME NEW t \in HintThreads, hintAt[t] = "write"
        PROVE  /\ writing[t].binding \in Shown(pipeline[t])
               /\ writing[t].at = For(pipeline[t], writing[t].binding)
    <3>1. Working(t)
      BY <1>1, <2>1 DEF IndInv, Works, Waiting, PipelineSteps
    <3>2. QED
      BY <2>1, <3>1, ShownIs DEF Working, Steps, GoesTo
  <2>2. ASSUME NEW o \in SetLayouts \cap Available, entries[o] # Nothing
        PROVE  entries[o].layout = exists[o]
    BY <1>1, <2>2, ReadyAvailable DEF IndInv, LayoutsTracked
  <2>3. QED
    BY <2>1, <2>2 DEF HintsTrue
<1>2. QED
  BY <1>1, Inductive, PTL

\* No hint is lost: what a pipeline should leave is in its set layouts when
\* its creation has returned, for as long as they exist; and a freed entry is
\* used only if the application destroyed the layout meanwhile or the driver
\* gave its handle out before the old entry was erased
\* (TrackPipelineDescriptorLayoutBindingTypes).
THEOREM HintsAreKept == HintsSpec => []HintsKept
<1>1. ASSUME IndInv PROVE HintsKept
  <2>1. \A w \in settled : w.at \notin racedHandles =>
          entries[w.at] # Nothing /\ entries[w.at].hints[w.binding] # Nothing
    BY <1>1 DEF IndInv, Settled, Hinted
  <2>2. ASSUME NEW t \in HintThreads, hintAt[t] = "undefined"
        PROVE  Freed(t)
    BY <1>1, <2>2 DEF IndInv, Works, Waiting, PipelineSteps, Working
  <2>3. QED
    BY <2>1, <2>2 DEF HintsKept, Freed
<1>2. QED
  BY <1>1, Inductive, PTL
===============================================================================
