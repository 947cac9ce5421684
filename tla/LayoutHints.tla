------------------------------ MODULE LayoutHints ------------------------------
(***************************************************************************)
(* How the hints of NullDescriptors come about (pipelines.cpp,             *)
(* shader_reflector.cpp): a shader module's bindings are noted when it is  *)
(* created, a pipeline layout's set layouts when it is, and the creation   *)
(* of a pipeline then hands each binding of its shaders to the set layout  *)
(* of its number, found by its handle.                                     *)
(*                                                                         *)
(* The driver gives a freed handle to whichever thread asks next, and the  *)
(* application may destroy a set layout before the pipeline layouts that   *)
(* name it: these go on naming whatever has the handle.  A thread keeps a  *)
(* pointer to an entry while it holds no lock; what it does through one    *)
(* that was freed is undefined, and here ends its work.  A call that       *)
(* creates several pipelines creates them one after the other.             *)
(***************************************************************************)
EXTENDS Naturals, Sequences

CONSTANTS
    HintThreads,
    LayoutHandles, PipelineLayoutHandles, ModuleHandles,
    Codes,         \* SPIR-V: what its reflection gives, or Unreadable
    SetLayoutLists,\* set number: handle, for new pipeline layouts
    StageLists,    \* sequences of modules
    MaxLayouts,    \* bound: set layouts ever created
    Unreadable, Nothing

\* The bindings of a shader: set and binding number, and its hint.
Reflected == UNION (Codes \ {Unreadable})
BindingNumbers == {d.binding : d \in Reflected}

\* An object is its kind and its handle.
SetLayouts == {"setLayout"} \X LayoutHandles
PipelineLayouts == {"pipelineLayout"} \X PipelineLayoutHandles
Modules == {"module"} \X ModuleHandles
HintObjects == SetLayouts \cup PipelineLayouts \cup Modules

\* What the maps note of a set layout, where a hint is written, and what a
\* pipeline is created from.
NoHints == [b \in BindingNumbers |-> Nothing]
LayoutEntries ==
    [layout : 1 .. MaxLayouts,
     hints : [BindingNumbers -> {d.hint : d \in Reflected} \cup {Nothing}]]
Writings == [binding : Reflected, at : SetLayouts, layout : 1 .. MaxLayouts]
NewPipelines == [layout : PipelineLayouts, stages : StageLists]

ASSUME LayoutHintsAssumption ==
    /\ MaxLayouts \in Nat
    /\ \A d \in Reflected : d.hint # Nothing
    /\ \A list \in SetLayoutLists : \A i \in DOMAIN list : list[i] \in LayoutHandles
    /\ StageLists \subseteq Seq(Modules)

ASSUME NothingAssumption ==
    Nothing \notin UNION {HintObjects, Codes, SetLayoutLists, 1 .. MaxLayouts,
                         LayoutEntries, Writings, NewPipelines}

VARIABLES
    hintAt, object,  \* thread: next step, the object it creates or destroys
    exists,          \* driver: what each object is, a set layout its number
    created,         \* driver: set layouts ever created
    entries,         \* descriptorSetLayoutsMap, pipelineLayoutsMap,
                     \* shaderModulesMap
    pipeline,        \* thread: layout and stages of the pipeline it creates
    stages,          \* thread: the stages left
    bindings,        \* thread: shaderModuleInfo.bindings left
    writing,         \* thread: binding and descriptorSetLayout it points to
    owed,            \* thread, history: what its pipeline should leave
    settled,         \* history: what pipelines have left by now
    racedHandles     \* history: given out before the old entry was erased

trackVars == <<object, exists, created, racedHandles>>
workVars  == <<pipeline, stages, bindings, writing, owed>>
layoutHintVars == <<hintAt, trackVars, entries, workVars, settled>>

HintsInit ==
    /\ hintAt = [t \in HintThreads |-> "idle"]
    /\ object = [t \in HintThreads |-> Nothing]
    /\ exists = [o \in HintObjects |-> Nothing]
    /\ created = 0
    /\ entries = [o \in HintObjects |-> Nothing]
    /\ pipeline = [t \in HintThreads |-> Nothing]
    /\ stages = [t \in HintThreads |-> <<>>]
    /\ bindings = [t \in HintThreads |-> {}]
    /\ writing = [t \in HintThreads |-> Nothing]
    /\ owed = [t \in HintThreads |-> {}]
    /\ settled = {}
    /\ racedHandles = {}

Go(t, from, to) ==
    /\ hintAt[t] = from
    /\ hintAt' = [hintAt EXCEPT ![t] = to]

\* The objects a thread creates a pipeline from or destroys: a handle whose object
\* the driver has destroyed is no longer one.
InUse(t) ==
    IF pipeline[t] = Nothing THEN IF hintAt[t] = "destroyModule" THEN {object[t]} ELSE {}
    ELSE {pipeline[t].layout} \cup {pipeline[t].stages[i] : i \in DOMAIN pipeline[t].stages}

\* The objects whose creation has returned.
Available ==
    {o \in HintObjects : exists[o] # Nothing}
      \ {object[t] : t \in {u \in HintThreads : hintAt[u] \in {"insert", "track"}}}

Usable(o) == o \in Available /\ \A t \in HintThreads : o \notin InUse(t)

-------------------------------------------------------------------------------
(***************************************************************************)
(* Set layouts, pipeline layouts and shader modules.                       *)
(***************************************************************************)

\* The driver creates an object.
CreateFirst(t, o, is, to) ==
    /\ Go(t, "idle", to)
    /\ exists[o] = Nothing
    /\ exists' = [exists EXCEPT ![o] = is]
    /\ object' = [object EXCEPT ![t] = o]
    /\ racedHandles' = racedHandles \cup
         ({o} \cap {object[u] : u \in {v \in HintThreads : hintAt[v] = "erase"}})
    /\ UNCHANGED <<entries, workVars, settled>>

CreateSetLayout(t, o) ==
    /\ created < MaxLayouts
    /\ created' = created + 1
    /\ CreateFirst(t, o, created + 1, "insert")

\* The set layouts a pipeline layout names exist when it is created.
CreatePipelineLayout(t, o, list) ==
    /\ \A i \in DOMAIN list : <<"setLayout", list[i]>> \in Available
    /\ CreateFirst(t, o, list, "insert")
    /\ UNCHANGED created

\* A new entry replaces, and so frees, one that is still there.
InsertEntry(t) ==
    /\ Go(t, "insert", "idle")
    /\ LET o == object[t]
       IN  entries' = [entries EXCEPT ![o] =
             IF o[1] = "setLayout" THEN [layout |-> exists[o], hints |-> NoHints]
             ELSE exists[o]]
    /\ object' = [object EXCEPT ![t] = Nothing]
    /\ UNCHANGED <<exists, created, racedHandles, workVars, settled>>

\* The driver destroys a set layout or a pipeline layout first ...
DestroyLayout(t, o) ==
    /\ Go(t, "idle", "erase")
    /\ o \notin Modules /\ Usable(o)
    /\ exists' = [exists EXCEPT ![o] = Nothing]
    /\ object' = [object EXCEPT ![t] = o]
    /\ racedHandles' = racedHandles \ {o}
    /\ settled' = {w \in settled : w.at # o}
    /\ UNCHANGED <<created, entries, workVars>>

\* ... and the entry goes afterwards, whosever it is by then.
EraseEntry(t) ==
    /\ Go(t, "erase", "idle")
    /\ entries' = [entries EXCEPT ![object[t]] = Nothing]
    /\ object' = [object EXCEPT ![t] = Nothing]
    /\ UNCHANGED <<exists, created, racedHandles, workVars, settled>>

CreateShaderModule(t, o, code) ==
    /\ CreateFirst(t, o, code, "track")
    /\ UNCHANGED created

\* TrackShader: without a reflection the module has no entry.
TrackShader(t) ==
    /\ Go(t, "track", "idle")
    /\ entries' = [entries EXCEPT ![object[t]] =
         IF exists[object[t]] = Unreadable THEN @ ELSE exists[object[t]]]
    /\ object' = [object EXCEPT ![t] = Nothing]
    /\ UNCHANGED <<exists, created, racedHandles, workVars, settled>>

\* Faulty variant: the driver destroys the module first, as it does layouts.
DestroyModuleFirstMutant(t, o) ==
    /\ Go(t, "idle", "erase")
    /\ o \in Modules /\ Usable(o)
    /\ exists' = [exists EXCEPT ![o] = Nothing]
    /\ object' = [object EXCEPT ![t] = o]
    /\ UNCHANGED <<created, racedHandles, entries, workVars, settled>>

\* A shader module is untracked first.
UntrackShader(t, o) ==
    /\ Go(t, "idle", "destroyModule")
    /\ o \in Modules /\ Usable(o)
    /\ entries' = [entries EXCEPT ![o] = Nothing]
    /\ object' = [object EXCEPT ![t] = o]
    /\ UNCHANGED <<exists, created, racedHandles, workVars, settled>>

DestroyShaderModule(t) ==
    /\ Go(t, "destroyModule", "idle")
    /\ exists' = [exists EXCEPT ![object[t]] = Nothing]
    /\ object' = [object EXCEPT ![t] = Nothing]
    /\ UNCHANGED <<created, racedHandles, entries, workVars, settled>>

-------------------------------------------------------------------------------
(***************************************************************************)
(* The creation of a pipeline, after the driver's part of it succeeded:    *)
(* TrackPipelineDescriptorLayoutBindingTypes.                              *)
(***************************************************************************)

\* The bindings of the shaders a pipeline is made of.
Shown(p) ==
    UNION {IF exists[m] = Unreadable THEN {} ELSE exists[m] :
             m \in {p.stages[i] : i \in DOMAIN p.stages}}

\* The set layout that a pipeline's binding d is for.
For(p, d) == <<"setLayout", exists[p.layout][d.set]>>

Owed(p) ==
    {[at |-> For(p, d), layout |-> exists[For(p, d)], binding |-> d.binding] :
       d \in {e \in Shown(p) : /\ p.layout \notin racedHandles
                               /\ e.set \in DOMAIN exists[p.layout]
                               /\ For(p, e) \in Available}}

CreatePipeline(t, p) ==
    /\ Go(t, "idle", "findLayout")
    /\ Usable(p.layout) /\ \A i \in DOMAIN p.stages : Usable(p.stages[i])
    /\ pipeline' = [pipeline EXCEPT ![t] = p]
    /\ stages' = [stages EXCEPT ![t] = p.stages]
    /\ owed' = [owed EXCEPT ![t] = Owed(p)]
    /\ UNCHANGED <<trackVars, entries, bindings, writing, settled>>

\* The call returns; what was owed to layouts that still exist is due.
Returns(t, from) ==
    /\ Go(t, from, "idle")
    /\ settled' = settled \cup {w \in owed[t] : exists[w.at] = w.layout}
    /\ pipeline' = [pipeline EXCEPT ![t] = Nothing]
    /\ owed' = [owed EXCEPT ![t] = {}]
    /\ stages' = [stages EXCEPT ![t] = <<>>]
    /\ UNCHANGED <<trackVars, entries, bindings, writing>>

FindPipelineLayout(t) ==
    /\ hintAt[t] = "findLayout"
    /\ IF entries[pipeline[t].layout] = Nothing
       THEN Returns(t, "findLayout")
       ELSE /\ Go(t, "findLayout", "stage")
            /\ UNCHANGED <<trackVars, entries, workVars, settled>>

\* A module without an entry is passed over; an entry is copied.
NextStage(t) ==
    /\ Go(t, "stage", "binding")
    /\ stages[t] # <<>>
    /\ bindings' = [bindings EXCEPT ![t] =
         IF entries[Head(stages[t])] = Nothing THEN {} ELSE entries[Head(stages[t])]]
    /\ stages' = [stages EXCEPT ![t] = Tail(@)]
    /\ UNCHANGED <<trackVars, entries, pipeline, writing, owed, settled>>

AllStages(t) == stages[t] = <<>> /\ Returns(t, "stage")

AllBindings(t) ==
    /\ Go(t, "binding", "stage")
    /\ bindings[t] = {}
    /\ UNCHANGED <<trackVars, entries, workVars, settled>>

Undefined(t) ==
    /\ hintAt' = [hintAt EXCEPT ![t] = "undefined"]
    /\ UNCHANGED <<writing, entries>>

\* Faulty variant: sets are numbered from one.
SetOfMutant(list, d) ==
    IF d.set = 0 THEN Nothing ELSE <<"setLayout", list[d.set - 1]>>

\* The set layout a binding belongs to, if the pipeline layout has that many.
SetOf(list, d) ==
    IF d.set \in DOMAIN list THEN <<"setLayout", list[d.set]>> ELSE Nothing

HasEntry(o) == o # Nothing /\ entries[o] # Nothing

\* The set layout of a binding is found by its handle; the pipeline layout is
\* read through the pointer that was found at the start.
FindSetLayout(t) ==
    /\ hintAt[t] = "binding"
    /\ \E d \in bindings[t] :
         LET list == entries[pipeline[t].layout]
             o == SetOf(list, d)
         IN  /\ bindings' = [bindings EXCEPT ![t] = @ \ {d}]
             /\ CASE list = Nothing -> Undefined(t)
                  [] list # Nothing /\ ~HasEntry(o) ->
                       hintAt' = hintAt /\ UNCHANGED <<writing, entries>>
                  [] list # Nothing /\ HasEntry(o) ->
                       /\ Go(t, "binding", "write")
                       /\ writing' = [writing EXCEPT ![t] =
                            [binding |-> d, at |-> o, layout |-> entries[o].layout]]
                       /\ UNCHANGED entries
    /\ UNCHANGED <<trackVars, pipeline, stages, owed, settled>>

\* The hint is written, under the lock of the entry itself.
WriteHint(t) ==
    /\ hintAt[t] = "write"
    /\ LET w == writing[t]
           e == entries[w.at]
       IN  IF e # Nothing /\ e.layout = w.layout
           THEN /\ Go(t, "write", "binding")
                /\ entries' = [entries EXCEPT
                     ![w.at].hints[w.binding.binding] = w.binding.hint]
                /\ writing' = [writing EXCEPT ![t] = Nothing]
           ELSE Undefined(t)
    /\ UNCHANGED <<trackVars, pipeline, stages, bindings, owed, settled>>

HintsNext == \E t \in HintThreads :
    \/ \E o \in SetLayouts : CreateSetLayout(t, o) \/ DestroyLayout(t, o)
    \/ \E o \in PipelineLayouts :
         \/ \E list \in SetLayoutLists : CreatePipelineLayout(t, o, list)
         \/ DestroyLayout(t, o)
    \/ InsertEntry(t) \/ EraseEntry(t)
    \/ \E o \in Modules :
         \/ \E code \in Codes : CreateShaderModule(t, o, code)
         \/ UntrackShader(t, o)
    \/ TrackShader(t) \/ DestroyShaderModule(t)
    \/ \E o \in PipelineLayouts, s \in StageLists :
         CreatePipeline(t, [layout |-> o, stages |-> s])
    \/ FindPipelineLayout(t) \/ NextStage(t) \/ AllStages(t) \/ AllBindings(t)
    \/ FindSetLayout(t) \/ WriteHint(t)

HintsSpec == HintsInit /\ [][HintsNext]_layoutHintVars

-------------------------------------------------------------------------------
\* What a pipeline writes into a set layout is what the shaders it was created
\* from say of that binding, and the layout is the one whose handle the pipeline
\* layout gives for the set, whichever modules and layouts had these handles
\* before; and the entry it goes into is that of the layout that now has the
\* handle, with none of the hints of its predecessor.
HintsTrue ==
    /\ \A t \in HintThreads : hintAt[t] = "write" =>
         /\ writing[t].binding \in Shown(pipeline[t])
         /\ writing[t].at = For(pipeline[t], writing[t].binding)
    /\ \A o \in SetLayouts \cap Available :
         entries[o] # Nothing => entries[o].layout = exists[o]

\* Once the creation of a pipeline has returned, each binding its shaders show
\* has a hint in its set layout for as long as that exists.  The creation works
\* on an entry that was freed only if the application destroyed the set layout
\* meanwhile.  Neither holds of handles that were given out while another thread
\* had yet to erase their old entry.
HintsKept ==
    /\ \A w \in settled : w.at \notin racedHandles =>
         entries[w.at] # Nothing /\ entries[w.at].hints[w.binding] # Nothing
    /\ \A t \in HintThreads : hintAt[t] = "undefined" =>
         \/ pipeline[t].layout \in racedHandles
         \/ /\ writing[t] # Nothing
            /\ \/ exists[writing[t].at] # writing[t].layout
               \/ writing[t].at \in racedHandles
===============================================================================
