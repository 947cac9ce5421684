---------------------------- MODULE NullDescriptors ----------------------------
(***************************************************************************)
(* The emulation of null descriptors (null_descriptors.cpp): descriptor    *)
(* writes and template data are patched on their way to the driver, each   *)
(* null handle replaced by a resource that reads as zero.  The view        *)
(* depends on the hint that pipeline creation left for the binding in the  *)
(* layout of the set; views other than the default ones are created on     *)
(* demand and kept in caches that threads check under one lock and fill    *)
(* under another.  Vertex buffers are replaced by the same null buffer.    *)
(*                                                                         *)
(* A write or a template entry has one element here; the loops over        *)
(* several elements treat each alike.  An input attachment is an image.    *)
(* Hints exist only if emulate_precise_null_descriptor is set: without it  *)
(* no pipeline leaves one.                                                 *)
(***************************************************************************)
EXTENDS Naturals, Sequences, FiniteSets

CONSTANTS Threads,
          Layouts, Bindings,
          LayoutOf,       \* descriptorSetsMap: the layout of each set, or NoLayout
          Pipelines,      \* what pipelines tell: <<layout, binding, hint>>
          Calls,          \* thread: the calls it may make
          MaxFailures,    \* bound: resources whose creation fails
          NoLayout, NoCall, NoThread,
          App,            \* data of the application's own
          Garbage,        \* memory behind the end of the copy
          Null, Uncached

ASSUME BoundsAssumption ==
    /\ Pipelines \subseteq Layouts \X Bindings \X {p[3] : p \in Pipelines}
    /\ MaxFailures \in Nat

\* The members of an element, by descriptor type (get_stride knows all but the
\* last, whose data the layer does not look at); a vertex buffer is no descriptor
\* but has its null replaced too.
Parts == [buffer   |-> {"buffer"},
          sampler  |-> {"sampler"},
          image    |-> {"imageView"},
          combined |-> {"imageView", "sampler"},
          texel    |-> {"bufferView"},
          vertex   |-> {"buffer"},
          other    |-> {"raw"}]

\* The types whose data a write has behind pBufferInfo, a pointer that Vulkan
\* ignores for them.
Shadowed == {"sampler", "image", "combined", "texel"}

\* An element has a type the layer knows or "other", and may be null in any of
\* the members that are looked at.  The data in which the layer looks for a null
\* are those behind the first pointer of the write that is not null: the
\* element's own, or behind an ignored pointer that was left set, where it sees
\* a "null" or "other" values (that it may crash there is left out).
Items ==
    {item \in [set : DOMAIN LayoutOf, binding : Bindings, type : DOMAIN Parts,
               nulls : SUBSET UNION {Parts[type] : type \in DOMAIN Parts},
               seen : {"own", "null", "other"}] :
       /\ item.nulls \subseteq Parts[item.type] \ {"raw"}
       /\ item.type \notin Shadowed => item.seen = "own"}

ASSUME CallsAssumption ==
    \A t \in Threads : \A c \in Calls[t] :
        /\ c # NoCall
        /\ c.layout \in Layouts \cup {NoLayout}
        /\ c.template \in BOOLEAN
        /\ c.items \in Seq(Items)
        /\ c.template => \A i \in DOMAIN c.items : c.items[i].seen = "own"

ASSUME NamesAssumption ==
    /\ LayoutOf \in [DOMAIN LayoutOf -> Layouts \cup {NoLayout}]
    /\ NoLayout \notin Layouts
    /\ NoThread \notin Threads
    /\ Null \notin {App, Garbage, Uncached}

\* A hint is a shape and a format.
NoHint == <<"2D", "undefined">>
Hints == {p[3] : p \in Pipelines}

\* What a resource has to be like to stand for a part under a hint: its kind,
\* shape and format.  VK_IMAGE_VIEW_TYPE_MAX_ENUM is taken for 2D.
KeyFor(part, hint) ==
    CASE part = "imageView" ->
           <<part, hint[1], IF hint[2] = "undefined" THEN "RGBA8" ELSE hint[2]>>
      [] part = "bufferView" ->
           <<part, "none", IF hint[2] = "undefined" THEN "R32_UINT" ELSE hint[2]>>
      [] OTHER -> <<part, "none", "none">>

Kinds == {"buffer", "bufferView", "imageView", "sampler"}
Keys == {KeyFor(part, hint) : part \in Kinds, hint \in Hints \cup {NoHint}}
DefaultKey(part) == KeyFor(part, NoHint)

\* A resource is known by its key and by who created it: a thread, or
\* create_null_resources.
Resources == Keys \X (Threads \cup {NoThread})

ASSUME NoResourceAssumption == {Null, Uncached} \cap Resources = {}

VARIABLES
    phase,        \* of the device: "new", "up", "gone"
    hints,        \* layout, binding: bindingHints
    hinted,       \* history: the hints ever given
    resources,    \* key: null_buffer ... null_sampler, bufferViewsByFormat,
                  \* imagesByShape; Null if its creation failed
    live,         \* the driver's: resources that exist
    lost,         \* history: created, but another thread's was cached
    failed,       \* history: keys whose creation failed
    at, call,     \* thread: next step and the call it is in
    index,        \* thread: the write it looks at
    layoutHandle, \* thread: local of fix_null_descriptors
    hint,         \* thread: formatHint and viewTypeHint
    found,        \* thread: imageView and bufferView of fixup
    patched       \* thread: what the driver will be handed

deviceVars == <<phase, resources, live, lost, failed>>
hintVars   == <<hints, hinted>>
threadVars == <<at, call, index, layoutHandle, hint, found, patched>>
vars == <<deviceVars, hintVars, threadVars>>

NoneFound == [imageView |-> Null, bufferView |-> Null]

Init ==
    /\ phase = "new"
    /\ hints = [l \in Layouts |-> [b \in Bindings |-> NoHint]]
    /\ hinted = {}
    /\ resources = [k \in Keys |-> Uncached]
    /\ live = {}
    /\ lost = {}
    /\ failed = {}
    /\ at = [t \in Threads |-> "idle"]
    /\ call = [t \in Threads |-> NoCall]
    /\ index = [t \in Threads |-> 0]
    /\ layoutHandle = [t \in Threads |-> NoLayout]
    /\ hint = [t \in Threads |-> NoHint]
    /\ found = [t \in Threads |-> NoneFound]
    /\ patched = [t \in Threads |-> <<>>]

Step(t, from, to) ==
    /\ at[t] = from
    /\ at' = [at EXCEPT ![t] = to]

Item(t) == call[t].items[index[t]]

-------------------------------------------------------------------------------
(***************************************************************************)
(* The null resources and the hints.                                       *)
(***************************************************************************)

\* The default resources that may come of create_null_resources: it gives up
\* when the buffer or its memory fails, but not when its view or a later resource
\* does.
Outcomes ==
    {{}, {"buffer"}} \cup {{"buffer"} \cup S : S \in SUBSET (Kinds \ {"buffer"})}

\* bare: the buffer is left without memory.
CreateNullResources(made, bare) ==
    /\ phase = "new" /\ phase' = "up"
    /\ bare # {} => made = {"buffer"}
    /\ \/ Cardinality(Kinds \ made) <= MaxFailures
       \/ (made = {} \/ bare # {}) /\ MaxFailures > 0
    /\ resources' = [k \in Keys |->
         IF k = DefaultKey(k[1])
         THEN IF k[1] \in made THEN <<k, NoThread>> ELSE Null
         ELSE resources[k]]
    /\ live' = {<<DefaultKey(p), NoThread>> : p \in made}
    /\ failed' = {DefaultKey(p) : p \in (Kinds \ made) \cup bare}
    /\ UNCHANGED <<lost, hintVars, threadVars>>

\* DestroyDevice, when no thread uses the device: the defaults and what the
\* caches hold.
DestroyNullResources ==
    /\ phase = "up" /\ phase' = "gone"
    /\ \A t \in Threads : at[t] = "idle"
    /\ live' = live \ {resources[k] : k \in Keys}
    /\ resources' = [k \in Keys |-> Uncached]
    /\ UNCHANGED <<lost, failed, hintVars, threadVars>>

\* CreateGraphicsPipelines and CreateComputePipelines: a binding of a shader
\* gives its hint to the set layout the pipeline layout names, over any other.
TrackBinding(l, b, h) ==
    /\ phase = "up"
    /\ hints' = [hints EXCEPT ![l][b] = h]
    /\ hinted' = hinted \cup {<<l, b, h>>}
    /\ UNCHANGED <<deviceVars, threadVars>>

-------------------------------------------------------------------------------
(***************************************************************************)
(* The fixup of a call: UpdateDescriptorSets and CmdPushDescriptorSet      *)
(* patch the writes that hold a null handle, the functions with a template *)
(* patch all entries if any holds one.                                     *)
(***************************************************************************)

\* Faulty variant: a sampler is looked at only where there is no view.
NeedsViewMutant(item) ==
    item.seen = "null" \/ (item.seen = "own" /\ item.nulls \notin {{}, {"sampler"}})

\* needs_fixup, of the data the layer looks at.
Needs(item) == item.seen = "null" \/ (item.seen = "own" /\ item.nulls # {})

Raw(item) == [p \in Parts[item.type] |-> IF p \in item.nulls THEN Null ELSE App]

\* The copy of a template's data ends with the last entry whose type has a
\* stride.
Copied(c, i) ==
    \/ ~c.template
    \/ \A j \in DOMAIN c.items : ~Needs(c.items[j])
    \/ \E j \in i..Len(c.items) : c.items[j].type # "other"

\* A call arrives; a push or a template comes with a layout.
Begin(t, c) ==
    /\ phase = "up"
    /\ Step(t, "idle", "write")
    /\ call' = [call EXCEPT ![t] = c]
    /\ index' = [index EXCEPT ![t] = 1]
    /\ layoutHandle' = [layoutHandle EXCEPT ![t] = c.layout]
    /\ patched' = [patched EXCEPT ![t] = [i \in DOMAIN c.items |->
         IF Copied(c, i) THEN Raw(c.items[i]) ELSE [p \in {"raw"} |-> Garbage]]]
    /\ UNCHANGED <<hint, found, deviceVars, hintVars>>

Skipped(t) ==
    IF call[t].template
    THEN \A j \in DOMAIN call[t].items : ~Needs(call[t].items[j])
    ELSE ~Needs(Item(t))

Skip(t) ==
    /\ Step(t, "write", "write")
    /\ index[t] <= Len(call[t].items) /\ Skipped(t) /\ Item(t).type # "vertex"
    /\ index' = [index EXCEPT ![t] = @ + 1]
    /\ UNCHANGED <<call, layoutHandle, hint, found, patched, deviceVars, hintVars>>

\* The layout whose hints are used: once known it stays for the whole call.
LayoutFor(t) ==
    IF layoutHandle[t] = NoLayout /\ ~call[t].template
    THEN LayoutOf[Item(t).set] ELSE layoutHandle[t]

\* Faulty variant: the first hint of the layout, whichever binding has it.
AnyHintMutant(l, b) ==
    IF l = NoLayout THEN NoHint
    ELSE IF \E x \in Bindings : hints[l][x] # NoHint
         THEN hints[l][CHOOSE x \in Bindings : hints[l][x] # NoHint]
         ELSE NoHint

HintAt(l, b) == IF l = NoLayout THEN NoHint ELSE hints[l][b]

\* A write that is patched begins with its hint; fixup then asks for an image
\* view for every type but a sampler.
Fix(t) ==
    /\ at[t] = "write" /\ index[t] <= Len(call[t].items) /\ ~Skipped(t)
    /\ Item(t).type # "vertex"
    /\ at' = [at EXCEPT ![t] = IF Item(t).type = "sampler" THEN "patch" ELSE "imageView"]
    /\ layoutHandle' = [layoutHandle EXCEPT ![t] = LayoutFor(t)]
    /\ hint' = [hint EXCEPT ![t] = HintAt(LayoutFor(t), Item(t).binding)]
    /\ UNCHANGED <<call, index, found, patched, deviceVars, hintVars>>

Wanted(t) == KeyFor(IF at[t] \in {"imageView", "newImageView"}
                    THEN "imageView" ELSE "bufferView", hint[t])

\* The thread goes on with the view r.
Take(t, r) ==
    /\ at' = [at EXCEPT ![t] = IF Wanted(t)[1] = "imageView" /\ Item(t).type = "texel"
                               THEN "bufferView" ELSE "patch"]
    /\ found' = [found EXCEPT ![t][Wanted(t)[1]] = r]

\* get_null_image_view and get_null_buffer_view: a default, or an entry of the
\* cache, which may be a failure.
FindView(t) ==
    /\ at[t] \in {"imageView", "bufferView"}
    /\ resources[Wanted(t)] # Uncached
    /\ Take(t, resources[Wanted(t)])
    /\ UNCHANGED <<call, index, layoutHandle, hint, patched, deviceVars, hintVars>>

MissView(t) ==
    /\ \/ Step(t, "imageView", "newImageView")
       \/ Step(t, "bufferView", "newBufferView")
    /\ resources[Wanted(t)] = Uncached
    /\ UNCHANGED <<call, index, layoutHandle, hint, found, patched, deviceVars,
                   hintVars>>

\* Faulty variant: a second view takes the place of the first.
CacheLastMutant(k, r) ==
    /\ resources' = [resources EXCEPT ![k] = r]
    /\ lost' = lost

\* emplace leaves an entry that another thread made meanwhile.
CacheView(k, r) ==
    IF resources[k] = Uncached
    THEN resources' = [resources EXCEPT ![k] = r] /\ lost' = lost
    ELSE resources' = resources /\ lost' = lost \cup ({r} \ {Null})

\* CreateNullImageResource and CreateNullBufferView, which leave nothing behind
\* when they fail; the thread uses its own view, the failure is cached too.
EmplaceView(t) ==
    /\ at[t] \in {"newImageView", "newBufferView"}
    /\ \/ LET r == <<Wanted(t), t>>
          IN  /\ live' = live \cup {r}
              /\ CacheView(Wanted(t), r)
              /\ Take(t, r)
              /\ failed' = failed
       \/ /\ Cardinality(failed) < MaxFailures
          /\ CacheView(Wanted(t), Null)
          /\ Take(t, Null)
          /\ failed' = failed \cup {Wanted(t)}
          /\ live' = live
    /\ UNCHANGED <<call, index, layoutHandle, hint, patched, phase, hintVars>>

\* The rest of fixup: null parts get their replacement.
Patch(t) ==
    /\ Step(t, "patch", "write")
    /\ patched' = [patched EXCEPT ![t][index[t]] =
         [p \in DOMAIN @ |->
            IF @[p] # Null THEN @[p]
            ELSE IF p \in DOMAIN NoneFound THEN found[t][p]
            ELSE resources[DefaultKey(p)]]]
    /\ index' = [index EXCEPT ![t] = @ + 1]
    /\ found' = [found EXCEPT ![t] = NoneFound]
    /\ hint' = [hint EXCEPT ![t] = NoHint]
    /\ UNCHANGED <<call, layoutHandle, deviceVars, hintVars>>

\* CmdBindVertexBuffers and CmdBindVertexBuffers2: a copy of the buffers, null
\* ones replaced.
BindVertexBuffer(t) ==
    /\ Step(t, "write", "write")
    /\ index[t] <= Len(call[t].items) /\ Item(t).type = "vertex"
    /\ patched' = [patched EXCEPT ![t][index[t]].buffer =
         IF @ = Null THEN resources[DefaultKey("buffer")] ELSE @]
    /\ index' = [index EXCEPT ![t] = @ + 1]
    /\ UNCHANGED <<call, layoutHandle, hint, found, deviceVars, hintVars>>

\* The driver is handed the patched data.
Deliver(t) ==
    /\ Step(t, "write", "idle")
    /\ index[t] > Len(call[t].items)
    /\ call' = [call EXCEPT ![t] = NoCall]
    /\ index' = [index EXCEPT ![t] = 0]
    /\ layoutHandle' = [layoutHandle EXCEPT ![t] = NoLayout]
    /\ patched' = [patched EXCEPT ![t] = <<>>]
    /\ UNCHANGED <<hint, found, deviceVars, hintVars>>

Next ==
    \/ \E made \in Outcomes, bare \in {{}, {"buffer"}} : CreateNullResources(made, bare)
    \/ DestroyNullResources
    \/ \E p \in Pipelines : TrackBinding(p[1], p[2], p[3])
    \/ \E t \in Threads :
         \/ \E c \in Calls[t] : Begin(t, c)
         \/ Skip(t) \/ Fix(t) \/ FindView(t) \/ MissView(t) \/ EmplaceView(t)
         \/ Patch(t) \/ BindVertexBuffer(t) \/ Deliver(t)

Spec == Init /\ [][Next]_vars

-------------------------------------------------------------------------------
\* The type of every variable; a thread never takes the absence of an entry for
\* a view.
TypeOK ==
    /\ phase \in {"new", "up", "gone"}
    /\ hints \in [Layouts -> [Bindings -> Hints \cup {NoHint}]]
    /\ hinted \in SUBSET Pipelines
    /\ resources \in [Keys -> Resources \cup {Null, Uncached}]
    /\ live \in SUBSET Resources
    /\ lost \in SUBSET Resources
    /\ failed \in SUBSET Keys
    /\ at \in [Threads -> {"idle", "write", "imageView", "newImageView", "bufferView",
                           "newBufferView", "patch"}]
    /\ DOMAIN call = Threads /\ \A t \in Threads : call[t] \in Calls[t] \cup {NoCall}
    /\ index \in [Threads -> Nat]
    /\ layoutHandle \in [Threads -> Layouts \cup {NoLayout}]
    /\ hint \in [Threads -> Hints \cup {NoHint}]
    /\ found \in [Threads -> [DOMAIN NoneFound -> Resources \cup {Null}]]
    /\ DOMAIN patched = Threads
    /\ \A t \in Threads : \A i \in DOMAIN patched[t] :
         \A p \in DOMAIN patched[t][i] :
           patched[t][i][p] \in Resources \cup {App, Garbage, Null}

\* The threads about to hand their data to the driver.
Delivering == {t \in Threads : call[t] # NoCall /\ index[t] > Len(call[t].items)}

\* In any order of writes, the driver is handed a live null resource of the right
\* kind for every null handle, and the application's own data for the rest.
\* Three exceptions are the code's: a null handle stays where a resource of its
\* kind could not be created; it stays in a write with an ignored pointer left
\* set, where the layer looks for a null in data that are not the write's; and of
\* a template that is patched the data behind the last known entry are cut off.
\* A buffer left without memory counts as a null buffer here.
NullsReplaced ==
    \A t \in Delivering : \A i \in DOMAIN call[t].items :
        LET item == call[t].items[i]
        IN  \A p \in Parts[item.type] :
              LET v == patched[t][i][p]
              IN  IF p \in item.nulls
                  THEN \/ v \in live /\ v[1][1] = p
                       \/ v = Null /\ \E k \in failed : k[1] = p
                       \/ v = Null /\ item.seen = "other"
                  ELSE v = App \/ ~Copied(call[t], i)

\* The layout whose hints should decide.
OwnLayout(c, item) ==
    IF c.layout # NoLayout \/ c.template THEN c.layout ELSE LayoutOf[item.set]

\* A view put in for a null handle is of the shape and format hinted for its
\* binding in the layout of its set, at some time, also when threads share the
\* caches.  The exception is the code's: in a call for sets of several layouts
\* the layout of the first write that is patched decides for all.
HintsFollowed ==
    \A t \in Delivering : \A i \in DOMAIN call[t].items :
        LET item == call[t].items[i]
            own == OwnLayout(call[t], item)
            given == {h \in Hints : <<own, item.binding, h>> \in hinted}
        IN  \/ \E j \in 1..(i - 1) :
                 /\ Needs(call[t].items[j])
                 /\ OwnLayout(call[t], call[t].items[j]) \notin {own, NoLayout}
            \/ \A p \in item.nulls \cap {"imageView", "bufferView"} :
                 patched[t][i][p] # Null =>
                   \E h \in given \cup {NoHint} : patched[t][i][p][1] = KeyFor(p, h)

\* A view of another thread's that was cached first is all that can leak: every
\* other resource has its place until the device is destroyed, and then goes.
OnlyLosersLeak ==
    /\ phase # "gone" => \A r \in live \ lost : resources[r[1]] = r
    /\ phase = "gone" => live = lost
    /\ \A k \in Keys : resources[k] \in live \cup {Null, Uncached}
===============================================================================
