------------------------ MODULE NullDescriptorsProofs -------------------------
(***************************************************************************)
(* Proofs about NullDescriptors for any threads, layouts, bindings, hints  *)
(* and calls.                                                              *)
(*                                                                         *)
(* A thread patches a call element by element, and what an element is to   *)
(* get may change under it: another thread makes the view, or a pipeline   *)
(* leaves a hint. The invariant is about each thread alone (Working): what *)
(* it has not reached is as the application gave it, what it has passed is *)
(* patched, and between the two it holds views that fit the hint it goes   *)
(* by. Nothing that was given as a replacement, no refusal and no hint is  *)
(* ever taken back while the device is up, so another thread's step cannot *)
(* spoil what is patched (PatchedStays, Waits).                            *)
(*                                                                         *)
(* The layout whose hints a call goes by is chosen once, by its first      *)
(* element that needs one: a later element of another layout goes by that  *)
(* one's hints. Decided says so, and is the exception in what is proved of *)
(* hints. A replacement is leaked only by the thread that lost the race to *)
(* cache it, for what is cached once stays (Caches), and the handle of the *)
(* loser's view is one that did not exist (Making).                        *)
(***************************************************************************)
EXTENDS NullDescriptors, TLAPS

\* What replaces a null part, or may stand for it.
Replaces(p, v) ==
    \/ v \in live /\ v[1][1] = p
    \/ v = Null /\ \E k \in failed : k[1] = p

\* A replacement that goes by a hint of the layout's binding.
ByHint(l, b, p, v) ==
    v # Null => \E h \in Hints \cup {NoHint} :
                  /\ h = NoHint \/ <<l, b, h>> \in hinted
                  /\ v[1] = KeyFor(p, h)

\* An earlier element, of another layout, has decided.
Decided(c, i, l) ==
    /\ c.layout = NoLayout /\ ~c.template /\ l # NoLayout
    /\ \E j \in 1..(i - 1) : Needs(c.items[j]) /\ LayoutOf[c.items[j].set] = l

\* The steps inside one element.
Inside == {"imageView", "newImageView", "bufferView", "newBufferView", "patch"}

\* No thread is inside a call unless the device is up.
Phases ==
    /\ \A t \in Threads : call[t] = NoCall <=> at[t] = "idle"
    /\ phase # "up" => \A t \in Threads : call[t] = NoCall
    /\ phase = "new" => live = {} /\ lost = {}
    /\ phase = "gone" => live = lost
    /\ phase # "up" => \A k \in Keys : resources[k] = Uncached

\* The cache of replacements: what is in it exists, and only what lost a race
\* is not in it.
Caches ==
    /\ lost \subseteq live
    /\ \A k \in Keys :
         \/ resources[k] \in live \ lost /\ resources[k][1] = k
         \/ resources[k] = Null /\ k \in failed
         \/ resources[k] = Uncached
    /\ phase = "up" =>
         /\ \A r \in live : resources[r[1]] # Uncached
         /\ \A r \in live \ lost : resources[r[1]] = r
         /\ \A p \in Kinds : resources[DefaultKey(p)] # Uncached

\* A hint in the map was given.
Hinting ==
    \A l \in Layouts, b \in Bindings :
        hints[l][b] = NoHint \/ <<l, b, hints[l][b]>> \in hinted

\* The view a thread is about to cache does not exist yet.
Making ==
    \A t \in Threads : at[t] \in {"newImageView", "newBufferView"} =>
        <<Wanted(t), t>> \notin live

\* Where a thread is in its call.
Position(t) ==
    /\ index[t] \in 1..(Len(call[t].items) + 1)
    /\ at[t] \in Inside =>
         /\ index[t] <= Len(call[t].items) /\ Item(t).type # "vertex"
         /\ ~call[t].template => Needs(Item(t))
    /\ at[t] \in {"bufferView", "newBufferView"} => Item(t).type = "texel"

\* What it has not patched yet is as the application gave it.
Unpatched(t) ==
    /\ DOMAIN patched[t] = DOMAIN call[t].items
    /\ \A i \in DOMAIN call[t].items :
         LET item == call[t].items[i]
         IN  /\ DOMAIN patched[t][i] = Parts[item.type]
             /\ i >= index[t] => \A p \in Parts[item.type] :
                  patched[t][i][p] = IF p \in item.nulls THEN Null
                                     ELSE IF Copied(call[t], i) THEN App ELSE Garbage

\* The views it has found.
Finding(t) ==
    at[t] = "patch" => \A p \in Parts[Item(t).type] \cap DOMAIN NoneFound :
        /\ Replaces(p, found[t][p])
        /\ found[t][p] # Null => found[t][p][1] = KeyFor(p, hint[t])

\* The layout whose hints it uses.
Choosing(t) ==
    /\ at[t] = "write" =>
         \/ layoutHandle[t] = call[t].layout
         \/ Decided(call[t], index[t], layoutHandle[t])
    /\ at[t] \in Inside =>
         /\ \/ layoutHandle[t] = OwnLayout(call[t], Item(t))
            \/ Decided(call[t], index[t], layoutHandle[t])
         /\ hint[t] = NoHint \/ <<layoutHandle[t], Item(t).binding, hint[t]>> \in hinted

\* What it has patched.
Patched(t, i) ==
    LET item == call[t].items[i]
        own == OwnLayout(call[t], item)
    IN  /\ \A p \in Parts[item.type] :
             IF p \in item.nulls
             THEN \/ Replaces(p, patched[t][i][p])
                  \/ patched[t][i][p] = Null /\ item.seen = "other"
             ELSE patched[t][i][p] = App \/ ~Copied(call[t], i)
        /\ \/ \E l \in Layouts : l # own /\ Decided(call[t], i, l)
           \/ \A p \in item.nulls \cap DOMAIN NoneFound :
                ByHint(own, item.binding, p, patched[t][i][p])

\* All of a thread inside a call.
Working(t) ==
    /\ Position(t)
    /\ Unpatched(t)
    /\ Finding(t)
    /\ Choosing(t)
    /\ \A i \in DOMAIN call[t].items : i < index[t] => Patched(t, i)

\* The inductive invariant.
IndInv ==
    /\ TypeOK
    /\ Phases
    /\ Caches
    /\ Hinting
    /\ Making
    /\ \A t \in Threads : call[t] # NoCall => Working(t)

-------------------------------------------------------------------------------
(***************************************************************************)
(* Facts about the module's operators.                                     *)
(***************************************************************************)

\* What a key says of its resource.
LEMMA KeyFacts ==
  ASSUME NEW p \in Kinds, NEW h \in Hints \cup {NoHint}
  PROVE  /\ KeyFor(p, h) \in Keys /\ KeyFor(p, h)[1] = p
         /\ DefaultKey(p) \in Keys /\ DefaultKey(p)[1] = p
<1>1. /\ KeyFor(p, h) \in Keys /\ KeyFor(p, NoHint) \in Keys
  BY DEF Keys
<1>2. /\ KeyFor(p, h)[1] = p /\ KeyFor(p, NoHint)[1] = p
  BY DEF KeyFor, Kinds
<1>3. QED
  BY <1>1, <1>2 DEF DefaultKey

\* The parts of an element, by its type.
LEMMA PartsFacts ==
  /\ DOMAIN Parts = {"buffer", "sampler", "image", "combined", "texel", "vertex", "other"}
  /\ \A type \in DOMAIN Parts : Parts[type] \subseteq Kinds \cup {"raw"}
  /\ \A type \in DOMAIN Parts : "raw" \in Parts[type] => type = "other"
  /\ Parts["other"] = {"raw"} /\ Parts["vertex"] = {"buffer"}
  /\ Parts["sampler"] = {"sampler"} /\ Parts["texel"] = {"bufferView"}
  /\ \A type \in DOMAIN Parts : "bufferView" \in Parts[type] => type = "texel"
BY DEF Parts, Kinds

\* What a call is made of.
LEMMA CallFacts ==
  ASSUME TypeOK, NEW t \in Threads, call[t] # NoCall
  PROVE  /\ call[t] \in Calls[t] /\ call[t].layout \in Layouts \cup {NoLayout}
         /\ Len(call[t].items) \in Nat
         /\ DOMAIN call[t].items = 1..Len(call[t].items)
         /\ \A i \in DOMAIN call[t].items :
              LET item == call[t].items[i]
              IN  /\ item.type \in DOMAIN Parts /\ item.binding \in Bindings
                  /\ item.nulls \subseteq Parts[item.type] \ {"raw"}
                  /\ item.seen \in {"own", "null", "other"}
                  /\ LayoutOf[item.set] \in Layouts \cup {NoLayout}
<1>1. call[t] \in Calls[t]
  BY DEF TypeOK
<1>2. call[t].items \in Seq(Items) /\ call[t].layout \in Layouts \cup {NoLayout}
  BY <1>1, CallsAssumption
<1>3. \A item \in Items : /\ item.type \in DOMAIN Parts /\ item.binding \in Bindings
                          /\ item.nulls \subseteq Parts[item.type] \ {"raw"}
                          /\ item.set \in DOMAIN LayoutOf
                          /\ item.seen \in {"own", "null", "other"}
  BY DEF Items
<1>4. \A i \in DOMAIN call[t].items : call[t].items[i] \in Items
  BY <1>2
<1>5. /\ Len(call[t].items) \in Nat
      /\ DOMAIN call[t].items = 1..Len(call[t].items)
  BY <1>2
<1>6. QED
  BY <1>1, <1>2, <1>3, <1>4, <1>5, NamesAssumption

\* What has been decided stays so.
LEMMA DecidedLater ==
  ASSUME NEW c, NEW i \in Nat, NEW l, Decided(c, i, l)
  PROVE  Decided(c, i + 1, l)
BY DEF Decided

-------------------------------------------------------------------------------
(***************************************************************************)
(* What other threads do.                                                  *)
(***************************************************************************)

\* What is patched stays so.
LEMMA PatchedStays ==
  ASSUME NEW t \in Threads, NEW i \in DOMAIN call[t].items, Patched(t, i),
         call'[t] = call[t], patched'[t][i] = patched[t][i],
         live \subseteq live', failed \subseteq failed', hinted \subseteq hinted'
  PROVE  Patched(t, i)'
<1>1. \A p, v : Replaces(p, v) => Replaces(p, v)'
  BY DEF Replaces
<1>2. \A l, x, p, v : ByHint(l, x, p, v) => ByHint(l, x, p, v)'
  BY DEF ByHint
<1>3. QED
  BY <1>1, <1>2 DEF Patched

\* A thread that does nothing keeps what it has.
LEMMA Waits ==
  ASSUME NEW t \in Threads, Working(t),
         at'[t] = at[t], call'[t] = call[t], index'[t] = index[t],
         layoutHandle'[t] = layoutHandle[t], hint'[t] = hint[t],
         found'[t] = found[t], patched'[t] = patched[t],
         live \subseteq live', failed \subseteq failed', hinted \subseteq hinted'
  PROVE  Working(t)'
<1>1. \A p, v : Replaces(p, v) => Replaces(p, v)'
  BY DEF Replaces
<1>3. Item(t)' = Item(t)
  BY DEF Item
<1>4. Position(t)' /\ Unpatched(t)'
  BY <1>3 DEF Working, Position, Unpatched
<1>5. Finding(t)'
  BY <1>1, <1>3 DEF Working, Finding
<1>6. Choosing(t)'
  BY <1>3 DEF Working, Choosing
<1>7. ASSUME NEW i \in DOMAIN call[t].items, Patched(t, i)
      PROVE  Patched(t, i)'
  BY <1>7, PatchedStays
<1>8. QED
  BY <1>4, <1>5, <1>6, <1>7 DEF Working

-------------------------------------------------------------------------------
(***************************************************************************)
(* One lemma per action.                                                   *)
(***************************************************************************)

\* The first replacements; there is no call yet.
LEMMA CreateNullResourcesInd ==
  ASSUME NEW made \in Outcomes, NEW bare \in {{}, {"buffer"}}, IndInv,
         CreateNullResources(made, bare)
  PROVE  IndInv'
<1> USE DEF IndInv, CreateNullResources, deviceVars, hintVars, threadVars
<1>1. TypeOK'
  <2>1. made \subseteq Kinds
    BY DEF Outcomes, Kinds
  <2>2. \A p \in Kinds : DefaultKey(p) \in Keys
    BY KeyFacts
  <2>3. QED
    BY <2>1, <2>2 DEF TypeOK, Resources
<1>2. Phases'
  BY DEF TypeOK, Phases
<1>3. Caches'
  <2>1. \A p \in Kinds : DefaultKey(p) \in Keys /\ DefaultKey(p)[1] = p
    BY KeyFacts
  <2>2. made \subseteq Kinds /\ \A k \in Keys : k[1] \in Kinds
    BY KeyFacts DEF Outcomes, Kinds, Keys
  <2>3. \A k \in Keys : resources'[k] = IF k = DefaultKey(k[1])
                                       THEN IF k[1] \in made THEN <<k, NoThread>> ELSE Null
                                       ELSE Uncached
    BY DEF Phases
  <2>4. lost' = {} /\ live' = {<<DefaultKey(p), NoThread>> : p \in made}
    BY DEF Phases
  <2>5. /\ \A p \in Kinds \ made : DefaultKey(p) \in failed' /\ phase' = "up"
        /\ \A k \in Keys : <<k, NoThread>> # Uncached /\ Null # Uncached
    BY NoResourceAssumption, NamesAssumption DEF Resources
  <2>6. ASSUME NEW k \in Keys
        PROVE  \/ resources'[k] \in live' \ lost' /\ resources'[k][1] = k
               \/ resources'[k] = Null /\ k \in failed'
               \/ resources'[k] = Uncached
    BY <2>2, <2>3, <2>4, <2>5
  <2>7. ASSUME NEW x \in live'
        PROVE  resources'[x[1]] # Uncached /\ resources'[x[1]] = x
    <3>1. PICK p \in made : x = <<DefaultKey(p), NoThread>>
      BY <2>4
    <3>2. x[1] \in Keys /\ x[1] = DefaultKey(x[1][1]) /\ x[1][1] \in made
      BY <2>1, <2>2, <3>1
    <3>3. QED
      BY <2>3, <2>5, <3>1, <3>2
  <2>8. \A p \in Kinds : resources'[DefaultKey(p)] # Uncached
    BY <2>1, <2>3, <2>5
  <2>9. QED
    BY <2>4, <2>5, <2>6, <2>7, <2>8 DEF Caches
<1>4. Hinting'
  BY DEF Hinting
<1>5. Making'
  BY DEF TypeOK, Phases, Making
<1>6. ASSUME NEW u \in Threads
      PROVE  call'[u] = NoCall
  BY DEF Phases
<1>9. QED
  BY <1>1, <1>2, <1>3, <1>4, <1>5, <1>6

\* What is cached is destroyed; there is no call any more.
LEMMA DestroyNullResourcesInd ==
  ASSUME IndInv, DestroyNullResources
  PROVE  IndInv'
<1> USE DEF IndInv, DestroyNullResources, deviceVars, hintVars, threadVars
<1>1. TypeOK'
  BY DEF TypeOK
<1>2. Phases'
  <2>1. lost \subseteq live /\ \A k \in Keys : resources[k] \notin lost
    BY NoResourceAssumption DEF TypeOK, Caches
  <2>2. \A r \in live \ lost : r[1] \in Keys /\ resources[r[1]] = r
    BY DEF TypeOK, Resources, Caches
  <2>3. live' = lost
    BY <2>1, <2>2
  <2>4. \A k \in Keys : resources'[k] = Uncached
    OBVIOUS
  <2>5. QED
    BY <2>3, <2>4 DEF Phases
<1>3. Caches'
  BY NoResourceAssumption DEF TypeOK, Caches
<1>4. Hinting'
  BY DEF Hinting
<1>5. Making'
  BY DEF Making
<1>6. ASSUME NEW u \in Threads
      PROVE  call'[u] = NoCall
  BY DEF Phases
<1>9. QED
  BY <1>1, <1>2, <1>3, <1>4, <1>5, <1>6

\* One hint more.
LEMMA TrackBindingInd ==
  ASSUME NEW l \in Layouts, NEW b \in Bindings, NEW h \in Hints, <<l, b, h>> \in Pipelines,
          IndInv, TrackBinding(l, b, h)
  PROVE  IndInv'
<1> USE DEF IndInv, TrackBinding, deviceVars, hintVars, threadVars
<1>1. TypeOK'
  BY DEF TypeOK
<1>2. Phases'
  BY DEF TypeOK, Phases
<1>3. Caches'
  BY DEF Caches
<1>4. Hinting'
  BY DEF TypeOK, Hinting
<1>5. Making'
  BY DEF TypeOK, Making, Wanted
<1>6. ASSUME NEW u \in Threads, call'[u] # NoCall
      PROVE  Working(u)'
  BY <1>6, Waits DEF TypeOK
<1>9. QED
  BY <1>1, <1>2, <1>3, <1>4, <1>5, <1>6

\* All is as the application gave it.
LEMMA BeginInd ==
  ASSUME NEW t \in Threads, NEW c \in Calls[t], IndInv, Begin(t, c)
  PROVE  IndInv'
<1> USE DEF IndInv, Begin, Step, deviceVars, hintVars, threadVars
<1>1. TypeOK'
  <2>1. /\ c.layout \in Layouts \cup {NoLayout} /\ c # NoCall
    BY CallsAssumption
  <2>2. \A i \in DOMAIN patched'[t] : \A p \in DOMAIN patched'[t][i] :
          patched'[t][i][p] \in {App, Garbage, Null}
    BY DEF TypeOK, Raw
  <2>3. /\ DOMAIN patched' = Threads /\ DOMAIN call' = Threads
        /\ \A u \in Threads : u # t => patched'[u] = patched[u] /\ call'[u] = call[u]
        /\ call'[t] = c
    BY DEF TypeOK
  <2>4. \A u \in Threads : \A i \in DOMAIN patched'[u] : \A p \in DOMAIN patched'[u][i] :
          patched'[u][i][p] \in Resources \cup {App, Garbage, Null}
    <3> SUFFICES ASSUME NEW u \in Threads, NEW i \in DOMAIN patched'[u],
                        NEW p \in DOMAIN patched'[u][i]
                 PROVE  patched'[u][i][p] \in Resources \cup {App, Garbage, Null}
      OBVIOUS
    <3> HIDE DEF Begin
    <3>1. CASE u = t
      BY <2>2, <3>1
    <3>2. CASE u # t
      <4>1. patched'[u] = patched[u]
        BY <2>3, <3>2
      <4>2. QED
        BY <4>1 DEF TypeOK
    <3>3. QED
      BY <3>1, <3>2
  <2>5. \A u \in Threads : call'[u] \in Calls[u] \cup {NoCall}
    BY <2>3 DEF TypeOK
  <2>6. QED
    BY <2>1, <2>3, <2>4, <2>5 DEF TypeOK
<1>2. Phases'
  BY CallsAssumption DEF TypeOK, Phases
<1>3. Caches'
  BY DEF Caches
<1>4. Hinting'
  BY DEF Hinting
<1>5. Making'
  BY DEF TypeOK, Making, Wanted
<1>6. ASSUME NEW u \in Threads, u # t, call'[u] # NoCall
      PROVE  Working(u)'
  <2>1. /\ at'[u] = at[u] /\ call'[u] = call[u] /\ index'[u] = index[u]
        /\ layoutHandle'[u] = layoutHandle[u] /\ hint'[u] = hint[u]
        /\ found'[u] = found[u] /\ patched'[u] = patched[u]
    BY <1>6 DEF TypeOK
  <2>2. Working(u)
    BY <1>6, <2>1
  <2>3. live \subseteq live' /\ failed \subseteq failed' /\ hinted \subseteq hinted'
    OBVIOUS
  <2>4. QED
    BY <2>1, <2>2, <2>3, Waits
<1>7. ASSUME call'[t] # NoCall
      PROVE  Working(t)'
  <2>1. /\ call'[t] = c /\ index'[t] = 1 /\ at'[t] = "write" /\ layoutHandle'[t] = c.layout
        /\ patched'[t] = [i \in DOMAIN c.items |->
             IF Copied(c, i) THEN Raw(c.items[i]) ELSE [p \in {"raw"} |-> Garbage]]
        /\ TypeOK'
    BY <1>1 DEF TypeOK
  <2>2. /\ Len(c.items) \in Nat
        /\ DOMAIN c.items = 1..Len(c.items)
        /\ \A i \in DOMAIN c.items : /\ c.items[i].type \in DOMAIN Parts
                                     /\ c.items[i].nulls \subseteq Parts[c.items[i].type] \ {"raw"}
    <3>1. c.items \in Seq(Items)
      BY CallsAssumption
    <3>2. \A i \in DOMAIN c.items : c.items[i] \in Items
      BY <3>1
    <3>3. \A item \in Items : /\ item.type \in DOMAIN Parts
                              /\ item.nulls \subseteq Parts[item.type] \ {"raw"}
      BY DEF Items
    <3>4. QED
      BY <3>1, <3>2, <3>3
  <2>3. Position(t)'
    BY <2>1, <2>2 DEF Position, Inside
  <2>4. \A i \in DOMAIN c.items : ~Copied(c, i) =>
          c.items[i].type = "other" /\ c.items[i].nulls = {}
    BY <2>2, PartsFacts DEF Copied
  <2>5. Unpatched(t)'
    <3>1. ASSUME NEW i \in DOMAIN c.items
          PROVE  /\ DOMAIN patched'[t][i] = Parts[c.items[i].type]
                 /\ \A p \in Parts[c.items[i].type] :
                      patched'[t][i][p] = IF p \in c.items[i].nulls THEN Null
                                          ELSE IF Copied(c, i) THEN App ELSE Garbage
      <4>1. CASE Copied(c, i)
        <5>1. patched'[t][i] = Raw(c.items[i])
          BY <2>1, <4>1
        <5>2. QED
          BY <4>1, <5>1 DEF Raw
      <4>2. CASE ~Copied(c, i)
        <5>1. patched'[t][i] = [p \in {"raw"} |-> Garbage]
          BY <2>1, <4>2
        <5>2. QED
          <6>1. Parts[c.items[i].type] = {"raw"} /\ c.items[i].nulls = {}
            BY <2>4, <4>2, PartsFacts
          <6> HIDE DEF Begin
          <6>2. QED
            BY <4>2, <5>1, <6>1
      <4>3. QED
        BY <4>1, <4>2
    <3> HIDE DEF Begin
    <3>2. DOMAIN patched'[t] = DOMAIN c.items
      BY <2>1
    <3>3. QED
      BY <2>1, <3>1, <3>2 DEF Unpatched
  <2>6. Finding(t)' /\ Choosing(t)'
    BY <2>1 DEF Finding, Choosing, Inside
  <2>7. QED
    BY <2>1, <2>2, <2>3, <2>5, <2>6 DEF Working
<1>9. QED
  BY <1>1, <1>2, <1>3, <1>4, <1>5, <1>6, <1>7

\* The element needs nothing.
LEMMA SkipInd ==
  ASSUME NEW t \in Threads, IndInv, Skip(t)
  PROVE  IndInv'
<1> USE DEF IndInv, Skip, Step, deviceVars, hintVars, threadVars
<1>a. /\ call[t] \in Calls[t] /\ call[t] # NoCall /\ phase = "up" /\ Working(t)
  BY DEF Phases, TypeOK
<1>b. /\ Len(call[t].items) \in Nat
      /\ DOMAIN call[t].items = 1..Len(call[t].items)
      /\ call[t].layout \in Layouts \cup {NoLayout}
      /\ \A i \in DOMAIN call[t].items :
           LET item == call[t].items[i]
           IN  /\ item.type \in DOMAIN Parts /\ item.binding \in Bindings
               /\ item.nulls \subseteq Parts[item.type] \ {"raw"}
               /\ LayoutOf[item.set] \in Layouts \cup {NoLayout}
  BY <1>a, CallFacts
<1>1. TypeOK'
  BY DEF TypeOK
<1>2. Phases'
  BY DEF TypeOK, Phases
<1>3. Caches'
  BY DEF Caches
<1>4. Hinting'
  BY DEF Hinting
<1>5. Making'
  BY DEF TypeOK, Making, Wanted
<1>6. ASSUME NEW u \in Threads, u # t, call'[u] # NoCall
      PROVE  Working(u)'
  <2>1. /\ at'[u] = at[u] /\ call'[u] = call[u] /\ index'[u] = index[u]
        /\ layoutHandle'[u] = layoutHandle[u] /\ hint'[u] = hint[u]
        /\ found'[u] = found[u] /\ patched'[u] = patched[u]
    BY <1>6 DEF TypeOK
  <2>2. Working(u)
    BY <1>6, <2>1
  <2>3. live \subseteq live' /\ failed \subseteq failed' /\ hinted \subseteq hinted'
    OBVIOUS
  <2>4. QED
    BY <2>1, <2>2, <2>3, Waits
<1>7. ASSUME call'[t] # NoCall
      PROVE  Working(t)'
  <2>1. /\ call'[t] = call[t] /\ index'[t] = index[t] + 1 /\ at'[t] = at[t]
        /\ layoutHandle'[t] = layoutHandle[t] /\ patched' = patched /\ hint' = hint
        /\ at[t] = "write" /\ index[t] \in DOMAIN call[t].items
    BY <1>a, <1>b DEF TypeOK, Working, Position
  <2>2. Position(t)'
    BY <1>a, <1>b, <2>1 DEF Working, Position, Inside
  <2>3. Unpatched(t)'
    BY <1>a, <1>b, <2>1 DEF Working, Unpatched, Position
  <2>4. Finding(t)'
    BY <2>1 DEF Finding
  <2>5. Choosing(t)'
    BY <1>a, <1>b, <2>1 DEF Working, Position, Choosing, Decided, Inside
  <2>6. Item(t).nulls = {} \/ Item(t).seen = "other"
    <3>1. ~Needs(Item(t))
      BY <1>b, <2>1 DEF Skipped, Item
    <3>2. Item(t).seen \in {"own", "null", "other"}
      BY <1>a, <1>b, <2>1, CallFacts DEF Item
    <3>3. QED
      BY <3>1, <3>2 DEF Needs
  <2>7. Patched(t, index[t])
    <3>1. \A p \in Parts[Item(t).type] :
            IF p \in Item(t).nulls THEN patched[t][index[t]][p] = Null
            ELSE patched[t][index[t]][p] = App \/ ~Copied(call[t], index[t])
      BY <1>a, <1>b, <2>1 DEF Working, Unpatched, Item
    <3>2. \A p \in Item(t).nulls : patched[t][index[t]][p] = Null
      BY <1>b, <2>1, <3>1 DEF Item
    <3>3. QED
      BY <2>6, <3>1, <3>2 DEF Patched, ByHint, Item
  <2>8. \A i \in DOMAIN call[t].items : i < index[t] + 1 => Patched(t, i)'
    BY <1>a, <1>b, <2>1, <2>7, PatchedStays DEF Working, Position
  <2>9. QED
    BY <2>1, <2>2, <2>3, <2>4, <2>5, <2>8 DEF Working
<1>9. QED
  BY <1>1, <1>2, <1>3, <1>4, <1>5, <1>6, <1>7

\* The element gets the layout whose hints it goes by.
LEMMA FixInd ==
  ASSUME NEW t \in Threads, IndInv, Fix(t)
  PROVE  IndInv'
<1> USE DEF IndInv, Fix, deviceVars, hintVars, threadVars
<1>a. /\ call[t] \in Calls[t] /\ call[t] # NoCall /\ phase = "up" /\ Working(t)
  BY DEF Phases, TypeOK
<1>b. /\ Len(call[t].items) \in Nat
      /\ DOMAIN call[t].items = 1..Len(call[t].items)
      /\ call[t].layout \in Layouts \cup {NoLayout}
      /\ \A i \in DOMAIN call[t].items :
           LET item == call[t].items[i]
           IN  /\ item.type \in DOMAIN Parts /\ item.binding \in Bindings
               /\ item.nulls \subseteq Parts[item.type] \ {"raw"}
               /\ LayoutOf[item.set] \in Layouts \cup {NoLayout}
  BY <1>a, CallFacts
<1>1. TypeOK'
  <2>1. Item(t).binding \in Bindings /\ LayoutFor(t) \in Layouts \cup {NoLayout}
    BY <1>a, <1>b DEF Working, Position, Item, LayoutFor, TypeOK
  <2>2. HintAt(LayoutFor(t), Item(t).binding) \in Hints \cup {NoHint}
    BY <2>1 DEF HintAt, TypeOK
  <2>3. QED
    BY <2>1, <2>2 DEF TypeOK
<1>2. Phases'
  BY DEF TypeOK, Phases
<1>3. Caches'
  BY DEF Caches
<1>4. Hinting'
  BY DEF Hinting
<1>5. Making'
  BY DEF TypeOK, Making, Wanted
<1>6. ASSUME NEW u \in Threads, u # t, call'[u] # NoCall
      PROVE  Working(u)'
  <2>1. /\ at'[u] = at[u] /\ call'[u] = call[u] /\ index'[u] = index[u]
        /\ layoutHandle'[u] = layoutHandle[u] /\ hint'[u] = hint[u]
        /\ found'[u] = found[u] /\ patched'[u] = patched[u]
    BY <1>6 DEF TypeOK
  <2>2. Working(u)
    BY <1>6, <2>1
  <2>3. live \subseteq live' /\ failed \subseteq failed' /\ hinted \subseteq hinted'
    OBVIOUS
  <2>4. QED
    BY <2>1, <2>2, <2>3, Waits
<1>7. ASSUME call'[t] # NoCall
      PROVE  Working(t)'
  <2>1. /\ call'[t] = call[t] /\ index'[t] = index[t] /\ patched' = patched
        /\ index[t] \in DOMAIN call[t].items /\ Item(t)' = Item(t)
        /\ Item(t) = call[t].items[index[t]]
        /\ at'[t] \in {"patch", "imageView"}
        /\ at'[t] = "patch" => Item(t).type = "sampler"
        /\ layoutHandle'[t] = LayoutFor(t)
        /\ hint'[t] = HintAt(LayoutFor(t), Item(t).binding)
    BY <1>a, <1>b DEF TypeOK, Working, Position, Item
  <2>2. Position(t)'
    BY <1>a, <1>b, <2>1 DEF Working, Position, Inside, Skipped
  <2>3. Unpatched(t)'
    BY <1>a, <2>1 DEF Working, Unpatched
  <2>4. Finding(t)'
    BY <2>1, PartsFacts DEF Finding, NoneFound
  <2>5. Choosing(t)'
    <3>1. \/ LayoutFor(t) = OwnLayout(call[t], Item(t))
          \/ Decided(call[t], index[t], LayoutFor(t))
      BY <1>a, <2>1 DEF Working, Choosing, LayoutFor, OwnLayout, Decided
    <3>2. LayoutFor(t) \in Layouts \cup {NoLayout} /\ Item(t).binding \in Bindings
      BY <1>b, <2>1 DEF LayoutFor, TypeOK
    <3>3. \/ HintAt(LayoutFor(t), Item(t).binding) = NoHint
          \/ <<LayoutFor(t), Item(t).binding, HintAt(LayoutFor(t), Item(t).binding)>> \in hinted
      BY <3>2 DEF Hinting, HintAt
    <3>4. QED
      BY <2>1, <3>1, <3>3 DEF Choosing
  <2>8. \A i \in DOMAIN call[t].items : i < index[t] => Patched(t, i)'
    BY <1>a, <2>1, PatchedStays DEF Working
  <2>9. QED
    BY <2>1, <2>2, <2>3, <2>4, <2>5, <2>8 DEF Working
<1>9. QED
  BY <1>1, <1>2, <1>3, <1>4, <1>5, <1>6, <1>7

\* A cached view fits the hint.
LEMMA FindViewInd ==
  ASSUME NEW t \in Threads, IndInv, FindView(t)
  PROVE  IndInv'
<1> USE DEF IndInv, FindView, deviceVars, hintVars, threadVars
<1>a. /\ call[t] \in Calls[t] /\ call[t] # NoCall /\ phase = "up" /\ Working(t)
  BY DEF Phases, TypeOK
<1>b. /\ Len(call[t].items) \in Nat
      /\ DOMAIN call[t].items = 1..Len(call[t].items)
      /\ call[t].layout \in Layouts \cup {NoLayout}
      /\ \A i \in DOMAIN call[t].items :
           LET item == call[t].items[i]
           IN  /\ item.type \in DOMAIN Parts /\ item.binding \in Bindings
               /\ item.nulls \subseteq Parts[item.type] \ {"raw"}
               /\ LayoutOf[item.set] \in Layouts \cup {NoLayout}
  BY <1>a, CallFacts
<1>c. /\ hint[t] \in Hints \cup {NoHint}
      /\ Wanted(t) \in Keys
      /\ at[t] \in {"imageView", "newImageView"} =>
           Wanted(t) = KeyFor("imageView", hint[t]) /\ Wanted(t)[1] = "imageView"
      /\ at[t] \in {"bufferView", "newBufferView"} =>
           Wanted(t) = KeyFor("bufferView", hint[t]) /\ Wanted(t)[1] = "bufferView"
      /\ Wanted(t)[1] \in {"imageView", "bufferView"}
  BY KeyFacts DEF Wanted, TypeOK, Kinds
<1>d. /\ at' = [at EXCEPT ![t] = IF Wanted(t)[1] = "imageView" /\ Item(t).type = "texel"
                               THEN "bufferView" ELSE "patch"]
      /\ at'[t] = IF Wanted(t)[1] = "imageView" /\ Item(t).type = "texel" THEN "bufferView" ELSE "patch"
      /\ found' = [found EXCEPT ![t][Wanted(t)[1]] = resources[Wanted(t)]]
      /\ found'[t][Wanted(t)[1]] = resources[Wanted(t)]
      /\ at[t] \in {"imageView", "bufferView"}
  BY <1>c DEF Take, TypeOK, NoneFound
<1>e. \/ /\ resources[Wanted(t)] \in live /\ resources[Wanted(t)] \in Resources
         /\ resources[Wanted(t)][1] = Wanted(t)
      \/ resources[Wanted(t)] = Null /\ Wanted(t) \in failed
  BY <1>c DEF Caches, TypeOK
<1>1. TypeOK'
  BY <1>c, <1>d, <1>e DEF TypeOK
<1>2. Phases'
  BY <1>a, <1>d DEF TypeOK, Phases
<1>3. Caches'
  BY DEF Caches
<1>4. Hinting'
  BY DEF Hinting
<1>5. Making'
  BY <1>d DEF TypeOK, Making, Wanted
<1>6. ASSUME NEW u \in Threads, u # t, call'[u] # NoCall
      PROVE  Working(u)'
  <2>1. /\ at'[u] = at[u] /\ call'[u] = call[u] /\ index'[u] = index[u]
        /\ layoutHandle'[u] = layoutHandle[u] /\ hint'[u] = hint[u]
        /\ found'[u] = found[u] /\ patched'[u] = patched[u]
    BY <1>6, <1>d DEF TypeOK
  <2>2. Working(u)
    BY <1>6, <2>1
  <2>3. live \subseteq live' /\ failed \subseteq failed' /\ hinted \subseteq hinted'
    OBVIOUS
  <2>4. QED
    BY <2>1, <2>2, <2>3, Waits
<1>7. ASSUME call'[t] # NoCall
      PROVE  Working(t)'
  <2>1. /\ call'[t] = call[t] /\ index'[t] = index[t]
        /\ layoutHandle'[t] = layoutHandle[t] /\ patched' = patched /\ hint'[t] = hint[t]
        /\ index[t] \in DOMAIN call[t].items /\ Item(t)' = Item(t) /\ at[t] \in Inside
        /\ Item(t) = call[t].items[index[t]]
    BY <1>a, <1>b DEF TypeOK, Working, Position, Inside, Item
  <2>2. Position(t)'
    BY <1>a, <1>b, <2>1, <1>d DEF Working, Position, Inside
  <2>3. Unpatched(t)'
    BY <1>a, <2>1 DEF Working, Unpatched
  <2>4. Finding(t)'
    <3> SUFFICES ASSUME at'[t] = "patch", NEW p \in Parts[Item(t).type] \cap DOMAIN NoneFound
                 PROVE  /\ Replaces(p, found[t][p])'
                        /\ found'[t][p] # Null => found'[t][p][1] = KeyFor(p, hint[t])
      BY <2>1 DEF Finding
    <3>1. p = Wanted(t)[1]
      BY <1>a, <1>b, <1>c, <1>d, <2>1, PartsFacts
         DEF NoneFound, Working, Position
    <3>2. found'[t][p] = resources[Wanted(t)]
      BY <1>d, <3>1
    <3>3. Wanted(t) = KeyFor(p, hint[t]) /\ Wanted(t)[1] = p
      BY <1>c, <1>d, <3>1
    <3>4. QED
      BY <1>e, <3>2, <3>3 DEF Replaces
  <2>5. Choosing(t)'
    BY <1>a, <1>d, <2>1 DEF Working, Choosing, Inside
  <2>8. \A i \in DOMAIN call[t].items : i < index[t] => Patched(t, i)'
    BY <1>a, <2>1, PatchedStays DEF Working
  <2>9. QED
    BY <2>1, <2>2, <2>3, <2>4, <2>5, <2>8 DEF Working
<1>9. QED
  BY <1>1, <1>2, <1>3, <1>4, <1>5, <1>6, <1>7

\* A view that is not cached is about to be made.
LEMMA MissViewInd ==
  ASSUME NEW t \in Threads, IndInv, MissView(t)
  PROVE  IndInv'
<1> USE DEF IndInv, MissView, Step, deviceVars, hintVars, threadVars
<1>a. /\ call[t] \in Calls[t] /\ call[t] # NoCall /\ phase = "up" /\ Working(t)
  BY DEF Phases, TypeOK
<1>b. /\ Len(call[t].items) \in Nat
      /\ DOMAIN call[t].items = 1..Len(call[t].items)
      /\ call[t].layout \in Layouts \cup {NoLayout}
      /\ \A i \in DOMAIN call[t].items :
           LET item == call[t].items[i]
           IN  /\ item.type \in DOMAIN Parts /\ item.binding \in Bindings
               /\ item.nulls \subseteq Parts[item.type] \ {"raw"}
               /\ LayoutOf[item.set] \in Layouts \cup {NoLayout}
  BY <1>a, CallFacts
<1>1. TypeOK'
  BY DEF TypeOK
<1>2. Phases'
  BY DEF TypeOK, Phases
<1>3. Caches'
  BY DEF Caches
<1>4. Hinting'
  BY DEF Hinting
<1>5. Making'
  <2>1. \A u \in Threads : Wanted(u)' = Wanted(u)
    BY DEF TypeOK, Wanted
  <2>2. <<Wanted(t), t>> \notin live
    BY <1>a DEF Caches
  <2>3. QED
    BY <2>1, <2>2 DEF TypeOK, Making
<1>6. ASSUME NEW u \in Threads, u # t, call'[u] # NoCall
      PROVE  Working(u)'
  <2>1. /\ at'[u] = at[u] /\ call'[u] = call[u] /\ index'[u] = index[u]
        /\ layoutHandle'[u] = layoutHandle[u] /\ hint'[u] = hint[u]
        /\ found'[u] = found[u] /\ patched'[u] = patched[u]
    BY <1>6 DEF TypeOK
  <2>2. Working(u)
    BY <1>6, <2>1
  <2>3. live \subseteq live' /\ failed \subseteq failed' /\ hinted \subseteq hinted'
    OBVIOUS
  <2>4. QED
    BY <2>1, <2>2, <2>3, Waits
<1>7. ASSUME call'[t] # NoCall
      PROVE  Working(t)'
  <2>1. /\ call'[t] = call[t] /\ index'[t] = index[t]
        /\ layoutHandle'[t] = layoutHandle[t] /\ patched' = patched /\ hint'[t] = hint[t]
        /\ index[t] \in DOMAIN call[t].items /\ Item(t)' = Item(t) /\ at[t] \in Inside
    BY <1>a, <1>b DEF TypeOK, Working, Position, Inside, Item
  <2>2. Position(t)'
    BY <1>a, <1>b, <2>1 DEF Working, Position, Inside, TypeOK
  <2>3. Unpatched(t)'
    BY <1>a, <2>1 DEF Working, Unpatched
  <2>4. Finding(t)'
    BY <2>1 DEF Finding, TypeOK
  <2>5. Choosing(t)'
    BY <1>a, <2>1 DEF Working, Choosing, Inside, TypeOK
  <2>8. \A i \in DOMAIN call[t].items : i < index[t] => Patched(t, i)'
    BY <1>a, <2>1, PatchedStays DEF Working
  <2>9. QED
    BY <2>1, <2>2, <2>3, <2>4, <2>5, <2>8 DEF Working
<1>9. QED
  BY <1>1, <1>2, <1>3, <1>4, <1>5, <1>6, <1>7

\* The view goes into the cache, or is lost to the one that is there.
LEMMA EmplaceViewInd ==
  ASSUME NEW t \in Threads, IndInv, EmplaceView(t)
  PROVE  IndInv'
<1> USE DEF IndInv, EmplaceView, deviceVars, hintVars, threadVars
<1>a. /\ call[t] \in Calls[t] /\ call[t] # NoCall /\ phase = "up" /\ Working(t)
  BY DEF Phases, TypeOK
<1>b. /\ Len(call[t].items) \in Nat
      /\ DOMAIN call[t].items = 1..Len(call[t].items)
      /\ call[t].layout \in Layouts \cup {NoLayout}
      /\ \A i \in DOMAIN call[t].items :
           LET item == call[t].items[i]
           IN  /\ item.type \in DOMAIN Parts /\ item.binding \in Bindings
               /\ item.nulls \subseteq Parts[item.type] \ {"raw"}
               /\ LayoutOf[item.set] \in Layouts \cup {NoLayout}
  BY <1>a, CallFacts
<1>c. /\ hint[t] \in Hints \cup {NoHint}
      /\ Wanted(t) \in Keys
      /\ at[t] \in {"imageView", "newImageView"} =>
           Wanted(t) = KeyFor("imageView", hint[t]) /\ Wanted(t)[1] = "imageView"
      /\ at[t] \in {"bufferView", "newBufferView"} =>
           Wanted(t) = KeyFor("bufferView", hint[t]) /\ Wanted(t)[1] = "bufferView"
      /\ Wanted(t)[1] \in {"imageView", "bufferView"}
  BY KeyFacts DEF Wanted, TypeOK, Kinds
<1>0. PICK r \in {<<Wanted(t), t>>, Null} :
        /\ Take(t, r) /\ CacheView(Wanted(t), r)
        /\ r # Null => live' = live \cup {r} /\ failed' = failed
        /\ r = Null => live' = live /\ failed' = failed \cup {Wanted(t)}
  BY <1>c, NoResourceAssumption DEF Resources
<1>d. /\ at' = [at EXCEPT ![t] = IF Wanted(t)[1] = "imageView" /\ Item(t).type = "texel"
                               THEN "bufferView" ELSE "patch"]
      /\ at'[t] = IF Wanted(t)[1] = "imageView" /\ Item(t).type = "texel" THEN "bufferView" ELSE "patch"
      /\ found' = [found EXCEPT ![t][Wanted(t)[1]] = r]
      /\ found'[t][Wanted(t)[1]] = r
      /\ at[t] \in {"newImageView", "newBufferView"}
  BY <1>0, <1>c DEF Take, TypeOK, NoneFound
<1>e. /\ \/ r \in Resources /\ r = <<Wanted(t), t>> /\ live' = live \cup {r} /\ failed' = failed
         \/ r = Null /\ live' = live /\ failed' = failed \cup {Wanted(t)}
      /\ IF resources[Wanted(t)] = Uncached
         THEN resources' = [resources EXCEPT ![Wanted(t)] = r] /\ lost' = lost
         ELSE resources' = resources /\ lost' = lost \cup ({r} \ {Null})
      /\ live \subseteq live' /\ failed \subseteq failed'
  BY <1>0, <1>c, NoResourceAssumption DEF Resources, CacheView
<1> HIDE DEF EmplaceView
<1>f. UNCHANGED <<call, index, layoutHandle, hint, patched, phase, hints, hinted>>
  BY DEF EmplaceView
<1>1. TypeOK'
  BY <1>c, <1>d, <1>e, <1>f DEF TypeOK
<1>2. Phases'
  BY <1>a, <1>d, <1>f DEF TypeOK, Phases
<1>3. Caches'
  <2>1. <<Wanted(t), t>> \notin live /\ <<Wanted(t), t>>[1] = Wanted(t)
    BY <1>d DEF Making
  <2>2. \A k \in Keys : resources'[k] = resources[k] \/ (k = Wanted(t) /\ resources[k] = Uncached)
    BY <1>c, <1>e DEF TypeOK
  <2>3. resources \in [Keys -> Resources \cup {Null, Uncached}] /\ phase' = phase
    BY <1>f DEF TypeOK
  <2>t. live \subseteq Resources
    BY DEF TypeOK
  <2>0. Caches /\ phase = "up"
    BY <1>a
  <2> HIDE DEF IndInv
  <2>a. lost \subseteq live
    BY <2>0 DEF Caches
  <2>b. \A x \in live : resources[x[1]] # Uncached
    BY <2>0 DEF Caches
  <2>c. \A x \in live \ lost : resources[x[1]] = x
    BY <2>0 DEF Caches
  <2>d. \A p \in Kinds : resources[DefaultKey(p)] # Uncached
    BY <2>0 DEF Caches
  <2>e. \A k \in Keys : \/ resources[k] \in live \ lost /\ resources[k][1] = k
                        \/ resources[k] = Null /\ k \in failed
                        \/ resources[k] = Uncached
    BY <2>0 DEF Caches
  <2>5. r # Null => r \notin live /\ r[1] = Wanted(t)
    BY <1>e, <2>1
  <2>6. /\ r # Uncached
        /\ \A k \in Keys : resources[k] # Uncached => resources'[k] = resources[k]
        /\ \A k \in Keys : resources[k] = Uncached /\ resources'[k] # Uncached =>
                             k = Wanted(t) /\ resources'[k] = r
        /\ resources'[Wanted(t)] # Uncached
        /\ resources[Wanted(t)] = Uncached => resources'[Wanted(t)] = r /\ lost' = lost
        /\ resources[Wanted(t)] # Uncached => lost' = lost \cup ({r} \ {Null})
    BY <1>c, <1>e, <2>3, NoResourceAssumption, NamesAssumption
  <2>7. /\ live' \subseteq live \cup {r} /\ live \subseteq live' /\ failed \subseteq failed'
        /\ Null \notin live'
        /\ r # Null => r \in live'
        /\ r = Null => Wanted(t) \in failed'
    BY <1>e, <2>t, NoResourceAssumption
  <2>8. lost' \subseteq live'
    BY <2>a, <2>b, <2>c, <2>d, <2>e, <2>6, <2>7
  <2>9. \A x \in live \cup live' : x[1] \in Keys
    BY <1>c, <2>5, <2>7, <2>t DEF Resources
  <2>10. ASSUME NEW k \in Keys
         PROVE  \/ resources'[k] \in live' \ lost' /\ resources'[k][1] = k
                \/ resources'[k] = Null /\ k \in failed'
                \/ resources'[k] = Uncached
    <3>1. CASE resources[k] = Uncached
      BY <2>a, <2>b, <2>c, <2>d, <2>e, <2>5, <2>6, <2>7, <3>1
    <3>2. CASE resources[k] # Uncached
      <4>1. lost' \subseteq lost \cup ({r} \ {Null})
        BY <2>6
      <4>2. QED
        BY <2>a, <2>b, <2>c, <2>d, <2>e, <2>5, <2>6, <2>7, <3>2, <4>1
    <3>3. QED
      BY <3>1, <3>2
  <2>11. \A x \in live' : resources'[x[1]] # Uncached
    BY <2>a, <2>b, <2>c, <2>d, <2>e, <2>5, <2>6, <2>7, <2>9
  <2>12. \A x \in live' \ lost' : resources'[x[1]] = x
    BY <2>a, <2>b, <2>c, <2>d, <2>e, <2>5, <2>6, <2>7, <2>9
  <2>13. \A p \in Kinds : resources'[DefaultKey(p)] # Uncached
    BY <2>a, <2>b, <2>c, <2>d, <2>e, <2>6, KeyFacts
  <2>14. QED
    BY <2>8, <2>10, <2>11, <2>12, <2>13 DEF Caches
<1>4. Hinting'
  BY <1>f DEF Hinting
<1>5. Making'
  <2>1. \A u \in Threads : u # t => Wanted(u)' = Wanted(u) /\ at'[u] = at[u]
    BY <1>d, <1>f DEF TypeOK, Wanted
  <2>2. at'[t] \notin {"newImageView", "newBufferView"}
    BY <1>d
  <2>3. QED
    BY <1>e, <2>1, <2>2 DEF Making
<1>6. ASSUME NEW u \in Threads, u # t, call'[u] # NoCall
      PROVE  Working(u)'
  <2>1. /\ at'[u] = at[u] /\ call'[u] = call[u] /\ index'[u] = index[u]
        /\ layoutHandle'[u] = layoutHandle[u] /\ hint'[u] = hint[u]
        /\ found'[u] = found[u] /\ patched'[u] = patched[u]
    BY <1>6, <1>d, <1>f DEF TypeOK
  <2>2. Working(u)
    BY <1>6, <2>1
  <2>3. live \subseteq live' /\ failed \subseteq failed' /\ hinted \subseteq hinted'
    BY <1>e, <1>f
  <2>4. QED
    BY <2>1, <2>2, <2>3, Waits
<1>7. ASSUME call'[t] # NoCall
      PROVE  Working(t)'
  <2>1. /\ call'[t] = call[t] /\ index'[t] = index[t]
        /\ layoutHandle'[t] = layoutHandle[t] /\ patched' = patched /\ hint'[t] = hint[t]
        /\ index[t] \in DOMAIN call[t].items /\ Item(t)' = Item(t) /\ at[t] \in Inside
        /\ Item(t) = call[t].items[index[t]]
    BY <1>a, <1>b, <1>d, <1>f DEF TypeOK, Working, Position, Inside, Item
  <2>2. Position(t)'
    BY <1>a, <1>b, <2>1, <1>d DEF Working, Position, Inside
  <2>3. Unpatched(t)'
    BY <1>a, <2>1 DEF Working, Unpatched
  <2>4. Finding(t)'
    <3> SUFFICES ASSUME at'[t] = "patch", NEW p \in Parts[Item(t).type] \cap DOMAIN NoneFound
                 PROVE  /\ Replaces(p, found[t][p])'
                        /\ found'[t][p] # Null => found'[t][p][1] = KeyFor(p, hint[t])
      BY <2>1 DEF Finding
    <3>1. p = Wanted(t)[1]
      BY <1>a, <1>b, <1>c, <1>d, <2>1, PartsFacts
         DEF NoneFound, Working, Position
    <3>2. found'[t][p] = r
      BY <1>d, <3>1
    <3>3. Wanted(t) = KeyFor(p, hint[t]) /\ Wanted(t)[1] = p
      BY <1>c, <1>d, <3>1
    <3>4. QED
      BY <1>e, <3>2, <3>3 DEF Replaces
  <2>5. Choosing(t)'
    BY <1>a, <1>d, <1>f, <2>1 DEF Working, Choosing, Inside
  <2>8. \A i \in DOMAIN call[t].items : i < index[t] => Patched(t, i)'
    BY <1>a, <2>1, <1>e, <1>f, PatchedStays DEF Working
  <2>9. QED
    BY <2>1, <2>2, <2>3, <2>4, <2>5, <2>8 DEF Working
<1>9. QED
  BY <1>1, <1>2, <1>3, <1>4, <1>5, <1>6, <1>7

\* The element has what was found.
LEMMA PatchInd ==
  ASSUME NEW t \in Threads, IndInv, Patch(t)
  PROVE  IndInv'
<1> USE DEF IndInv, Patch, Step, deviceVars, hintVars, threadVars
<1>a. /\ call[t] \in Calls[t] /\ call[t] # NoCall /\ phase = "up" /\ Working(t)
  BY DEF Phases, TypeOK
<1>b. /\ Len(call[t].items) \in Nat
      /\ DOMAIN call[t].items = 1..Len(call[t].items)
      /\ call[t].layout \in Layouts \cup {NoLayout}
      /\ \A i \in DOMAIN call[t].items :
           LET item == call[t].items[i]
           IN  /\ item.type \in DOMAIN Parts /\ item.binding \in Bindings
               /\ item.nulls \subseteq Parts[item.type] \ {"raw"}
               /\ LayoutOf[item.set] \in Layouts \cup {NoLayout}
  BY <1>a, CallFacts
<1>c. \A p \in {"buffer", "sampler"} :
        Replaces(p, resources[DefaultKey(p)]) /\ resources[DefaultKey(p)] \in Resources \cup {Null}
  BY <1>a, KeyFacts DEF Caches, Replaces, TypeOK, Kinds
<1>0. PICK i0 \in DOMAIN call[t].items : i0 = index[t]
  BY <1>a, <1>b DEF Working, Position, Item, Inside
<1>d. /\ i0 \in DOMAIN call[t].items /\ DOMAIN patched[t] = DOMAIN call[t].items
      /\ Item(t) = call[t].items[i0] /\ DOMAIN patched[t][i0] = Parts[Item(t).type]
      /\ \A p \in Parts[Item(t).type] :
           patched[t][i0][p] = IF p \in Item(t).nulls THEN Null
                               ELSE IF Copied(call[t], i0) THEN App ELSE Garbage
  BY <1>0, <1>a, <1>b DEF Working, Position, Unpatched, Item, Inside
<1>e. /\ DOMAIN patched' = Threads
      /\ \A u \in Threads : u # t => patched'[u] = patched[u]
      /\ DOMAIN patched'[t] = DOMAIN patched[t]
      /\ \A i \in DOMAIN patched[t] : i # i0 => patched'[t][i] = patched[t][i]
      /\ DOMAIN patched'[t][i0] = DOMAIN patched[t][i0]
      /\ \A p \in DOMAIN patched[t][i0] :
           patched'[t][i0][p] = IF patched[t][i0][p] # Null THEN patched[t][i0][p]
                                ELSE IF p \in DOMAIN NoneFound THEN found[t][p]
                                ELSE resources[DefaultKey(p)]
  BY <1>0, <1>d DEF TypeOK
<1>1. TypeOK'
  <2>1. ASSUME NEW i \in DOMAIN patched'[t], NEW p \in DOMAIN patched'[t][i]
        PROVE  patched'[t][i][p] \in Resources \cup {App, Garbage, Null}
    <3> HIDE DEF Patch, BindVertexBuffer
    <3>1. CASE i # i0
      <4>1. patched'[t][i] = patched[t][i] /\ i \in DOMAIN patched[t]
        BY <1>e, <3>1
      <4>2. QED
        BY <4>1 DEF TypeOK
    <3>2. CASE i = i0
      <4>1. p \in Parts[Item(t).type] /\ p \in Kinds \cup {"raw"}
        BY <1>b, <1>d, <1>e, <3>2, PartsFacts
      <4>2. CASE patched[t][i0][p] # Null
        BY <1>d, <1>e, <3>2, <4>1, <4>2
      <4>3. CASE patched[t][i0][p] = Null
        <5>1. p \in Kinds
          BY <1>b, <1>d, <4>1, <4>3, NamesAssumption
        <5>2. CASE p \in DOMAIN NoneFound
          <6>1. found[t][p] \in Resources \cup {Null}
            BY <5>2 DEF TypeOK
          <6>2. QED
            BY <1>d, <1>e, <3>2, <4>1, <4>3, <5>2, <6>1
        <5>3. CASE p \notin DOMAIN NoneFound
          <6>1. p \in {"buffer", "sampler"}
            BY <5>1, <5>3 DEF Kinds, NoneFound
          <6>2. QED
            BY <1>c, <1>d, <1>e, <3>2, <4>1, <4>3, <5>3, <6>1
        <5>4. QED
          BY <5>2, <5>3
      <4>4. QED
        BY <4>2, <4>3
    <3>3. QED
      BY <3>1, <3>2
  <2>2. ASSUME NEW u \in Threads, u # t, NEW i \in DOMAIN patched'[u],
               NEW p \in DOMAIN patched'[u][i]
        PROVE  patched'[u][i][p] \in Resources \cup {App, Garbage, Null}
    <3>1. patched'[u] = patched[u]
      BY <1>e, <2>2
    <3> HIDE DEF Patch, BindVertexBuffer
    <3>2. QED
      BY <2>2, <3>1 DEF TypeOK
  <2>3. /\ index' \in [Threads -> Nat]
        /\ found' \in [Threads -> [DOMAIN NoneFound -> Resources \cup {Null}]]
        /\ hint' \in [Threads -> Hints \cup {NoHint}]
    BY DEF TypeOK, NoneFound
  <2>4. /\ at' \in [Threads -> {"idle", "write", "imageView", "newImageView", "bufferView",
                              "newBufferView", "patch"}]
        /\ UNCHANGED <<call, layoutHandle, deviceVars, hintVars>>
    BY DEF TypeOK
  <2>5. TypeOK
    OBVIOUS
  <2> HIDE DEF IndInv, Patch, BindVertexBuffer
  <2>6. QED
    BY <1>e, <2>1, <2>2, <2>3, <2>4, <2>5 DEF TypeOK
<1>2. Phases'
  BY DEF TypeOK, Phases
<1>3. Caches'
  BY DEF Caches
<1>4. Hinting'
  BY DEF Hinting
<1>5. Making'
  BY DEF TypeOK, Making, Wanted
<1>6. ASSUME NEW u \in Threads, u # t, call'[u] # NoCall
      PROVE  Working(u)'
  <2>1. /\ at'[u] = at[u] /\ call'[u] = call[u] /\ index'[u] = index[u]
        /\ layoutHandle'[u] = layoutHandle[u] /\ hint'[u] = hint[u]
        /\ found'[u] = found[u] /\ patched'[u] = patched[u]
    BY <1>6, <1>e DEF TypeOK
  <2>2. Working(u)
    BY <1>6, <2>1
  <2>3. live \subseteq live' /\ failed \subseteq failed' /\ hinted \subseteq hinted'
    OBVIOUS
  <2>4. QED
    BY <2>1, <2>2, <2>3, Waits
<1>7. ASSUME call'[t] # NoCall
      PROVE  Working(t)'
  <2>1. /\ call'[t] = call[t] /\ index'[t] = index[t] + 1 /\ at'[t] = "write"
        /\ layoutHandle'[t] = layoutHandle[t] /\ at[t] = "patch"
    BY <1>a, <1>b DEF TypeOK, Working, Position
  <2>a. /\ DOMAIN patched'[t] = DOMAIN patched[t]
        /\ \A i \in DOMAIN patched[t] : i # i0 => patched'[t][i] = patched[t][i]
        /\ DOMAIN patched'[t][i0] = Parts[Item(t).type]
    BY <1>d, <1>e
  <2>2. Position(t)'
    BY <1>a, <1>b, <2>1 DEF Working, Position, Inside
  <2>3. Unpatched(t)'
    BY <1>a, <1>b, <2>1, <2>a DEF Working, Unpatched, Position
  <2>4. Finding(t)'
    BY <2>1 DEF Finding
  <2>5. Choosing(t)'
    <3>1. \/ layoutHandle[t] = OwnLayout(call[t], Item(t))
          \/ Decided(call[t], index[t], layoutHandle[t])
      BY <1>a, <2>1 DEF Working, Choosing, Inside
    <3>2. CASE Decided(call[t], index[t], layoutHandle[t])
      BY <2>1, <3>2, <1>0, DecidedLater DEF Choosing, Inside, TypeOK
    <3>3. CASE layoutHandle[t] = OwnLayout(call[t], Item(t)) /\ layoutHandle[t] # call[t].layout
      <4>1. /\ call[t].layout = NoLayout /\ ~call[t].template
            /\ layoutHandle[t] = LayoutOf[Item(t).set] /\ layoutHandle[t] # NoLayout
        BY <3>3 DEF OwnLayout
      <4>2. Needs(Item(t)) /\ Item(t) = call[t].items[index[t]]
        BY <1>a, <2>1, <4>1 DEF Working, Position, Inside, Item
      <4>3. index[t] \in 1..(index[t] + 1 - 1)
        BY <1>0, <1>b
      <4>4. Decided(call[t], index[t] + 1, layoutHandle[t])
        BY <4>1, <4>2, <4>3 DEF Decided
      <4>5. QED
        BY <2>1, <4>4 DEF Choosing, Inside
    <3>4. CASE layoutHandle[t] = call[t].layout
      BY <2>1, <3>4 DEF Choosing, Inside
    <3>5. QED
      BY <3>1, <3>2, <3>3, <3>4
  <2>6. \A p \in Item(t).nulls :
          /\ Replaces(p, patched'[t][i0][p])
          /\ p \in DOMAIN NoneFound =>
               patched'[t][i0][p] = found[t][p]
               /\ (found[t][p] # Null => found[t][p][1] = KeyFor(p, hint[t]))
    <3> SUFFICES ASSUME NEW p \in Item(t).nulls
                 PROVE  /\ Replaces(p, patched'[t][i0][p])
                        /\ p \in DOMAIN NoneFound =>
                             patched'[t][i0][p] = found[t][p]
                             /\ (found[t][p] # Null => found[t][p][1] = KeyFor(p, hint[t]))
      OBVIOUS
    <3>1. p \in Parts[Item(t).type] /\ p \in Kinds
      BY <1>b, <1>d, PartsFacts
    <3>2. patched'[t][i0][p] = IF p \in DOMAIN NoneFound THEN found[t][p]
                               ELSE resources[DefaultKey(p)]
      BY <1>d, <1>e, <3>1
    <3>3. CASE p \in DOMAIN NoneFound
      BY <1>a, <2>1, <3>1, <3>2, <3>3 DEF Working, Finding
    <3>4. CASE p \notin DOMAIN NoneFound
      BY <1>c, <3>1, <3>2, <3>4 DEF NoneFound, Kinds
    <3>5. QED
      BY <3>3, <3>4
  <2>7. Patched(t, i0)'
    <3>1. \A p \in Parts[Item(t).type] \ Item(t).nulls :
            patched'[t][i0][p] = App \/ ~Copied(call[t], i0)
      BY <1>d, <1>e, NamesAssumption
    <3>2. /\ Parts[Item(t).type] \cap Item(t).nulls = Item(t).nulls
          /\ live' = live /\ failed' = failed /\ hinted' = hinted
      BY <1>b, <1>d
    <3>3. \/ \E l \in Layouts : l # OwnLayout(call[t], Item(t)) /\ Decided(call[t], i0, l)
          \/ layoutHandle[t] = OwnLayout(call[t], Item(t))
      BY <1>0, <1>a, <2>1 DEF Working, Choosing, Inside, Decided, TypeOK
    <3>4. layoutHandle[t] = OwnLayout(call[t], Item(t)) =>
            \A p \in Item(t).nulls \cap DOMAIN NoneFound :
              ByHint(OwnLayout(call[t], Item(t)), Item(t).binding, p, patched'[t][i0][p])
      <4> SUFFICES ASSUME layoutHandle[t] = OwnLayout(call[t], Item(t)),
                          NEW p \in Item(t).nulls \cap DOMAIN NoneFound
                   PROVE  ByHint(OwnLayout(call[t], Item(t)), Item(t).binding, p, patched'[t][i0][p])
        OBVIOUS
      <4>1. /\ hint[t] \in Hints \cup {NoHint}
            /\ hint[t] = NoHint \/ <<OwnLayout(call[t], Item(t)), Item(t).binding, hint[t]>> \in hinted
        BY <1>a, <2>1 DEF Working, Choosing, Inside, TypeOK
      <4> HIDE DEF Patch
      <4>2. QED
        BY <2>6, <4>1 DEF ByHint
    <3> HIDE DEF IndInv, Patch
    <3>5. \A p \in Parts[Item(t).type] :
            IF p \in Item(t).nulls THEN Replaces(p, patched[t][i0][p])'
            ELSE patched'[t][i0][p] = App \/ ~Copied(call[t], i0)
      BY <2>6, <3>1, <3>2 DEF Replaces
    <3>6. \/ \E l \in Layouts : l # OwnLayout(call[t], Item(t)) /\ Decided(call[t], i0, l)
          \/ \A p \in Item(t).nulls \cap DOMAIN NoneFound :
               ByHint(OwnLayout(call[t], Item(t)), Item(t).binding, p, patched'[t][i0][p])
      BY <3>3, <3>4
    <3>7. QED
      BY <1>d, <2>1, <3>2, <3>5, <3>6 DEF Patched, ByHint
  <2>8. \A i \in DOMAIN call[t].items : i < index[t] + 1 => Patched(t, i)'
    <3> SUFFICES ASSUME NEW i \in DOMAIN call[t].items, i < index[t] + 1
                 PROVE  Patched(t, i)'
      OBVIOUS
    <3>1. CASE i = index[t]
      BY <1>0, <2>7, <3>1
    <3>2. CASE i # index[t]
      <4>1. i < index[t]
        BY <1>a, <1>b, <3>2 DEF Working, Position
      <4>2. QED
        BY <1>a, <2>1, <2>a, <3>2, <4>1, PatchedStays DEF Working
    <3>3. QED
      BY <3>1, <3>2
  <2>9. QED
    BY <2>1, <2>2, <2>3, <2>4, <2>5, <2>8 DEF Working
<1>9. QED
  BY <1>1, <1>2, <1>3, <1>4, <1>5, <1>6, <1>7

\* A null vertex buffer is replaced by the buffer.
LEMMA BindVertexBufferInd ==
  ASSUME NEW t \in Threads, IndInv, BindVertexBuffer(t)
  PROVE  IndInv'
<1> USE DEF IndInv, BindVertexBuffer, Step, deviceVars, hintVars, threadVars
<1>a. /\ call[t] \in Calls[t] /\ call[t] # NoCall /\ phase = "up" /\ Working(t)
  BY DEF Phases, TypeOK
<1>b. /\ Len(call[t].items) \in Nat
      /\ DOMAIN call[t].items = 1..Len(call[t].items)
      /\ call[t].layout \in Layouts \cup {NoLayout}
      /\ \A i \in DOMAIN call[t].items :
           LET item == call[t].items[i]
           IN  /\ item.type \in DOMAIN Parts /\ item.binding \in Bindings
               /\ item.nulls \subseteq Parts[item.type] \ {"raw"}
               /\ LayoutOf[item.set] \in Layouts \cup {NoLayout}
  BY <1>a, CallFacts
<1>c. \A p \in {"buffer", "sampler"} :
        Replaces(p, resources[DefaultKey(p)]) /\ resources[DefaultKey(p)] \in Resources \cup {Null}
  BY <1>a, KeyFacts DEF Caches, Replaces, TypeOK, Kinds
<1>0. PICK i0 \in DOMAIN call[t].items : i0 = index[t]
  BY <1>a, <1>b DEF Working, Position, Item, Inside
<1>d. /\ i0 \in DOMAIN call[t].items /\ DOMAIN patched[t] = DOMAIN call[t].items
      /\ Item(t) = call[t].items[i0] /\ DOMAIN patched[t][i0] = Parts[Item(t).type]
      /\ \A p \in Parts[Item(t).type] :
           patched[t][i0][p] = IF p \in Item(t).nulls THEN Null
                               ELSE IF Copied(call[t], i0) THEN App ELSE Garbage
  BY <1>0, <1>a, <1>b DEF Working, Position, Unpatched, Item, Inside
<1>e. /\ Parts[Item(t).type] = {"buffer"}
      /\ DOMAIN patched' = Threads
      /\ \A u \in Threads : u # t => patched'[u] = patched[u]
      /\ DOMAIN patched'[t] = DOMAIN patched[t]
      /\ \A i \in DOMAIN patched[t] : i # i0 => patched'[t][i] = patched[t][i]
      /\ DOMAIN patched'[t][i0] = DOMAIN patched[t][i0]
      /\ patched'[t][i0]["buffer"] = IF patched[t][i0]["buffer"] = Null
                                     THEN resources[DefaultKey("buffer")]
                                     ELSE patched[t][i0]["buffer"]
  BY <1>0, <1>d, PartsFacts DEF TypeOK
<1>1. TypeOK'
  <2>1. ASSUME NEW i \in DOMAIN patched'[t], NEW p \in DOMAIN patched'[t][i]
        PROVE  patched'[t][i][p] \in Resources \cup {App, Garbage, Null}
    <3> HIDE DEF Patch, BindVertexBuffer
    <3>1. CASE i # i0
      <4>1. patched'[t][i] = patched[t][i] /\ i \in DOMAIN patched[t]
        BY <1>e, <3>1
      <4>2. QED
        BY <4>1 DEF TypeOK
    <3>2. CASE i = i0
      <4>1. p = "buffer"
        BY <1>d, <1>e, <3>2
      <4>2. patched[t][i0]["buffer"] \in {Null, App, Garbage}
        BY <1>d, <1>e
      <4>3. QED
        BY <1>c, <1>e, <3>2, <4>1, <4>2
    <3>3. QED
      BY <3>1, <3>2
  <2>2. ASSUME NEW u \in Threads, u # t, NEW i \in DOMAIN patched'[u],
               NEW p \in DOMAIN patched'[u][i]
        PROVE  patched'[u][i][p] \in Resources \cup {App, Garbage, Null}
    <3>1. patched'[u] = patched[u]
      BY <1>e, <2>2
    <3> HIDE DEF Patch, BindVertexBuffer
    <3>2. QED
      BY <2>2, <3>1 DEF TypeOK
  <2>3. /\ index' \in [Threads -> Nat]
        /\ found' \in [Threads -> [DOMAIN NoneFound -> Resources \cup {Null}]]
        /\ hint' \in [Threads -> Hints \cup {NoHint}]
    BY DEF TypeOK, NoneFound
  <2>4. /\ at' \in [Threads -> {"idle", "write", "imageView", "newImageView", "bufferView",
                              "newBufferView", "patch"}]
        /\ UNCHANGED <<call, layoutHandle, deviceVars, hintVars>>
    BY DEF TypeOK
  <2>5. TypeOK
    OBVIOUS
  <2> HIDE DEF IndInv, Patch, BindVertexBuffer
  <2>6. QED
    BY <1>e, <2>1, <2>2, <2>3, <2>4, <2>5 DEF TypeOK
<1>2. Phases'
  BY DEF TypeOK, Phases
<1>3. Caches'
  BY DEF Caches
<1>4. Hinting'
  BY DEF Hinting
<1>5. Making'
  BY DEF TypeOK, Making, Wanted
<1>6. ASSUME NEW u \in Threads, u # t, call'[u] # NoCall
      PROVE  Working(u)'
  <2>1. /\ at'[u] = at[u] /\ call'[u] = call[u] /\ index'[u] = index[u]
        /\ layoutHandle'[u] = layoutHandle[u] /\ hint'[u] = hint[u]
        /\ found'[u] = found[u] /\ patched'[u] = patched[u]
    BY <1>6, <1>e DEF TypeOK
  <2>2. Working(u)
    BY <1>6, <2>1
  <2>3. live \subseteq live' /\ failed \subseteq failed' /\ hinted \subseteq hinted'
    OBVIOUS
  <2>4. QED
    BY <2>1, <2>2, <2>3, Waits
<1>7. ASSUME call'[t] # NoCall
      PROVE  Working(t)'
  <2>1. /\ call'[t] = call[t] /\ index'[t] = index[t] + 1 /\ at'[t] = "write"
        /\ layoutHandle'[t] = layoutHandle[t] /\ at[t] = "write"
    BY <1>a, <1>b DEF TypeOK, Working, Position
  <2>a. /\ DOMAIN patched'[t] = DOMAIN patched[t]
        /\ \A i \in DOMAIN patched[t] : i # i0 => patched'[t][i] = patched[t][i]
        /\ DOMAIN patched'[t][i0] = Parts[Item(t).type]
    BY <1>d, <1>e
  <2>2. Position(t)'
    BY <1>a, <1>b, <2>1 DEF Working, Position, Inside
  <2>3. Unpatched(t)'
    BY <1>a, <1>b, <2>1, <2>a DEF Working, Unpatched, Position
  <2>4. Finding(t)'
    BY <2>1 DEF Finding
  <2>5. Choosing(t)'
    <3>1. \/ layoutHandle[t] = call[t].layout
          \/ Decided(call[t], index[t] + 1, layoutHandle[t])
      BY <1>0, <1>a, <1>b, <2>1, DecidedLater DEF Working, Choosing
    <3>2. QED
      BY <2>1, <3>1 DEF Choosing, Inside
  <2>7. Patched(t, i0)'
    <3>1. Item(t).nulls \subseteq {"buffer"} /\ Parts[Item(t).type] = {"buffer"}
      BY <1>b, <1>d, PartsFacts
    <3>2. "buffer" \in Item(t).nulls => Replaces("buffer", patched'[t][i0]["buffer"])
      BY <1>c, <1>d, <1>e, <3>1
    <3>3. "buffer" \notin Item(t).nulls =>
            patched'[t][i0]["buffer"] = App \/ ~Copied(call[t], i0)
      BY <1>d, <1>e, <3>1, NamesAssumption
    <3>4. live' = live /\ failed' = failed
      OBVIOUS
    <3>5. QED
      BY <1>d, <2>1, <3>1, <3>2, <3>3, <3>4 DEF Patched, Replaces, NoneFound
  <2>8. \A i \in DOMAIN call[t].items : i < index[t] + 1 => Patched(t, i)'
    <3> SUFFICES ASSUME NEW i \in DOMAIN call[t].items, i < index[t] + 1
                 PROVE  Patched(t, i)'
      OBVIOUS
    <3>1. CASE i = index[t]
      BY <1>0, <2>7, <3>1
    <3>2. CASE i # index[t]
      <4>1. i < index[t]
        BY <1>a, <1>b, <3>2 DEF Working, Position
      <4>2. QED
        BY <1>a, <2>1, <2>a, <3>2, <4>1, PatchedStays DEF Working
    <3>3. QED
      BY <3>1, <3>2
  <2>9. QED
    BY <2>1, <2>2, <2>3, <2>4, <2>5, <2>8 DEF Working
<1>9. QED
  BY <1>1, <1>2, <1>3, <1>4, <1>5, <1>6, <1>7

\* The call is handed on.
LEMMA DeliverInd ==
  ASSUME NEW t \in Threads, IndInv, Deliver(t)
  PROVE  IndInv'
<1> USE DEF IndInv, Deliver, Step, deviceVars, hintVars, threadVars
<1>a. /\ call[t] \in Calls[t] /\ call[t] # NoCall /\ phase = "up" /\ Working(t)
  BY DEF Phases, TypeOK
<1>b. /\ Len(call[t].items) \in Nat
      /\ DOMAIN call[t].items = 1..Len(call[t].items)
      /\ call[t].layout \in Layouts \cup {NoLayout}
      /\ \A i \in DOMAIN call[t].items :
           LET item == call[t].items[i]
           IN  /\ item.type \in DOMAIN Parts /\ item.binding \in Bindings
               /\ item.nulls \subseteq Parts[item.type] \ {"raw"}
               /\ LayoutOf[item.set] \in Layouts \cup {NoLayout}
  BY <1>a, CallFacts
<1>1. TypeOK'
  BY DEF TypeOK
<1>2. Phases'
  BY <1>a DEF TypeOK, Phases
<1>3. Caches'
  BY DEF Caches
<1>4. Hinting'
  BY DEF Hinting
<1>5. Making'
  BY DEF TypeOK, Making, Wanted
<1>6. ASSUME NEW u \in Threads, u # t, call'[u] # NoCall
      PROVE  Working(u)'
  <2>1. /\ at'[u] = at[u] /\ call'[u] = call[u] /\ index'[u] = index[u]
        /\ layoutHandle'[u] = layoutHandle[u] /\ hint'[u] = hint[u]
        /\ found'[u] = found[u] /\ patched'[u] = patched[u]
    BY <1>6 DEF TypeOK
  <2>2. Working(u)
    BY <1>6, <2>1
  <2>3. live \subseteq live' /\ failed \subseteq failed' /\ hinted \subseteq hinted'
    OBVIOUS
  <2>4. QED
    BY <2>1, <2>2, <2>3, Waits
<1>7. call'[t] = NoCall
  BY DEF TypeOK
<1>9. QED
  BY <1>1, <1>2, <1>3, <1>4, <1>5, <1>6, <1>7

-------------------------------------------------------------------------------
(***************************************************************************)
(* The invariant and the theorems.                                         *)
(***************************************************************************)

\* The device is new.
LEMMA InitInd == Init => IndInv
<1> SUFFICES ASSUME Init PROVE IndInv
  OBVIOUS
<1> USE DEF Init
<1>1. TypeOK
  BY DEF TypeOK, NoneFound
<1>2. Phases /\ Making
  BY DEF Phases, Making
<1>3. Caches /\ Hinting
  BY DEF Caches, Hinting
<1>4. \A t \in Threads : call[t] = NoCall
  OBVIOUS
<1>5. QED
  BY <1>1, <1>2, <1>3, <1>4 DEF IndInv

\* Every step preserves the invariant.
LEMMA StepInd == IndInv /\ [Next]_vars => IndInv'
<1> SUFFICES ASSUME IndInv, [Next]_vars PROVE IndInv'
  OBVIOUS
<1>1. CASE \/ \E made \in Outcomes, bare \in {{}, {"buffer"}} : CreateNullResources(made, bare)
           \/ DestroyNullResources
  BY <1>1, CreateNullResourcesInd, DestroyNullResourcesInd
<1>2. ASSUME NEW p \in Pipelines, TrackBinding(p[1], p[2], p[3])
      PROVE  IndInv'
  <2>1. p[1] \in Layouts /\ p[2] \in Bindings /\ p[3] \in Hints /\ <<p[1], p[2], p[3]>> \in Pipelines
    BY BoundsAssumption DEF Hints
  <2>2. QED
    BY <1>2, <2>1, TrackBindingInd
<1>3. ASSUME NEW t \in Threads,
             \/ \E c \in Calls[t] : Begin(t, c)
             \/ Skip(t) \/ Fix(t) \/ FindView(t) \/ MissView(t) \/ EmplaceView(t)
             \/ Patch(t) \/ BindVertexBuffer(t) \/ Deliver(t)
      PROVE  IndInv'
  BY <1>3, BeginInd, SkipInd, FixInd, FindViewInd, MissViewInd, EmplaceViewInd,
     PatchInd, BindVertexBufferInd, DeliverInd
<1>4. CASE UNCHANGED vars
  <2> USE <1>4 DEF vars, deviceVars, hintVars, threadVars
  <2>1. TypeOK' /\ Phases' /\ Caches'
    BY DEF IndInv, TypeOK, Phases, Caches
  <2>2. Hinting' /\ Making'
    BY DEF IndInv, Hinting, Making, Wanted
  <2>3. ASSUME NEW t \in Threads, call'[t] # NoCall
        PROVE  Working(t)'
    BY <2>3, Waits DEF IndInv
  <2>4. QED
    BY <2>1, <2>2, <2>3 DEF IndInv
<1>5. QED
  BY <1>1, <1>2, <1>3, <1>4 DEF Next

\* The invariant holds in every state.
LEMMA Inductive == Spec => []IndInv
BY InitInd, StepInd, PTL DEF Spec

\* A thread that delivers has patched every element.
LEMMA DeliveredPatched ==
  ASSUME IndInv, NEW t \in Delivering, NEW i \in DOMAIN call[t].items
  PROVE  Patched(t, i)
<1>1. t \in Threads /\ call[t] # NoCall /\ index[t] > Len(call[t].items) /\ Working(t)
  BY DEF IndInv, Delivering
<1>2. Len(call[t].items) \in Nat /\ DOMAIN call[t].items = 1..Len(call[t].items)
  BY <1>1, CallFacts DEF IndInv
<1>3. i < index[t]
  BY <1>1, <1>2 DEF Working, Position
<1>4. QED
  BY <1>1, <1>3 DEF Working

\* Threads, calls, caches and hints are what they should be
\* (null_descriptors.cpp).
THEOREM TypeCorrect == Spec => []TypeOK
<1>1. IndInv => TypeOK
  BY DEF IndInv
<1>2. QED
  BY <1>1, Inductive, PTL

\* When a call goes on to the driver every null handle in it is replaced by a
\* resource of its kind that exists, or is null because the driver refused
\* one or because the layer looked behind an ignored pointer of the write, and
\* the rest is what the application gave, but for the end of a template that is
\* cut off (fix_null_descriptors and
\* fix_null_descriptor_templates of null_descriptors.cpp,
\* CmdBindVertexBuffers).
THEOREM NullsAreReplaced == Spec => []NullsReplaced
<1>1. IndInv => NullsReplaced
  BY DeliveredPatched DEF Patched, Replaces, NullsReplaced
<1>2. QED
  BY <1>1, Inductive, PTL

\* The view that replaces a null descriptor is one for a hint given for its
\* layout and binding, or the default, unless an earlier element of the call
\* has another layout (fix_null_descriptors, get_null_image_view and
\* get_null_buffer_view).
THEOREM HintsAreFollowed == Spec => []HintsFollowed
<1>1. ASSUME IndInv, NEW t \in Delivering, NEW i \in DOMAIN call[t].items
      PROVE  LET item == call[t].items[i]
                 own == OwnLayout(call[t], item)
                 given == {h \in Hints : <<own, item.binding, h>> \in hinted}
             IN  \/ \E j \in 1..(i - 1) :
                      /\ Needs(call[t].items[j])
                      /\ OwnLayout(call[t], call[t].items[j]) \notin {own, NoLayout}
                 \/ \A p \in item.nulls \cap {"imageView", "bufferView"} :
                      patched[t][i][p] # Null =>
                        \E h \in given \cup {NoHint} : patched[t][i][p][1] = KeyFor(p, h)
  <2> DEFINE item == call[t].items[i]
             own == OwnLayout(call[t], item)
  <2>1. Patched(t, i)
    BY <1>1, DeliveredPatched
  <2>2. CASE \E l \in Layouts : l # own /\ Decided(call[t], i, l)
    <3>1. PICK l \in Layouts : l # own /\ Decided(call[t], i, l)
      BY <2>2
    <3>2. PICK j \in 1..(i - 1) : Needs(call[t].items[j]) /\ LayoutOf[call[t].items[j].set] = l
      BY <3>1 DEF Decided
    <3>3. OwnLayout(call[t], call[t].items[j]) = l /\ l # NoLayout
      BY <3>1, <3>2 DEF Decided, OwnLayout
    <3>4. QED
      BY <3>1, <3>2, <3>3
  <2>3. CASE \A p \in item.nulls \cap DOMAIN NoneFound : ByHint(own, item.binding, p, patched[t][i][p])
    <3>1. DOMAIN NoneFound = {"imageView", "bufferView"}
      BY DEF NoneFound
    <3> HIDE DEF own
    <3>2. ASSUME NEW p \in item.nulls \cap {"imageView", "bufferView"}, patched[t][i][p] # Null
          PROVE  \E h \in {h \in Hints : <<own, item.binding, h>> \in hinted} \cup {NoHint} :
                   patched[t][i][p][1] = KeyFor(p, h)
      BY <2>3, <3>1, <3>2 DEF ByHint
    <3>3. QED
      BY <3>2 DEF own
  <2>4. QED
    BY <2>1, <2>2, <2>3 DEF Patched
<1>2. IndInv => HintsFollowed
  BY <1>1 DEF HintsFollowed
<1>3. QED
  BY <1>2, Inductive, PTL

\* When the device is gone, the resources that remain are views whose thread
\* lost the race to cache them; none was leaked otherwise
\* (create_null_resources, get_null_image_view, get_null_buffer_view and
\* destroy_null_resources).
THEOREM OnlyLosersLeaked == Spec => []OnlyLosersLeak
<1>1. ASSUME IndInv
      PROVE  OnlyLosersLeak
  <2>1. phase \in {"new", "up", "gone"}
    BY <1>1 DEF IndInv, TypeOK
  <2>2. QED
    BY <1>1, <2>1 DEF IndInv, Phases, Caches, OnlyLosersLeak
<1>2. QED
  BY <1>1, Inductive, PTL
===============================================================================
