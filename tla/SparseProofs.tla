----------------------------- MODULE SparseProofs -----------------------------
(***************************************************************************)
(* Proofs about SparseResources for any budget, any finite number of       *)
(* threads and handles and any requests, about BindSparse for any calls,   *)
(* and about BlockShapes.                                                  *)
(*                                                                         *)
(* SparseResources: ReserveBudget takes no lock, so the budget is kept by  *)
(* an argument about numbers. Call a thread fitting when it may allocate,  *)
(* or when the comparison it is about to make will tell it to. The         *)
(* invariant is Fits: the memory allocated and the needs of the fitting    *)
(* threads stay within the budget. It is inductive because of Counted:     *)
(* when a thread adds its request, the counter it reads is at least all    *)
(* that is allocated or may still be, so a thread that becomes fitting     *)
(* fits beside all the others. Counted holds although a buffer gives back  *)
(* its own size and not what was reserved, for that is never more than     *)
(* what was reserved. Owned ties the memory to the objects, and needs the  *)
(* map to be exact while the driver reuses handles.                        *)
(*                                                                         *)
(* BindSparse: the thread of a call waits for each of its submissions, so  *)
(* at most one of them is not executed, and what else is pending was left  *)
(* by a call that failed (Submissions). That is what puts the infos in     *)
(* order and the fence last. A semaphore between two infos is destroyed in *)
(* the end by the finalizer: no pending submission refers to one of a      *)
(* batch that has its fence but the submission the fence belongs to, and   *)
(* the semaphores of two calls are different (Separate).                   *)
(*                                                                         *)
(* What the buffer shows follows from a second invariant (ContentsInd):    *)
(* it is what it should be (Even), or will be once the commands of the     *)
(* info are executed (Ahead). It holds because what failed calls left      *)
(* pending writes only where nothing is promised any more. Signaled, a     *)
(* part of it, says that a call never waits for its own semaphores.        *)
(*                                                                         *)
(* BlockShapes: the three tables are compared run by run of formats.       *)
(***************************************************************************)
EXTENDS SparseResources, BindSparse, BlockShapes, FiniteSetTheorems, TLAPS

\* Threads that have a new handle in their hands, that destroy an object,
\* that have freed its shadow, that count in the counter, and that have
\* allocated a shadow but not entered it.
Creators ==
    In({"reserve", "compare", "refuse", "allocate", "abandon", "insert"})
Destroyers == In({"free", "release"})
Releasing == {obj[t] : t \in In({"release"})}
Counting == In({"compare", "refuse", "allocate", "insert"})
Inserting == In({"insert"})

\* The threads that have a right to allocate, or will find that they have.
Fitting ==
    In({"allocate"})
        \cup {t \in In({"compare"}) : before[t] + req[t].required <= Budget}

\* What the threads and the objects in the map require.
Needs == [t \in Threads |-> req[t].required]
Shadows == [h \in DOMAIN resources |-> resources[h].required]

Types ==
    /\ global_lock \in Threads \cup {Nobody}
    /\ at \in [Threads -> {"idle", "reserve", "compare", "refuse", "allocate",
                           "abandon", "insert", "free", "release"}]
    /\ obj \in [Threads -> Handles \cup {NoHandle}]
    /\ req \in [Threads -> Requests \cup {NoRequest}]
    /\ before \in [Threads -> Nat]
    /\ DOMAIN resources \in SUBSET Handles
    /\ \A h \in DOMAIN resources : resources[h] \in Requests
    /\ handles \in SUBSET Handles

\* No number falls below zero.
Numbers == sparseCommittedBytes \in Nat /\ deviceMemory \in Nat

\* A thread inside a call has a handle; a destroying thread has the lock; two
\* creating threads have different handles, and a new handle that the map
\* still has is being destroyed.
Objects ==
    /\ \A t \in Threads : at[t] = "idle" <=> obj[t] = NoHandle
    /\ \A t \in Threads : at[t] = "idle" => req[t] = NoRequest
    /\ \A t \in Threads : at[t] \in {"free", "release"} <=> global_lock = t
    /\ \A t, u \in Creators : obj[t] = obj[u] => t = u
    /\ \A t \in Creators :
         /\ req[t] \in Requests
         /\ obj[t] \in DOMAIN resources =>
              \E u \in Destroyers : obj[u] = obj[t]

\* The counter covers the needs that were added and not yet subtracted, and
\* every object.
Counted ==
    sparseCommittedBytes >=
        Total(Needs, Counting) + Total(Shadows, DOMAIN resources)

\* ShadowsOwned in the terms of these proofs.
Owned ==
    deviceMemory =
        Total(Shadows, DOMAIN resources \ Releasing) + Total(Needs, Inserting)

\* The budget has room for what is allocated and all that may still be.
Fits == deviceMemory + Total(Needs, Fitting) <= Budget

\* The inductive invariant.
IndInv ==
    /\ Types
    /\ Numbers
    /\ Objects
    /\ MapExact
    /\ Counted
    /\ Owned
    /\ Fits

-------------------------------------------------------------------------------
(***************************************************************************)
(* Sums. Total counts bytes, so that the facts about cardinalities give    *)
(* all there is to know of it.                                             *)
(***************************************************************************)

\* A sum of natural numbers over a finite set is one.
LEMMA TotalType ==
  ASSUME NEW f, NEW S, IsFiniteSet(S), \A x \in S : f[x] \in Nat
  PROVE  /\ IsFiniteSet(UNION {{x} \X (1 .. f[x]) : x \in S})
         /\ Total(f, S) \in Nat
<1> DEFINE bytes == [x \in S |-> {x} \X (1 .. f[x])]
           all == {bytes[x] : x \in S}
<1>1. bytes \in Surjection(S, all)
  BY DEF Surjection
<1>2. IsFiniteSet(all)
  BY <1>1, FS_Surjection
<1>3. ASSUME NEW x \in S
      PROVE  IsFiniteSet(bytes[x])
  <2> f[x] \in Int
    BY <1>3
  <2>1. IsFiniteSet(1 .. f[x])
    BY FS_Interval
  <2>2. IsFiniteSet({x} \X (1 .. f[x]))
    BY <2>1, FS_Singleton, FS_Product
  <2>3. QED
    BY <2>2
<1>4. \A T \in all : IsFiniteSet(T)
  BY <1>3
<1>5. IsFiniteSet(UNION all)
  BY <1>2, <1>4, FS_UNION
<1>6. UNION all = UNION {{x} \X (1 .. f[x]) : x \in S}
  OBVIOUS
<1>7. QED
  BY <1>5, <1>6, FS_CardinalityType DEF Total

\* It depends on the members of the set only.
LEMMA TotalSame ==
  ASSUME NEW f, NEW g, NEW S, \A x \in S : f[x] = g[x]
  PROVE  Total(f, S) = Total(g, S)
<1>1. {{x} \X (1 .. f[x]) : x \in S} = {{x} \X (1 .. g[x]) : x \in S}
  OBVIOUS
<1>2. QED
  BY <1>1 DEF Total

\* The sum over the empty set.
LEMMA TotalEmpty ==
  ASSUME NEW f
  PROVE  Total(f, {}) = 0
<1>1. UNION {{x} \X (1 .. f[x]) : x \in {}} = {}
  OBVIOUS
<1>2. QED
  BY <1>1, FS_EmptySet DEF Total

\* One member more.
LEMMA TotalAdd ==
  ASSUME NEW f, NEW S, IsFiniteSet(S), NEW y, y \notin S,
         \A x \in S \cup {y} : f[x] \in Nat
  PROVE  Total(f, S \cup {y}) = Total(f, S) + f[y]
<1> DEFINE before_ == UNION {{x} \X (1 .. f[x]) : x \in S}
           new == {y} \X (1 .. f[y])
<1>1. UNION {{x} \X (1 .. f[x]) : x \in S \cup {y}} = before_ \cup new
  OBVIOUS
<1>2. before_ \cap new = {}
  OBVIOUS
<1>3. IsFiniteSet(before_) /\ Cardinality(before_) \in Nat
  BY TotalType, FS_CardinalityType DEF Total
<1>4. IsFiniteSet(new) /\ Cardinality(new) = f[y]
  <2>1. f[y] \in Nat
    OBVIOUS
  <2>2. IsFiniteSet({y}) /\ Cardinality({y}) = 1
    BY FS_Singleton
  <2>3. IsFiniteSet(1 .. f[y]) /\ Cardinality(1 .. f[y]) = f[y]
    BY <2>1, FS_Interval
  <2>4. /\ IsFiniteSet(new)
        /\ Cardinality(new) = Cardinality({y}) * Cardinality(1 .. f[y])
    BY <2>2, <2>3, FS_Product
  <2>5. QED
    BY <2>1, <2>2, <2>3, <2>4
<1> HIDE DEF before_, new
<1>5. Cardinality(before_ \cup new) = Cardinality(before_) + Cardinality(new)
  <2>1. Cardinality(before_ \cap new) = 0
    BY <1>2, FS_EmptySet
  <2>2. Cardinality(before_ \cup new) =
          Cardinality(before_)
              + Cardinality(new) - Cardinality(before_ \cap new)
    BY <1>3, <1>4, FS_Union
  <2>3. QED
    BY <1>3, <1>4, <2>1, <2>2
<1>6. /\ Total(f, S \cup {y}) = Cardinality(before_ \cup new)
      /\ Total(f, S) = Cardinality(before_)
  BY <1>1 DEF Total, before_
<1>7. QED
  BY <1>4, <1>5, <1>6

\* One member less.
LEMMA TotalRemove ==
  ASSUME NEW f, NEW S, IsFiniteSet(S), NEW y \in S, \A x \in S : f[x] \in Nat
  PROVE  Total(f, S) = Total(f, S \ {y}) + f[y]
<1>1. S = (S \ {y}) \cup {y} /\ y \notin S \ {y} /\ IsFiniteSet(S \ {y})
  BY FS_RemoveElement
<1>2. QED
  BY <1>1, TotalAdd

\* A part adds up to no more than the whole.
LEMMA TotalSubset ==
  ASSUME NEW f, NEW S, IsFiniteSet(S), NEW T \in SUBSET S,
         \A x \in S : f[x] \in Nat
  PROVE  Total(f, T) <= Total(f, S)
<1> DEFINE all == UNION {{x} \X (1 .. f[x]) : x \in S}
           some == UNION {{x} \X (1 .. f[x]) : x \in T}
<1>1. IsFiniteSet(all)
  BY TotalType
<1>2. some \subseteq all
  OBVIOUS
<1>3. Cardinality(some) <= Cardinality(all)
  BY <1>1, <1>2, FS_Subset
<1>4. QED
  BY <1>3 DEF Total

\* Two sets that have no member in common.
LEMMA TotalUnion ==
  ASSUME NEW f, NEW S, IsFiniteSet(S), NEW T, IsFiniteSet(T), S \cap T = {},
         \A x \in S \cup T : f[x] \in Nat
  PROVE  Total(f, S \cup T) = Total(f, S) + Total(f, T)
<1> DEFINE bytes(U) == UNION {{x} \X (1 .. f[x]) : x \in U}
<1>1. bytes(S \cup T) = bytes(S) \cup bytes(T) /\ bytes(S) \cap bytes(T) = {}
  OBVIOUS
<1>2. /\ IsFiniteSet(bytes(S)) /\ Cardinality(bytes(S)) \in Nat
      /\ IsFiniteSet(bytes(T)) /\ Cardinality(bytes(T)) \in Nat
  BY TotalType, FS_CardinalityType
<1>3. /\ Total(f, S \cup T) = Cardinality(bytes(S \cup T))
      /\ Total(f, S) = Cardinality(bytes(S))
      /\ Total(f, T) = Cardinality(bytes(T))
  BY DEF Total
<1> HIDE DEF bytes
<1>4. Cardinality(bytes(S) \cap bytes(T)) = 0
  BY <1>1, FS_EmptySet
<1>5. Cardinality(bytes(S) \cup bytes(T)) =
        Cardinality(bytes(S))
            + Cardinality(bytes(T)) - Cardinality(bytes(S) \cap bytes(T))
  BY <1>2, FS_Union
<1>6. Cardinality(bytes(S) \cup bytes(T)) =
          Cardinality(bytes(S)) + Cardinality(bytes(T))
  BY <1>2, <1>4, <1>5
<1>7. QED
  BY <1>1, <1>3, <1>6

\* The same for what threads require, and what a step that leaves their
\* requests alone does to it.
LEMMA NeedsFacts ==
  ASSUME Types, NEW S \in SUBSET Threads
  PROVE  /\ IsFiniteSet(S) /\ Total(Needs, S) \in Nat
         /\ \A t \in Threads : Needs[t] = req[t].required /\ Needs[t] \in Nat
         /\ \A t \in Threads \ S :
              Total(Needs, S \cup {t}) = Total(Needs, S) + req[t].required
         /\ \A t \in S :
                Total(Needs, S) = Total(Needs, S \ {t}) + req[t].required
         /\ (\A t \in S : req'[t] = req[t]) =>
                Total(Needs', S) = Total(Needs, S)
<1>1. IsFiniteSet(S)
  BY FinitenessAssumption, FS_Subset
<1>2. \A t \in Threads : Needs[t] = req[t].required /\ Needs[t] \in Nat
  BY RequestsAssumption DEF Types, Needs, NoRequest
<1>3. Total(Needs, S) \in Nat
  BY <1>1, <1>2, TotalType
<1>4. ASSUME NEW t \in Threads \ S
      PROVE  Total(Needs, S \cup {t}) = Total(Needs, S) + req[t].required
  <2>1. t \notin S /\ \A x \in S \cup {t} : Needs[x] \in Nat
    BY <1>2
  <2>2. Total(Needs, S \cup {t}) = Total(Needs, S) + Needs[t]
    BY <1>1, <2>1, TotalAdd
  <2>3. QED
    BY <1>2, <2>2
<1>5. ASSUME NEW t \in S
      PROVE  Total(Needs, S) = Total(Needs, S \ {t}) + req[t].required
  <2>1. Total(Needs, S) = Total(Needs, S \ {t}) + Needs[t]
    BY <1>1, <1>2, TotalRemove
  <2>2. QED
    BY <1>2, <2>1
<1>6. ASSUME \A t \in S : req'[t] = req[t]
      PROVE  Total(Needs', S) = Total(Needs, S)
  <2>1. \A t \in S : Needs'[t] = Needs[t]
    BY <1>6 DEF Needs
  <2>2. QED
    BY <2>1, TotalSame
<1>7. QED
  BY <1>1, <1>2, <1>3, <1>4, <1>5, <1>6

\* The same for what the objects in the map require.
LEMMA ShadowsFacts ==
  ASSUME Types, NEW S \in SUBSET DOMAIN resources
  PROVE  /\ IsFiniteSet(S) /\ Total(Shadows, S) \in Nat
         /\ \A h \in DOMAIN resources :
              Shadows[h] = resources[h].required /\ Shadows[h] \in Nat
         /\ \A h \in S :
                Total(Shadows, S) =
                    Total(Shadows, S \ {h}) + resources[h].required
<1>1. IsFiniteSet(S)
  BY FinitenessAssumption, FS_Subset DEF Types
<1>2. \A h \in DOMAIN resources :
        Shadows[h] = resources[h].required /\ Shadows[h] \in Nat
  BY RequestsAssumption DEF Types, Shadows
<1>3. Total(Shadows, S) \in Nat
  BY <1>1, <1>2, TotalType
<1>4. ASSUME NEW h \in S
      PROVE  Total(Shadows, S) =
                 Total(Shadows, S \ {h}) + resources[h].required
  <2>1. Total(Shadows, S) = Total(Shadows, S \ {h}) + Shadows[h]
    BY <1>1, <1>2, TotalRemove
  <2>2. QED
    BY <1>2, <2>1
<1>5. QED
  BY <1>1, <1>2, <1>3, <1>4

\* The counter covers what is allocated and what may still be.
LEMMA CoversByInvariant == IndInv => CommittedCovers
<1> SUFFICES ASSUME IndInv PROVE CommittedCovers
  OBVIOUS
<1> DEFINE asking == In({"compare", "refuse", "allocate"})
<1>1. /\ asking \in SUBSET Threads /\ Inserting \in SUBSET Threads
      /\ Counting = asking \cup Inserting /\ asking \cap Inserting = {}
      /\ Counting \in SUBSET Threads
  BY DEF In, Inserting, Counting
<1> HIDE DEF asking
<1>2. Total(Needs, Counting) = Total(Needs, asking) + Total(Needs, Inserting)
  <2>1. /\ IsFiniteSet(asking) /\ IsFiniteSet(Inserting)
        /\ \A t \in asking \cup Inserting : Needs[t] \in Nat
    BY <1>1, NeedsFacts DEF IndInv
  <2>2. QED
    BY <1>1, <2>1, TotalUnion
<1>3. /\ Total(Needs, asking) \in Nat /\ Total(Needs, Inserting) \in Nat
      /\ Total(Needs, Counting) \in Nat
  BY <1>1, NeedsFacts DEF IndInv
<1>4. /\ Total(Shadows, DOMAIN resources \ Releasing) \in Nat
      /\ Total(Shadows, DOMAIN resources) \in Nat
      /\ Total(Shadows, DOMAIN resources \ Releasing) <=
             Total(Shadows, DOMAIN resources)
  BY ShadowsFacts, TotalSubset DEF IndInv
<1>5. sparseCommittedBytes >= deviceMemory + Total(Needs, asking)
  BY <1>2, <1>3, <1>4 DEF IndInv, Numbers, Counted, Owned
<1>6. QED
  BY <1>5 DEF CommittedCovers, Required, Needs, asking

\* A step that changes no sum.
LEMMA SumsStay ==
  ASSUME IndInv, UNCHANGED <<sparseCommittedBytes, resources, deviceMemory>>,
         Counting' = Counting, Inserting' = Inserting, Fitting' = Fitting,
         Releasing' = Releasing, \A u \in Counting : req'[u] = req[u]
  PROVE  Numbers' /\ Counted' /\ Owned' /\ Fits'
<1>1. /\ Counting \in SUBSET Threads /\ Inserting \in SUBSET Counting
      /\ Fitting \in SUBSET Counting
  BY DEF In, Inserting, Counting, Fitting
<1>2. /\ Total(Needs', Counting) = Total(Needs, Counting)
      /\ Total(Needs', Inserting) = Total(Needs, Inserting)
      /\ Total(Needs', Fitting) = Total(Needs, Fitting)
  BY <1>1, NeedsFacts DEF IndInv
<1>3. Shadows' = Shadows
  BY DEF Shadows
<1>4. QED
  BY <1>2, <1>3 DEF IndInv, Numbers, Counted, Owned, Fits

-------------------------------------------------------------------------------
(***************************************************************************)
(* One lemma per action.                                                   *)
(***************************************************************************)

\* No sum changes: the thread does not count yet.
LEMMA CreateInd ==
  ASSUME NEW t \in Threads, NEW h \in Handles, NEW r \in Requests,
         IndInv, Create(t, h, r)
  PROVE  IndInv'
<1> USE DEF IndInv, Create, Goto
<1>1. Types'
  BY DEF Types
<1>2. Objects'
  BY RequestsAssumption DEF Types, Objects, Creators, Destroyers, In, MapExact
<1>3. MapExact'
  BY DEF Types, MapExact, In
<1>4. Numbers' /\ Counted' /\ Owned' /\ Fits'
  <2>1. Counting' = Counting /\ Inserting' = Inserting
    BY DEF Types, Objects, In, Counting, Inserting
  <2>2. Releasing' = Releasing
    BY DEF Types, Objects, In, Releasing
  <2>3. \A u \in Counting : req'[u] = req[u]
    BY DEF Types, Objects, In, Counting
  <2>4. Fitting' = Fitting
    BY DEF Types, Objects, In, Fitting
  <2>5. QED
    BY <2>1, <2>2, <2>3, <2>4, SumsStay
<1>5. QED
  BY <1>1, <1>2, <1>3, <1>4

\* The step on which the budget rests: the counter the thread reads covers
\* what is allocated and what the fitting threads need.
LEMMA ReserveInd ==
  ASSUME NEW t \in Threads, IndInv, Reserve(t)
  PROVE  IndInv'
<1> USE DEF IndInv, Reserve, Goto, driverVars
<1>1. Types'
  BY DEF Types, Numbers
<1>2. Objects'
  BY DEF Objects, Creators, Destroyers, In
<1>3. MapExact'
  BY DEF MapExact, In
<1>4. Numbers' /\ Counted' /\ Owned' /\ Fits'
  <2> DEFINE r == req[t].required
  <2>1. /\ Counting \in SUBSET Threads /\ Inserting \in SUBSET Threads
        /\ Fitting \in SUBSET In({"compare", "refuse", "allocate"})
        /\ In({"compare", "refuse", "allocate"}) \in SUBSET Threads
        /\ t \in Threads \ Counting /\ t \in Threads \ Fitting
    BY DEF In, Counting, Inserting, Fitting
  <2>2. /\ Counting' = Counting \cup {t} /\ Inserting' = Inserting
        /\ Releasing' = Releasing /\ Needs' = Needs /\ Shadows' = Shadows
    BY DEF Types, In, Counting, Inserting, Releasing, Needs, Shadows
  <2>3. Fitting' =
            IF sparseCommittedBytes + r <=
                Budget THEN Fitting \cup {t} ELSE Fitting
    BY DEF Types, In, Fitting
  <2>4. /\ r \in Nat
        /\ Total(Needs, Counting) \in Nat /\ Total(Needs, Fitting) \in Nat
        /\ Total(Needs, Counting \cup {t}) = Total(Needs, Counting) + r
        /\ Total(Needs, Fitting \cup {t}) = Total(Needs, Fitting) + r
    BY <2>1, NeedsFacts
  <2>5. deviceMemory + Total(Needs, Fitting) <= sparseCommittedBytes
    <3> DEFINE asking == In({"compare", "refuse", "allocate"})
    <3>1. sparseCommittedBytes >= deviceMemory + Total(Needs, asking)
      BY CoversByInvariant DEF CommittedCovers, Required, Needs
    <3>2. /\ Total(Needs, Fitting) <= Total(Needs, asking)
          /\ Total(Needs, asking) \in Nat
      BY <2>1, NeedsFacts, TotalSubset
    <3> HIDE DEF asking
    <3>3. QED
      BY <2>4, <3>1, <3>2 DEF Numbers
  <2>6. Total(Shadows, DOMAIN resources) \in Nat
    BY ShadowsFacts
  <2>7. Numbers' /\ Owned'
    BY <2>2, <2>4 DEF Numbers, Owned
  <2>8. Counted'
    BY <2>2, <2>4, <2>6 DEF Numbers, Counted
  <2>9. Fits'
    BY <2>2, <2>3, <2>4, <2>5, RequestsAssumption DEF Numbers, Fits
  <2>10. QED
    BY <2>7, <2>8, <2>9
<1>5. QED
  BY <1>1, <1>2, <1>3, <1>4

\* A thread stays fitting, or was not.
LEMMA CompareInd ==
  ASSUME NEW t \in Threads, IndInv, Compare(t)
  PROVE  IndInv'
<1> USE DEF IndInv, Compare, Goto, driverVars
<1>1. Types'
  BY DEF Types
<1>2. Objects'
  BY DEF Objects, Creators, Destroyers, In
<1>3. MapExact'
  BY DEF MapExact, In
<1>4. Numbers' /\ Counted' /\ Owned' /\ Fits'
  <2>1. Counting' = Counting /\ Inserting' = Inserting
    BY DEF Types, Objects, In, Counting, Inserting
  <2>2. Releasing' = Releasing
    BY DEF Types, Objects, In, Releasing
  <2>3. \A u \in Counting : req'[u] = req[u]
    BY DEF Types, Objects, In, Counting
  <2>4. Fitting' = Fitting
    <3>1. before[t] + req[t].required \in Int /\ Budget \in Int
      BY RequestsAssumption DEF Types, NoRequest
    <3>2. (before[t] + req[t].required > Budget) <=>
              ~(before[t] + req[t].required <= Budget)
      BY <3>1
    <3>3. QED
      BY <3>2 DEF Types, In, Fitting
  <2>5. QED
    BY <2>1, <2>2, <2>3, <2>4, SumsStay
<1>5. QED
  BY <1>1, <1>2, <1>3, <1>4

\* The thread no longer counts, and takes back what it added.
LEMMA RefuseInd ==
  ASSUME NEW t \in Threads, IndInv, Refuse(t)
  PROVE  IndInv'
<1> USE DEF IndInv, Refuse, driverVars
<1>1. Types'
  BY DEF Types
<1>2. Objects'
  BY DEF Objects, Creators, Destroyers, In
<1>3. MapExact'
  BY DEF MapExact, In
<1>4. Numbers' /\ Counted' /\ Owned' /\ Fits'
  <2> DEFINE r == req[t].required
  <2>1. /\ Counting \in SUBSET Threads /\ Fitting \in SUBSET Threads
        /\ t \in Counting
        /\ Counting' = Counting \ {t} /\ Inserting' = Inserting
        /\ Fitting' \in SUBSET Fitting
        /\ Releasing' = Releasing /\ Needs' = Needs /\ Shadows' = Shadows
    BY DEF Types, In, Counting, Inserting, Fitting, Releasing, Needs, Shadows
  <2>2. /\ r \in Nat /\ Total(Needs, Counting \ {t}) \in Nat
        /\ Total(Needs, Counting) = Total(Needs, Counting \ {t}) + r
        /\ Total(Needs, Fitting') \in Nat /\ Total(Needs, Fitting) \in Nat
        /\ Total(Needs, Fitting') <= Total(Needs, Fitting)
    BY <2>1, NeedsFacts, TotalSubset
  <2>3. Total(Shadows, DOMAIN resources) \in Nat
    BY ShadowsFacts
  <2>4. Numbers' /\ Counted'
    BY <2>1, <2>2, <2>3 DEF Numbers, Counted
  <2>5. Owned'
    BY <2>1 DEF Owned
  <2>6. Fits'
    BY <2>1, <2>2, RequestsAssumption DEF Numbers, Fits
  <2>7. QED
    BY <2>4, <2>5, <2>6
<1>5. QED
  BY <1>1, <1>2, <1>3, <1>4

LEMMA AbandonInd ==
  ASSUME NEW t \in Threads, IndInv, Abandon(t)
  PROVE  IndInv'
<1> USE DEF IndInv, Abandon, Return, Goto
<1>1. Types'
  BY DEF Types
<1>2. Objects'
  BY DEF Types, Objects, Creators, Destroyers, In
<1>3. MapExact'
  BY DEF Types, MapExact, In, Objects, Creators, Destroyers
<1>4. Numbers' /\ Counted' /\ Owned' /\ Fits'
  <2>1. Counting' = Counting /\ Inserting' = Inserting
    BY DEF Types, Objects, In, Counting, Inserting
  <2>2. Releasing' = Releasing
    BY DEF Types, Objects, In, Releasing
  <2>3. \A u \in Counting : req'[u] = req[u]
    BY DEF Types, Objects, In, Counting
  <2>4. Fitting' = Fitting
    BY DEF Types, Objects, In, Fitting
  <2>5. QED
    BY <2>1, <2>2, <2>3, <2>4, SumsStay
<1>5. QED
  BY <1>1, <1>2, <1>3, <1>4

\* What the thread needed becomes memory.
LEMMA AllocateMemoryInd ==
  ASSUME NEW t \in Threads, IndInv, AllocateMemory(t)
  PROVE  IndInv'
<1> USE DEF IndInv, AllocateMemory, Goto
<1>1. Types'
  BY DEF Types
<1>2. Objects'
  BY DEF Objects, Creators, Destroyers, In
<1>3. MapExact'
  BY DEF MapExact, In
<1>4. Numbers' /\ Counted' /\ Owned' /\ Fits'
  <2> DEFINE r == req[t].required
  <2>1. /\ Inserting \in SUBSET Threads /\ Fitting \in SUBSET Threads
        /\ t \in Fitting /\ t \in Threads \ Inserting
    BY DEF In, Inserting, Fitting
  <2>2. /\ Counting' = Counting /\ Inserting' = Inserting \cup {t}
        /\ Fitting' = Fitting \ {t}
        /\ Releasing' = Releasing /\ Needs' = Needs /\ Shadows' = Shadows
    BY DEF Types, In, Counting, Inserting, Fitting, Releasing, Needs, Shadows
  <2>3. /\ r \in Nat /\ Total(Needs, Inserting) \in Nat
        /\ Total(Needs, Inserting \cup {t}) = Total(Needs, Inserting) + r
        /\ Total(Needs, Fitting \ {t}) \in Nat
        /\ Total(Needs, Fitting) = Total(Needs, Fitting \ {t}) + r
    BY <2>1, NeedsFacts
  <2>4. Total(Shadows, DOMAIN resources \ Releasing) \in Nat
    BY ShadowsFacts
  <2>5. Numbers' /\ Counted'
    BY <2>2, <2>3 DEF Numbers, Counted
  <2>6. Owned'
    BY <2>2, <2>3, <2>4 DEF Numbers, Owned
  <2>7. Fits'
    BY <2>2, <2>3, RequestsAssumption DEF Numbers, Fits
  <2>8. QED
    BY <2>5, <2>6, <2>7
<1>5. QED
  BY <1>1, <1>2, <1>3, <1>4

\* The needs of the thread become those of its object.
LEMMA InsertInd ==
  ASSUME NEW t \in Threads, IndInv, Insert(t)
  PROVE  IndInv'
<1> USE DEF IndInv, Insert, Return, Free, driverVars, Goto
<1>1. Types'
  BY DEF Types, Objects, Creators, In
<1>2. Objects'
  BY DEF Types, Objects, Creators, Destroyers, In
<1>3. MapExact'
  BY RequestsAssumption DEF Types, MapExact, In, Objects
<1>4. Numbers' /\ Counted' /\ Owned' /\ Fits'
  <2> DEFINE r == req[t].required
             o == obj[t]
  <2>1. /\ Counting \in SUBSET Threads /\ Inserting \in SUBSET Threads
        /\ Fitting \in SUBSET Threads /\ t \in Counting /\ t \in Inserting
        /\ t \notin Fitting
    BY DEF In, Counting, Inserting, Fitting
  <2>2. /\ Counting' = Counting \ {t} /\ Inserting' = Inserting \ {t}
        /\ \A u \in Counting \ {t} : req'[u] = req[u]
    BY DEF Types, In, Counting, Inserting
  <2>3. Fitting' = Fitting /\ \A u \in Fitting : req'[u] = req[u]
    BY DEF Types, In, Fitting
  <2>4. /\ r \in Nat /\ Total(Needs, Counting \ {t}) \in Nat
        /\ Total(Needs, Inserting \ {t}) \in Nat
        /\ Total(Needs, Counting) = Total(Needs, Counting \ {t}) + r
        /\ Total(Needs, Inserting) = Total(Needs, Inserting \ {t}) + r
    BY <2>1, NeedsFacts
  <2>5. /\ Total(Needs', Counting') = Total(Needs, Counting \ {t})
        /\ Total(Needs', Fitting') = Total(Needs, Fitting)
        /\ Total(Needs', Inserting') = Total(Needs, Inserting \ {t})
    <3>1. /\ Counting \ {t} \in SUBSET Threads
          /\ Inserting \ {t} \in SUBSET (Counting \ {t})
      BY <2>1 DEF In, Counting, Inserting
    <3>2. QED
      BY <2>1, <2>2, <2>3, <3>1, NeedsFacts
  <2>6. Releasing = {} /\ Releasing' = {} /\ o \notin DOMAIN resources
    BY RequestsAssumption
       DEF Types, Objects, In, Free, Releasing, Creators, Destroyers
  <2>7. /\ DOMAIN resources' = DOMAIN resources \cup {o}
        /\ Total(Shadows', DOMAIN resources \cup {o}) =
               Total(Shadows, DOMAIN resources) + r
        /\ Total(Shadows, DOMAIN resources) \in Nat
    <3>1. /\ DOMAIN resources' = DOMAIN resources \cup {o}
          /\ \A h \in DOMAIN resources \cup {o} :
               Shadows'[h] = IF h = o THEN r ELSE resources[h].required
      BY DEF Shadows
    <3>2. /\ IsFiniteSet(DOMAIN resources)
          /\ Total(Shadows, DOMAIN resources) \in Nat
          /\ \A h \in DOMAIN resources :
               Shadows[h] = resources[h].required /\ Shadows[h] \in Nat
      BY ShadowsFacts
    <3>3. /\ \A h \in DOMAIN resources : Shadows'[h] = Shadows[h]
          /\ \A h \in DOMAIN resources \cup {o} : Shadows'[h] \in Nat
          /\ Shadows'[o] = r
      BY <2>4, <2>6, <3>1, <3>2
    <3>4. Total(Shadows', DOMAIN resources) = Total(Shadows, DOMAIN resources)
      BY <3>3, TotalSame
    <3>5. Total(Shadows', DOMAIN resources \cup {o}) =
              Total(Shadows', DOMAIN resources) + r
      BY <2>6, <3>2, <3>3, TotalAdd
    <3>6. QED
      BY <3>1, <3>2, <3>4, <3>5
  <2> HIDE DEF o
  <2>8. Numbers'
    BY DEF Numbers
  <2>9. Counted'
    <3>1. sparseCommittedBytes' = sparseCommittedBytes
      OBVIOUS
    <3> HIDE DEF Insert, r
    <3>2. Total(Needs', Counting') + Total(Shadows', DOMAIN resources') =
            Total(Needs, Counting) + Total(Shadows, DOMAIN resources)
      BY <2>4, <2>5, <2>7
    <3>3. QED
      BY <3>1, <3>2 DEF Counted
  <2>10. Owned'
    <3>1. deviceMemory' = deviceMemory
      OBVIOUS
    <3> HIDE DEF Insert, r
    <3>2. /\ DOMAIN resources \ Releasing = DOMAIN resources
          /\ DOMAIN resources' \ Releasing' = DOMAIN resources \cup {o}
      BY <2>6, <2>7
    <3>3. Total(Shadows', DOMAIN resources' \ Releasing')
              + Total(Needs', Inserting') =
            Total(Shadows, DOMAIN resources \ Releasing)
                + Total(Needs, Inserting)
      <4>1. /\ Total(Shadows', DOMAIN resources' \ Releasing') =
                   Total(Shadows, DOMAIN resources) + r
            /\ Total(Shadows, DOMAIN resources \ Releasing) =
                   Total(Shadows, DOMAIN resources)
        BY <2>7, <3>2
      <4>2. Total(Needs', Inserting') = Total(Needs, Inserting) - r
        BY <2>4, <2>5
      <4>3. Total(Needs, Inserting) \in Nat
        BY <2>4
      <4>4. QED
        BY <2>4, <2>7, <4>1, <4>2, <4>3
    <3>4. QED
      BY <3>1, <3>3 DEF Owned
  <2>11. Fits'
    BY <2>5 DEF Fits
  <2>12. QED
    BY <2>8, <2>9, <2>10, <2>11
<1>5. QED
  BY <1>1, <1>2, <1>3, <1>4

\* The object still counts, though the driver may reuse its handle.
LEMMA DestroyInd ==
  ASSUME NEW t \in Threads, NEW h \in Handles, IndInv, Destroy(t, h)
  PROVE  IndInv'
<1> USE DEF IndInv, Destroy, Goto, Free, Unused
<1>1. Types'
  BY DEF Types
<1>2. Objects'
  BY RequestsAssumption DEF Types, Objects, Creators, Destroyers, In
<1>3. MapExact'
  BY DEF Types, MapExact, In
<1>4. Numbers' /\ Counted' /\ Owned' /\ Fits'
  <2>1. Counting' = Counting /\ Inserting' = Inserting
    BY DEF Types, Objects, In, Counting, Inserting
  <2>2. Releasing' = Releasing
    BY DEF Types, Objects, In, Releasing
  <2>3. \A u \in Counting : req'[u] = req[u]
    BY DEF Types, Objects, In, Counting
  <2>4. Fitting' = Fitting
    BY DEF Types, Objects, In, Fitting
  <2>5. QED
    BY <2>1, <2>2, <2>3, <2>4, SumsStay
<1>5. QED
  BY <1>1, <1>2, <1>3, <1>4

\* The memory goes before the object.
LEMMA FreeShadowInd ==
  ASSUME NEW t \in Threads, IndInv, FreeShadow(t)
  PROVE  IndInv'
<1> USE DEF IndInv, FreeShadow, Goto
<1>1. Types'
  BY DEF Types
<1>2. Objects'
  BY DEF Objects, Creators, Destroyers, In
<1>3. MapExact'
  BY DEF MapExact, In
<1>4. Numbers' /\ Counted' /\ Owned' /\ Fits'
  <2> DEFINE o == obj[t]
             r == resources[o].required
  <2>1. /\ Counting' = Counting /\ Inserting' = Inserting /\ Fitting' = Fitting
        /\ Needs' = Needs /\ Shadows' = Shadows
    BY DEF Types, In, Counting, Inserting, Fitting, Needs, Shadows
  <2>2. Releasing = {} /\ Releasing' = {o}
    BY RequestsAssumption DEF Types, Objects, In, Releasing
  <2>3. /\ DOMAIN resources \ Releasing = DOMAIN resources
        /\ DOMAIN resources' \ Releasing' = DOMAIN resources \ {o}
    BY <2>2
  <2>4. /\ r \in Nat /\ Total(Shadows, DOMAIN resources \ {o}) \in Nat
        /\ Total(Shadows, DOMAIN resources) =
               Total(Shadows, DOMAIN resources \ {o}) + r
    BY ShadowsFacts
  <2>5. Total(Needs, Inserting) \in Nat /\ Total(Needs, Fitting) \in Nat
    BY NeedsFacts DEF In, Inserting, Fitting
  <2> HIDE DEF o, r
  <2>6. /\ deviceMemory' = deviceMemory - r
        /\ sparseCommittedBytes' = sparseCommittedBytes
    BY DEF o, r
  <2>7. Numbers' /\ Owned'
    <3> HIDE DEF FreeShadow
    <3>1. deviceMemory =
              Total(Shadows, DOMAIN resources \ {o}) + r
                  + Total(Needs, Inserting)
      BY <2>3, <2>4 DEF Owned
    <3>2. deviceMemory' =
              Total(Shadows, DOMAIN resources \ {o}) + Total(Needs, Inserting)
      BY <2>4, <2>5, <2>6, <3>1 DEF Numbers
    <3>3. sparseCommittedBytes \in Nat
      BY DEF Numbers
    <3> HIDE DEF IndInv
    <3>4. Owned'
      BY <2>1, <2>3, <3>2 DEF Owned
    <3>5. Numbers'
      BY <2>4, <2>5, <2>6, <3>2, <3>3 DEF Numbers
    <3>6. QED
      BY <3>4, <3>5
  <2>8. Counted'
    BY <2>1 DEF Counted
  <2>9. Fits'
    BY <2>1, <2>4, <2>5, <2>6, RequestsAssumption DEF Numbers, Fits
  <2>10. QED
    BY <2>7, <2>8, <2>9
<1>5. QED
  BY <1>1, <1>2, <1>3, <1>4

\* The counter goes down by no more than the object counted for.
LEMMA ReleaseInd ==
  ASSUME NEW t \in Threads, IndInv, Release(t)
  PROVE  IndInv'
<1> USE DEF IndInv, Release, Return, driverVars, Goto
<1>1. Types'
  BY DEF Types
<1>2. Objects'
  BY RequestsAssumption DEF Types, Objects, Creators, Destroyers, In
<1>3. MapExact'
  BY DEF Types, MapExact, In, Objects
<1>4. Numbers' /\ Counted' /\ Owned' /\ Fits'
  <2> DEFINE o == obj[t]
             r == resources[o].required
             v == VirtualSize(resources[o])
  <2>1. /\ Counting' = Counting /\ Inserting' = Inserting /\ Fitting' = Fitting
        /\ \A u \in Counting : req'[u] = req[u]
    BY DEF Types, In, Counting, Inserting, Fitting
  <2>2. /\ Counting \in SUBSET Threads /\ Inserting \in SUBSET Counting
        /\ Fitting \in SUBSET Counting
    BY DEF In, Counting, Inserting, Fitting
  <2>3. /\ Total(Needs', Counting) = Total(Needs, Counting)
        /\ Total(Needs', Inserting) = Total(Needs, Inserting)
        /\ Total(Needs', Fitting) = Total(Needs, Fitting)
        /\ Total(Needs, Counting) \in Nat
    BY <2>1, <2>2, NeedsFacts
  <2>4. Releasing = {o} /\ Releasing' = {}
    BY RequestsAssumption DEF Types, Objects, In, Releasing
  <2>5. DOMAIN resources' = DOMAIN resources \ {o}
    OBVIOUS
  <2>6. /\ r \in Nat /\ Total(Shadows, DOMAIN resources \ {o}) \in Nat
        /\ Total(Shadows, DOMAIN resources) =
               Total(Shadows, DOMAIN resources \ {o}) + r
    BY ShadowsFacts
  <2>7. v \in Nat /\ v <= r
    BY RequestsAssumption DEF Types, VirtualSize
  <2>8. Total(Shadows', DOMAIN resources \ {o}) =
            Total(Shadows, DOMAIN resources \ {o})
    <3>1. \A h \in DOMAIN resources \ {o} : Shadows'[h] = Shadows[h]
      BY DEF Shadows
    <3>2. QED
      BY <3>1, TotalSame
  <2>9. /\ sparseCommittedBytes' = sparseCommittedBytes - v
        /\ deviceMemory' = deviceMemory
    OBVIOUS
  <2> HIDE DEF o, r, v
  <2>10. Numbers' /\ Counted'
    <3> HIDE DEF Release
    <3>1. /\ Total(Needs', Counting') = Total(Needs, Counting)
          /\ Total(Shadows', DOMAIN resources') =
                 Total(Shadows, DOMAIN resources) - r
      BY <2>1, <2>3, <2>5, <2>6, <2>8
    <3>2. sparseCommittedBytes - v >=
              Total(Needs, Counting) + Total(Shadows, DOMAIN resources) - r
      BY <2>3, <2>6, <2>7 DEF Numbers, Counted
    <3>3. Total(Shadows, DOMAIN resources) - r \in Nat
      BY <2>6
    <3>4. QED
      BY <2>3, <2>7, <2>9, <3>1, <3>2, <3>3 DEF Numbers, Counted
  <2>11. Owned'
    <3>1. /\ DOMAIN resources \ Releasing = DOMAIN resources \ {o}
          /\ DOMAIN resources' \ Releasing' = DOMAIN resources \ {o}
      BY <2>4, <2>5
    <3>2. QED
      BY <3>1, <2>1, <2>3, <2>8, <2>9 DEF Owned
  <2>12. Fits'
    BY <2>1, <2>3, <2>9 DEF Fits
  <2>13. QED
    BY <2>10, <2>11, <2>12
<1>5. QED
  BY <1>1, <1>2, <1>3, <1>4

-------------------------------------------------------------------------------
(***************************************************************************)
(* The invariant and the theorems.                                         *)
(***************************************************************************)

\* No thread is inside a call and there is no object.
LEMMA InitInd == Init => IndInv
<1> SUFFICES ASSUME Init PROVE IndInv
  OBVIOUS
<1> USE DEF Init
<1>1. Types /\ Numbers
  BY RequestsAssumption DEF Types, Numbers
<1>2. Objects /\ MapExact
  BY RequestsAssumption
     DEF Objects, MapExact, Creators, Destroyers, In, NoRequest
<1>3. /\ Counting = {} /\ Inserting = {} /\ Fitting = {}
      /\ DOMAIN resources = {} /\ DOMAIN resources \ Releasing = {}
  BY DEF Counting, Inserting, Fitting, In
<1> HIDE DEF Init
<1>4. sparseCommittedBytes = 0 /\ deviceMemory = 0
  BY DEF Init
<1>5. Counted /\ Owned /\ Fits
  BY <1>3, <1>4, TotalEmpty, RequestsAssumption DEF Counted, Owned, Fits
<1>6. QED
  BY <1>1, <1>2, <1>5 DEF IndInv

\* Every step preserves the invariant.
LEMMA StepInd == IndInv /\ [Next]_vars => IndInv'
<1> SUFFICES ASSUME IndInv, [Next]_vars PROVE IndInv'
  OBVIOUS
<1>1. ASSUME NEW t \in Threads, NEW h \in Handles, NEW r \in Requests,
             CreateBuffer(t, h, r) \/ CreateImage(t, h, r)
      PROVE  IndInv'
  BY <1>1, CreateInd DEF CreateBuffer, CreateImage
<1>2. ASSUME NEW t \in Threads,
             \/ Reserve(t) \/ Compare(t) \/ Refuse(t) \/ Abandon(t)
             \/ AllocateMemory(t) \/ Insert(t) \/ FreeShadow(t) \/ Release(t)
      PROVE  IndInv'
  BY <1>2, ReserveInd, CompareInd, RefuseInd, AbandonInd, AllocateMemoryInd,
     InsertInd, FreeShadowInd, ReleaseInd
<1>3. ASSUME NEW t \in Threads, NEW h \in Handles, Destroy(t, h)
      PROVE  IndInv'
  BY <1>3, DestroyInd
<1>4. CASE UNCHANGED vars
  <2> USE <1>4 DEF vars, threadVars, driverVars
  <2>1. Types' /\ Numbers'
    BY DEF IndInv, Types, Numbers
  <2>2. Objects' /\ MapExact'
    BY DEF IndInv, Objects, MapExact, Creators, Destroyers, In
  <2>3. /\ Counting' = Counting /\ Inserting' = Inserting /\ Fitting' = Fitting
        /\ Releasing' = Releasing /\ Needs' = Needs /\ Shadows' = Shadows
    BY DEF Counting, Inserting, Fitting, Releasing, Needs, Shadows, In
  <2>4. Counted' /\ Owned' /\ Fits'
    BY <2>3 DEF IndInv, Counted, Owned, Fits
  <2>5. QED
    BY <2>1, <2>2, <2>4 DEF IndInv
<1>5. QED
  BY <1>1, <1>2, <1>3, <1>4 DEF Next

\* The invariant holds in every state.
LEMMA Inductive == Spec => []IndInv
<1>1. QED
  BY InitInd, StepInd, PTL DEF Spec

\* Every variable keeps its type; the counter, which is unsigned in the code,
\* never goes below zero although Release subtracts less than Reserve added
\* (ReserveBudget, DestroyBuffer, DestroyImage).
THEOREM TypeCorrect == Spec => []TypeOK
<1>1. IndInv => TypeOK
  BY DEF IndInv, Types, Numbers, TypeOK
<1>2. QED
  BY <1>1, Inductive, PTL

\* Shadow memory never exceeds the budget, for any interleaving of lock-free
\* reservations, failed creations and destructions (ReserveBudget).
THEOREM BudgetIsKept == Spec => []BudgetKept
<1>1. ASSUME IndInv PROVE BudgetKept
  <2>1. Fitting \in SUBSET Threads
    BY DEF Fitting, In
  <2>2. Total(Needs, Fitting) \in Nat
    BY <1>1, <2>1, NeedsFacts DEF IndInv
  <2>3. QED
    BY <1>1, <2>2, RequestsAssumption DEF IndInv, Numbers, Fits, BudgetKept
<1>2. QED
  BY <1>1, Inductive, PTL

\* The counter never falls below what is allocated and what may still be, so
\* a successful comparison is a right to allocate (ReserveBudget).
THEOREM CounterCovers == Spec => []CommittedCovers
BY CoversByInvariant, Inductive, PTL

\* Every byte of shadow memory belongs to one object in the map or to one
\* thread about to enter one, although the driver reuses the handle of a
\* resource before its object is erased.
THEOREM ShadowsAreOwned == Spec => []ShadowsOwned
<1>1. IndInv => ShadowsOwned
  BY DEF IndInv, Owned, ShadowsOwned, Required, Needs, Shadows, Inserting,
         Releasing
<1>2. QED
  BY <1>1, Inductive, PTL

\* The map has the live handles, but for the ones being created, given up or
\* destroyed at this moment.
THEOREM MapIsExact == Spec => []MapExact
<1>1. IndInv => MapExact
  BY DEF IndInv
<1>2. QED
  BY <1>1, Inductive, PTL

-------------------------------------------------------------------------------
(***************************************************************************)
(* vkQueueBindSparse.                                                      *)
(***************************************************************************)

\* The steps of vkQueueBindSparse.
Steps == {"idle", "prepare", "record", "submit", "wait", "fence", "stuck"}

\* The types of what is kept of the binds.
BindTypeOK ==
    /\ pc \in Steps
    /\ count \in Nat /\ b \in Nat
    /\ call.fence \in BOOLEAN
    /\ Len(call.infos) \in Nat /\ DOMAIN call.infos = 1 .. Len(call.infos)
    /\ executed \in Seq(Nat \X Nat)
    /\ failed \subseteq Nat /\ unwaited \subseteq Nat
    /\ pc # "idle" => call \in Calls /\ b \in DOMAIN call.infos /\ count \notin failed
    /\ \A c \in failed \cup unwaited : c <= count
    /\ fence \in {"unsignaled", "queued", "signaled"}
    /\ DOMAIN sem = AppSemaphores \cup StagingSemaphores

\* What is pending is of a call that failed or whose wait failed, or of the info
\* the call in progress waits for; nothing is pending twice.
Submissions ==
    /\ \A w \in pending :
          /\ w.call \in Nat /\ w.info \in Nat \ {0} /\ w.call <= count
          /\ w.call \in failed \cup unwaited \/ (w.call = count /\ w.info = b /\ pc = "wait")
          /\ w.call = count => /\ w.info <= b
                               /\ w.info = b => pc \in {"wait", "fence", "idle"}
          /\ ~Executed(w.call, w.info)
    /\ \A v, w \in pending : v.call = w.call /\ v.info = w.info => v = w

\* What was executed came in order, but for what calls had left pending, and
\* what is pending comes after what was executed of its call.
InOrder ==
    /\ \A k \in DOMAIN executed :
          /\ executed[k][1] <= count
          /\ executed[k][1] = count =>
               /\ executed[k][2] <= b
               /\ executed[k][2] = b => pc \in {"wait", "fence", "idle"}
    /\ \A i, j \in DOMAIN executed : i < j =>
          IF executed[i][1] = executed[j][1] THEN executed[i][2] < executed[j][2]
          ELSE executed[i][1] < executed[j][1] \/ executed[j][1] \in failed \cup unwaited
    /\ \A w \in pending, k \in DOMAIN executed :
          executed[k][1] = w.call => executed[k][2] < w.info

\* The semaphore is signaled when the i-th info of the call is executed, and
\* nothing waits for it yet.
Follows(s, i) ==
    /\ s \in StagingSemaphores
    /\ sem[s] => Executed(count, i)
    /\ \A w \in pending : s \notin w.waits /\ (s \in w.signals => w.call = count /\ w.info = i)

\* An info waits for a semaphore that only the one before it signals, and the
\* call has such a semaphore for its next info.
Linked ==
    /\ \A w \in pending : w.info > 1 =>
          \E s \in w.waits \cap StagingSemaphores : sem[s] => Executed(w.call, w.info - 1)
    /\ \A v, w \in pending : \A s \in v.signals \cap w.waits \cap StagingSemaphores :
          v.call = w.call /\ w.info = v.info + 1
    /\ pc \in {"prepare", "record", "submit"} =>
          IF b = 1 THEN prev_semaphore = NoSemaphore ELSE Follows(prev_semaphore, b - 1)
    /\ pc \in {"record", "submit"} =>
          IF finalBind THEN next_semaphore = NoSemaphore
          ELSE /\ next_semaphore \in StagingSemaphores /\ next_semaphore # prev_semaphore
               /\ ~sem[next_semaphore]
               /\ \A w \in pending : next_semaphore \notin Intermediate(w)
    /\ pc = "wait" /\ ~finalBind => Follows(next_semaphore, b)

\* An info of the call is executed, or will be.
Done(i) ==
    \/ Executed(count, i)
    \/ \E w \in pending : w.call = count /\ w.info = i

AllDone == \A i \in DOMAIN call.infos : Done(i)

\* Before a later info is begun the earlier ones are submitted, and the fence
\* comes last.
Progress ==
    /\ pc \in {"prepare", "record", "submit", "wait"} => \A i \in 1 .. b - 1 : Done(i)
    /\ pc = "wait" => Done(b)
    /\ pc = "fence" => signalFence /\ AllDone
    /\ pc = "idle" /\ count \notin failed => AllDone
    /\ fence # "unsignaled" => pc = "idle" /\ AllDone
    /\ fence = "signaled" => AllExecuted
    /\ pc = "idle" /\ count \notin failed /\ call.fence /\ call.infos # <<>>
          => fence # "unsignaled"

\* The thread may still use the semaphores of its call.
Chaining == pc \in {"prepare", "record", "submit"} \/ (pc = "wait" /\ ~finalBind)

\* The call's intermediate semaphores exist as long as it may use them.
Chain ==
    /\ stagingSemaphores \subseteq StagingSemaphores
    /\ prev_semaphore \in stagingSemaphores \cup {NoSemaphore}
    /\ next_semaphore \in stagingSemaphores \cup {NoSemaphore}
    /\ Chaining => stagingSemaphores \subseteq live
    /\ pc = "submit" => carried = HandOver

\* Calls whose semaphores may be destroyed under what they left pending.
Undone == unkept \cup (failed \cap unwaited)

\* Semaphores of different calls, and of different batches, are different,
\* and no submission refers to one that was destroyed, but of such a call.
Separate ==
    /\ \A w \in pending :
          /\ w.call \in Undone \/ Intermediate(w) \subseteq live
          /\ w.call # count => Intermediate(w) \cap stagingSemaphores = {}
    /\ \A x \in batches :
          /\ x.call \in Nat /\ x.info \in Nat /\ x.call <= count
          /\ x.sems \subseteq live
          /\ IF x.call = count
             THEN x.sems = {} \/ pc = "idle" \/ (pc \in {"wait", "fence"} /\ finalBind)
             ELSE x.sems \cap stagingSemaphores = {}
    /\ \A x, y \in batches : x # y => x.sems \cap y.sems = {}
    /\ \A x \in batches, w \in pending :
          Intermediate(w) \cap x.sems # {} => w.call = x.call /\ w.info <= x.info

\* Each semaphore that exists is the business of the call or of a batch,
\* unless a call failed.
Settled ==
    failed = {} =>
        /\ live \subseteq (IF Chaining \/ pc = "stuck" THEN stagingSemaphores ELSE {})
                             \cup UNION {x.sems : x \in batches}
        /\ \A x \in batches : x.fenced

\* The inductive invariant.
BindInd ==
    /\ BindTypeOK
    /\ Submissions
    /\ InOrder
    /\ Linked
    /\ Progress
    /\ Chain
    /\ Separate
    /\ Settled

\* What Record changes of all this.
RecordStep ==
    /\ pc = "record" /\ pc' = "submit" /\ carried' = HandOver
    /\ UNCHANGED <<callVars, fence, live, batches, deviceVars, failed, suspect, unwaited,
                   unkept>>

\* What Submit and SubmitFails change of all this.
Submitting ==
    /\ pc = "submit"
    /\ \/ pc' = "wait" /\ failed' = failed /\ pending' = pending \cup {Submission}
       \/ /\ pc' = "idle" /\ failed' = failed \cup {count}
          /\ pending' = pending \/ pending' = pending \cup {Submission}
    /\ \E fenced : Queued(fenced)
    /\ UNCHANGED <<call, count, b, next_semaphore, prev_semaphore, stagingSemaphores,
                   fence, live, executed, sem, unwaited, unkept>>

\* What the application's own steps change of all this.
AppStep ==
    /\ UNCHANGED <<pc, callVars, shotVars, fence, live, batches, pending, executed, failed,
                   unwaited, unkept>>
    /\ DOMAIN sem' = DOMAIN sem
    /\ \A s \in StagingSemaphores : sem'[s] = sem[s]

-------------------------------------------------------------------------------
(***************************************************************************)
(* One lemma per action.                                                   *)
(***************************************************************************)

\* What a submission waits for and signals.
LEMMA SubmissionFacts ==
  ASSUME BindInd, pc = "submit"
  PROVE  /\ Submission.call = count /\ Submission.info = b
         /\ Submission.waits \cap StagingSemaphores = Some(prev_semaphore)
         /\ Submission.signals \cap StagingSemaphores = Some(next_semaphore)
         /\ Intermediate(Submission) \subseteq stagingSemaphores
<1>1. /\ call \in Calls /\ b \in DOMAIN call.infos
      /\ stagingSemaphores \subseteq StagingSemaphores
      /\ prev_semaphore \in stagingSemaphores \cup {NoSemaphore}
      /\ next_semaphore \in stagingSemaphores \cup {NoSemaphore}
  BY DEF BindInd, BindTypeOK, Chain
<1>2. Info.waits \cup Info.signals \subseteq AppSemaphores
  BY <1>1, CallsAssumption DEF Info
<1>3. QED
  BY <1>1, <1>2, SparseAssumption DEF Submission, Some, Intermediate

\* What is done stays so while the device does nothing.
LEMMA DoneKept ==
  ASSUME UNCHANGED <<call, count, pending, executed>>
  PROVE  /\ \A i : (Done(i)' <=> Done(i)) /\ (Executed(count, i)' <=> Executed(count, i))
         /\ AllDone' <=> AllDone
         /\ AllExecuted' <=> AllExecuted
BY DEF Done, AllDone, AllExecuted, Executed

\* A new call; what earlier ones left pending was theirs.
LEMMA QueueBindSparseBindInd ==
  ASSUME NEW c \in Calls, BindInd, QueueBindSparse(c)
  PROVE  BindInd'
<1> USE DEF BindInd, QueueBindSparse, callVars, shotVars, deviceVars, historyVars
<1>1. BindTypeOK'
  <2>1. c.fence \in BOOLEAN /\ c.infos \in Seq({c.infos[i] : i \in DOMAIN c.infos})
    BY CallsAssumption
  <2>2. Len(c.infos) \in Nat /\ DOMAIN c.infos = 1 .. Len(c.infos)
    BY <2>1
  <2>3. c.infos # <<>> => 1 \in DOMAIN c.infos
    BY <2>1, <2>2
  <2>4. /\ count' \in Nat /\ count' \notin failed
        /\ \A k \in failed \cup unwaited : k <= count'
        /\ UNCHANGED <<failed, unwaited, sem>>
    BY DEF BindTypeOK
  <2>5. /\ pc' \in Steps
        /\ pc' # "idle" => c.infos # <<>>
        /\ call' = c /\ b' = 1 /\ executed' = executed /\ fence' = "unsignaled"
    BY DEF Steps
  <2> HIDE DEF QueueBindSparse, BindInd
  <2>6. QED
    BY <2>1, <2>2, <2>3, <2>4, <2>5 DEF BindTypeOK, BindInd
<1>2. Submissions'
  BY DEF Submissions, BindTypeOK, Executed
<1>3. InOrder'
  BY DEF InOrder, BindTypeOK
<1>4. Progress'
  <2>1. /\ pc' \in {"prepare", "idle"} /\ b' = 1 /\ fence' = "unsignaled"
        /\ pc' = "idle" => call'.infos = <<>>
    OBVIOUS
  <2>2. pc' = "idle" => AllDone'
    BY <2>1 DEF AllDone
  <2> HIDE DEF QueueBindSparse
  <2>3. QED
    BY <2>1, <2>2 DEF Progress
<1>5. Chain'
  BY DEF Chain
<1>6. Separate'
  <2>1. count \in Nat /\ count' = count + 1 /\ stagingSemaphores' = {} /\ Undone' = Undone
    BY DEF BindTypeOK, Undone
  <2>2. UNCHANGED <<live, batches, pending>>
    OBVIOUS
  <2> HIDE DEF QueueBindSparse
  <2>3. \A x \in batches : x.call # count'
    BY <2>1 DEF Separate
  <2>4. QED
    BY <2>1, <2>2, <2>3 DEF Separate, Intermediate
<1>7. Settled'
  BY DEF Settled, Chaining
<1>8. Linked'
  BY DEF Linked, Follows, Executed, BindTypeOK, finalBind, Intermediate
<1>9. QED
  BY <1>1, <1>2, <1>3, <1>4, <1>5, <1>6, <1>7, <1>8

\* The new semaphore is one that no submission refers to.
LEMMA PrepareBindInd ==
  ASSUME BindInd, Prepare
  PROVE  BindInd'
<1> USE DEF BindInd, Prepare, callVars, shotVars, deviceVars, historyVars
<1>1. BindTypeOK'
  BY DEF BindTypeOK, Steps
<1>2. Submissions'
  BY DEF Submissions, Executed
<1>3. InOrder'
  BY DEF InOrder
<1>4. Progress'
  BY DoneKept DEF Progress
<1>5. Chain'
  BY DEF Chain, Chaining
<1>6. Separate'
  <2>1. /\ pc = "prepare" /\ pc' = "record" /\ Undone' = Undone
        /\ UNCHANGED <<call, count, b, batches, pending>>
    BY DEF Undone
  <2>2. CASE finalBind
    BY <2>1, <2>2 DEF Separate, Intermediate, finalBind
  <2>3. CASE ~finalBind
    <3>1. PICK s \in StagingSemaphores \ live :
            /\ \A w \in pending : s \notin Intermediate(w)
            /\ live' = live \cup {s} /\ stagingSemaphores' = stagingSemaphores \cup {s}
      BY <2>3
    <3>2. \A x \in batches : s \notin x.sems
      BY <3>1 DEF Separate
    <3> HIDE DEF Prepare
    <3>3. QED
      BY <2>1, <3>1, <3>2 DEF Separate, Intermediate, finalBind
  <2>4. QED
    BY <2>2, <2>3
<1>7. Settled'
  BY DEF Settled, Chaining
<1>8. Linked'
  <2>1. /\ pc = "prepare" /\ pc' = "record"
        /\ UNCHANGED <<call, count, b, prev_semaphore, pending, executed>>
    OBVIOUS
  <2>2. /\ \A r \in StagingSemaphores : sem'[r] => sem[r]
        /\ IF finalBind THEN next_semaphore' = NoSemaphore
           ELSE /\ next_semaphore' \in StagingSemaphores /\ next_semaphore' # prev_semaphore
                /\ ~sem'[next_semaphore']
                /\ \A w \in pending : next_semaphore' \notin Intermediate(w)
    <3>1. CASE finalBind
      BY <3>1
    <3>2. CASE ~finalBind
      <4>1. PICK s \in StagingSemaphores \ live :
              /\ \A w \in pending : s \notin Intermediate(w)
              /\ next_semaphore' = s /\ sem' = [sem EXCEPT ![s] = FALSE]
        BY <3>2
      <4>2. prev_semaphore # s
        BY <4>1, SparseAssumption DEF Chain, Chaining
      <4>3. s \in DOMAIN sem
        BY <4>1 DEF BindTypeOK
      <4> HIDE DEF Prepare
      <4>4. QED
        BY <3>2, <4>1, <4>2, <4>3
    <3>3. QED
      BY <3>1, <3>2
  <2>3. finalBind' = finalBind
    BY <2>1 DEF finalBind
  <2> HIDE DEF Prepare
  <2>4. QED
    BY <2>1, <2>2, <2>3 DEF Linked, Follows, Executed, Intermediate
<1>9. QED
  BY <1>1, <1>2, <1>3, <1>4, <1>5, <1>6, <1>7, <1>8

\* The call fails before its submission.
LEMMA PrepareFailsBindInd ==
  ASSUME BindInd, PrepareFails
  PROVE  BindInd'
<1> USE DEF BindInd, PrepareFails, Fail, callVars, shotVars, deviceVars, historyVars
<1>1. BindTypeOK'
  <2>1. /\ pc' = "idle" /\ failed' = failed \cup {count}
        /\ UNCHANGED <<call, count, b, fence, executed, unwaited, sem>>
    OBVIOUS
  <2> HIDE DEF PrepareFails
  <2>2. QED
    BY <2>1 DEF BindTypeOK, Steps, BindInd
<1>2. Submissions'
  BY DEF Submissions, Executed
<1>3. InOrder'
  BY DEF InOrder
<1>4. Progress'
  BY DEF Progress
<1>5. Chain'
  BY DEF Chain, Chaining
<1>6. Separate'
  BY DEF Separate, Undone, Intermediate, finalBind
<1>7. Settled'
  BY DEF Settled
<1>8. Linked'
  BY DEF Linked, Follows, Executed, BindTypeOK, finalBind, Intermediate
<1>9. QED
  BY <1>1, <1>2, <1>3, <1>4, <1>5, <1>6, <1>7, <1>8

\* Only the command buffer and the resources are touched.
LEMMA RecordBindInd ==
  ASSUME BindInd, RecordStep
  PROVE  BindInd'
<1> USE DEF BindInd, RecordStep, callVars, shotVars, deviceVars, historyVars
<1>1. BindTypeOK'
  BY DEF BindTypeOK, Steps
<1>2. Submissions'
  BY DEF Submissions, Executed
<1>3. InOrder'
  BY DEF InOrder
<1>4. Progress'
  BY DoneKept DEF Progress
<1>5. Chain'
  BY DEF Chain, Chaining, finalBind, HandOver
<1>6. Separate'
  BY DEF Separate, Undone, Intermediate, finalBind
<1>7. Settled'
  BY DEF Settled, Chaining
<1>8. Linked'
  BY DEF Linked, Follows, Executed, BindTypeOK, finalBind, Intermediate
<1>9. QED
  BY <1>1, <1>2, <1>3, <1>4, <1>5, <1>6, <1>7, <1>8

\* The thread has locked itself out, or the call fails.
LEMMA RecordFailsBindInd ==
  ASSUME BindInd, RecordFails
  PROVE  BindInd'
<1> USE DEF BindInd, RecordFails, Fail, callVars, shotVars, deviceVars, historyVars
<1>1. BindTypeOK'
  <2>1. /\ pc \in {"record", "submit"} /\ pc' \in {"idle", "stuck"}
        /\ UNCHANGED <<call, count, b, fence, executed, unwaited, sem>>
    OBVIOUS
  <2>2. CASE pc' = "stuck" /\ failed' = failed
    BY <2>1, <2>2 DEF BindTypeOK, Steps
  <2>3. CASE pc' = "idle" /\ failed' = failed \cup {count}
    <3> HIDE DEF RecordFails
    <3>1. count \in Nat /\ \A c \in failed \cup unwaited : c <= count
      BY DEF BindInd, BindTypeOK
    <3>2. count <= count /\ \A c \in failed' \cup unwaited' : c <= count'
      BY <2>1, <2>3, <3>1
    <3>3. QED
      BY <2>1, <2>3, <3>2 DEF BindInd, BindTypeOK, Steps
  <2>4. QED
    BY <2>2, <2>3
<1>2. Submissions'
  BY DEF Submissions, Executed
<1>3. InOrder'
  <2>1. pc \in {"record", "submit"} /\ pc' \in {"idle", "stuck"}
    OBVIOUS
  <2>2. UNCHANGED <<callVars, executed, pending, unwaited>> /\ failed \subseteq failed'
    OBVIOUS
  <2> HIDE DEF RecordFails
  <2>3. QED
    BY <2>1, <2>2 DEF BindTypeOK, InOrder
<1>4. Progress'
  BY DEF Progress
<1>5. Chain'
  BY DEF Chain, Chaining
<1>6. Separate'
  <2>1. /\ pc \in {"record", "submit"} /\ pc' \in {"idle", "stuck"}
        /\ pc = "submit" => carried = HandOver
        /\ UNCHANGED <<call, count, b, stagingSemaphores, batches, pending, unwaited, unkept>>
        /\ \/ live' = live /\ failed \subseteq failed'
           \/ pc = "submit" /\ live' = live \ carried /\ failed' = failed \cup {count}
    BY DEF Chain
  <2>2. \A w \in pending : w.call = count => count \in unwaited
    BY <2>1 DEF Submissions, BindTypeOK
  <2>3. \A x \in batches : x.call = count => x.sems = {}
    BY <2>1 DEF Separate
  <2>4. /\ \A w \in pending : w.call # count => Intermediate(w) \cap carried = {} \/ live' = live
        /\ \A x \in batches : x.sems \subseteq live'
    BY <2>1, <2>3 DEF Separate, HandOver
  <2>5. \A w \in pending : w.call \in Undone' \/ Intermediate(w) \subseteq live'
    BY <2>1, <2>2, <2>4 DEF Separate, Undone
  <2> HIDE DEF RecordFails
  <2>6. QED
    BY <2>1, <2>3, <2>4, <2>5 DEF Separate, Intermediate
<1>7. Settled'
  BY DEF Settled
<1>8. Linked'
  BY DEF Linked, Follows, Executed, BindTypeOK, finalBind, Intermediate
<1>9. QED
  BY <1>1, <1>2, <1>3, <1>4, <1>5, <1>6, <1>7, <1>8

\* The submission is pending, was not executed, and comes after what is.
LEMMA SubmittingInd ==
  ASSUME BindInd, Submitting
  PROVE  /\ BindTypeOK' /\ Submissions' /\ InOrder' /\ Linked' /\ Progress' /\ Chain'
         /\ Separate'
<1>1. /\ pc = "submit" /\ pc' \in {"wait", "idle"}
      /\ pc' = "wait" => failed' = failed /\ pending' = pending \cup {Submission}
      /\ pc' = "idle" => failed' = failed \cup {count}
      /\ pending' = pending \/ pending' = pending \cup {Submission}
      /\ UNCHANGED <<call, count, b, next_semaphore, prev_semaphore, stagingSemaphores,
                     fence, live, executed, sem, unwaited, unkept>>
  BY DEF Submitting
<1>2. /\ count \in Nat /\ b \in Nat /\ b >= 1 /\ count \notin failed /\ call \in Calls
      /\ b \in DOMAIN call.infos /\ fence = "unsignaled"
  BY <1>1 DEF BindInd, BindTypeOK, Progress
<1>3. /\ Submission.call = count /\ Submission.info = b
      /\ Submission.waits \cap StagingSemaphores = Some(prev_semaphore)
      /\ Submission.signals \cap StagingSemaphores = Some(next_semaphore)
      /\ Intermediate(Submission) \subseteq stagingSemaphores
  BY <1>1, SubmissionFacts
<1>4. \A k \in DOMAIN executed : executed[k][1] = count => executed[k][2] < b
  <2>1. executed \in Seq(Nat \X Nat)
    BY DEF BindInd, BindTypeOK
  <2>2. \A k \in DOMAIN executed : executed[k] \in Nat \X Nat
    BY <2>1
  <2>3. QED
    BY <1>1, <1>2, <2>2 DEF BindInd, InOrder
<1>5. ~Executed(count, b)
  BY <1>2, <1>4 DEF Executed
<1>6. \A v \in pending' : v \in pending \/ v = Submission
  BY <1>1
<1>7. \A v \in pending : v.call = count => v.info < b /\ v.call \in unwaited
  BY <1>1, <1>2 DEF BindInd, Submissions
<1> HIDE DEF Submission
<1>8. BindTypeOK'
  <2>1. \A c \in failed' \cup unwaited' : c <= count'
    <3>1. \A c \in failed \cup unwaited : c <= count
      BY DEF BindInd, BindTypeOK
    <3>2. failed' \subseteq failed \cup {count} /\ count <= count
      BY <1>1, <1>2
    <3>3. QED
      BY <1>1, <3>1, <3>2
  <2>2. QED
    BY <1>1, <1>2, <2>1 DEF BindInd, BindTypeOK, Steps
<1>9. Submissions'
  <2>1. \A v \in pending' : ~Executed(v.call, v.info)'
    BY <1>1, <1>3, <1>5, <1>6 DEF BindInd, Submissions, Executed
  <2>2. \A v, w \in pending' : v.call = w.call /\ v.info = w.info => v = w
    BY <1>2, <1>3, <1>6, <1>7 DEF BindInd, Submissions
  <2>3. \A v \in pending :
          /\ v.call \in failed' \cup unwaited
          /\ v.call = count => v.info <= b /\ v.info # b
    BY <1>1, <1>2, <1>7 DEF BindInd, Submissions
  <2>4. pc' = "wait" \/ count \in failed'
    BY <1>1
  <2>5. QED
    BY <1>1, <1>2, <1>3, <1>6, <2>1, <2>2, <2>3, <2>4 DEF BindInd, Submissions
<1>10. InOrder'
  <2>1. \A w \in pending', k \in DOMAIN executed :
          executed[k][1] = w.call => executed[k][2] < w.info
    BY <1>3, <1>4, <1>6 DEF BindInd, InOrder
  <2>2. failed \subseteq failed'
    BY <1>1
  <2>3. QED
    BY <1>1, <2>1, <2>2 DEF BindInd, InOrder
<1>11. Linked'
  <2>1. IF b = 1 THEN prev_semaphore = NoSemaphore ELSE Follows(prev_semaphore, b - 1)
    BY <1>1 DEF BindInd, Linked
  <2>2. IF finalBind THEN next_semaphore = NoSemaphore
        ELSE /\ next_semaphore \in StagingSemaphores /\ next_semaphore # prev_semaphore
             /\ ~sem[next_semaphore]
             /\ \A w \in pending : next_semaphore \notin Intermediate(w)
    BY <1>1 DEF BindInd, Linked
  <2>3. ASSUME NEW w \in pending', w.info > 1
        PROVE  \E s \in w.waits \cap StagingSemaphores :
                  sem[s] => Executed(w.call, w.info - 1)
    <3>1. CASE w \in pending
      BY <2>3, <3>1 DEF BindInd, Linked
    <3>2. CASE w = Submission
      <4>1. Follows(prev_semaphore, b - 1)
        BY <1>3, <2>1, <2>3, <3>2
      <4>2. /\ prev_semaphore \in Submission.waits \cap StagingSemaphores
            /\ sem[prev_semaphore] => Executed(count, b - 1)
        BY <1>3, <4>1, SparseAssumption DEF Follows, Some
      <4>3. QED
        BY <1>3, <3>2, <4>2
    <3>3. QED
      BY <1>6, <3>1, <3>2
  <2>4. ASSUME NEW v \in pending', NEW w \in pending',
               NEW s \in v.signals \cap w.waits \cap StagingSemaphores
        PROVE  v.call = w.call /\ w.info = v.info + 1
    <3>1. CASE v \in pending /\ w \in pending
      BY <2>4, <3>1 DEF BindInd, Linked
    <3>2. CASE v \in pending /\ w = Submission
      <4>1. s = prev_semaphore /\ s # NoSemaphore
        BY <1>3, <2>4, <3>2 DEF Some
      <4>2. b # 1 /\ v.call = count /\ v.info = b - 1
        BY <2>1, <2>4, <3>2, <4>1 DEF Follows
      <4>3. QED
        BY <1>2, <1>3, <3>2, <4>2
    <3>3. CASE v = Submission
      <4>1. s = next_semaphore /\ s # NoSemaphore
        BY <1>3, <2>4, <3>3 DEF Some
      <4>2. w \notin pending
        BY <2>2, <2>4, <4>1 DEF Intermediate
      <4>3. s = prev_semaphore
        BY <1>3, <1>6, <2>4, <4>2 DEF Some
      <4>4. QED
        BY <2>2, <4>1, <4>3
    <3>4. QED
      BY <1>6, <3>1, <3>2, <3>3
  <2>5. ~finalBind /\ pc' = "wait" =>
          /\ next_semaphore \in StagingSemaphores /\ ~sem[next_semaphore]
          /\ \A w \in pending' :
                /\ next_semaphore \notin w.waits
                /\ next_semaphore \in w.signals => w.call = count /\ w.info = b
    <3>1. next_semaphore \in StagingSemaphores /\ next_semaphore # prev_semaphore =>
            next_semaphore \notin Submission.waits
      BY <1>3 DEF Some
    <3>2. QED
      BY <1>3, <1>6, <2>2, <3>1 DEF Intermediate
  <2>6. UNCHANGED finalBind
    BY <1>1 DEF finalBind
  <2>7. QED
    BY <1>1, <2>3, <2>4, <2>5, <2>6 DEF Linked, Follows, Executed
<1>12. Progress'
  <2>1. \A i \in 1 .. b - 1 : Done(i)
    BY <1>1 DEF BindInd, Progress
  <2>2. \A i : Done(i) => Done(i)'
    BY <1>1 DEF Done, Executed
  <2>3. pc' = "wait" => Done(b)'
    BY <1>1, <1>3 DEF Done
  <2>4. pc' = "idle" => count \in failed'
    BY <1>1
  <2>5. QED
    BY <1>1, <1>2, <2>1, <2>2, <2>3, <2>4 DEF Progress
<1>13. Chain'
  BY <1>1 DEF BindInd, Chain, Chaining, finalBind
<1>14. Separate'
  <2>1. carried \subseteq stagingSemaphores /\ (carried # {} => finalBind)
        /\ stagingSemaphores \subseteq live
    BY <1>1 DEF BindInd, Chain, Chaining, HandOver
  <2>2. \A y \in batches : y.sems \cap stagingSemaphores = {}
    BY <1>1 DEF BindInd, Separate
  <2>3. \A v \in pending' :
          /\ v.call \in Undone' \/ Intermediate(v) \subseteq live
          /\ v.call # count => Intermediate(v) \cap stagingSemaphores = {}
    <3>1. Undone \subseteq Undone'
      BY <1>1 DEF Undone
    <3>2. QED
      BY <1>1, <1>3, <1>6, <2>1, <3>1 DEF BindInd, Separate
  <2>4. \A y \in batches, v \in pending' :
          Intermediate(v) \cap y.sems # {} => v.call = y.call /\ v.info <= y.info
    BY <1>3, <1>6, <2>2 DEF BindInd, Separate
  <2>5. /\ \A v \in pending' : (Intermediate(v) \subseteq live)' <=> Intermediate(v) \subseteq live
        /\ finalBind' = finalBind
    BY <1>1 DEF Intermediate, finalBind
  <2>6. \/ batches' = batches
        \/ \E x : /\ batches' = batches \cup {x}
                  /\ x.call = count /\ x.info = b /\ x.sems = carried
    <3>1. PICK fenced : Queued(fenced)
      BY DEF Submitting
    <3> DEFINE x == [call |-> count, info |-> b, sems |-> carried, fenced |-> fenced]
    <3>2. x.call = count /\ x.info = b /\ x.sems = carried
      OBVIOUS
    <3>3. batches' = batches \/ batches' = batches \cup {x}
      BY <3>1 DEF Queued
    <3> HIDE DEF x
    <3>4. QED
      BY <3>2, <3>3
  <2>7. CASE batches' = batches
    <3>1. \A y \in batches :
            /\ y.call \in Nat /\ y.info \in Nat /\ y.call <= count /\ y.sems \subseteq live
            /\ IF y.call = count THEN y.sems = {} ELSE y.sems \cap stagingSemaphores = {}
      BY <1>1 DEF BindInd, Separate
    <3>2. \A y, z \in batches : y # z => y.sems \cap z.sems = {}
      BY DEF BindInd, Separate
    <3>3. QED
      BY <1>1, <2>3, <2>4, <2>7, <3>1, <3>2 DEF Separate, Intermediate
  <2>8. ASSUME NEW x, batches' = batches \cup {x},
               x.call = count, x.info = b, x.sems = carried
        PROVE  Separate'
    <3>1. \A y \in batches', v \in pending' :
            Intermediate(v) \cap y.sems # {} => v.call = y.call /\ v.info <= y.info
      <4>1. \A v \in pending' : v.call = count => v.info <= b
        BY <1>2, <1>3, <1>6, <1>7 DEF BindInd, Submissions
      <4>2. QED
        BY <2>1, <2>3, <2>4, <2>8, <4>1
    <3>2. \A y, z \in batches' : y # z => y.sems \cap z.sems = {}
      BY <2>1, <2>2, <2>8 DEF BindInd, Separate
    <3>3. \A y \in batches' :
            /\ y.call \in Nat /\ y.info \in Nat /\ y.call <= count /\ y.sems \subseteq live
            /\ IF y.call = count THEN y.sems = {} \/ finalBind
                                 ELSE y.sems \cap stagingSemaphores = {}
      <4>1. \A y \in batches :
              /\ y.call \in Nat /\ y.info \in Nat /\ y.call <= count /\ y.sems \subseteq live
              /\ IF y.call = count THEN y.sems = {} ELSE y.sems \cap stagingSemaphores = {}
        BY <1>1 DEF BindInd, Separate
      <4>2. QED
        BY <1>2, <2>1, <2>8, <4>1
    <3>4. QED
      BY <1>1, <2>3, <2>5, <3>1, <3>2, <3>3 DEF Separate, Intermediate
  <2>9. QED
    BY <2>6, <2>7, <2>8
<1>15. QED
  BY <1>8, <1>9, <1>10, <1>11, <1>12, <1>13, <1>14

\* The submission is pending, and its resources are queued.
LEMMA SubmitBindInd ==
  ASSUME BindInd, Submit
  PROVE  BindInd'
<1>1. Submitting
  BY DEF Submit, Submitting, callVars, historyVars
<1>2. Settled'
  <2> SUFFICES ASSUME failed = {} PROVE Settled'
    BY DEF Settled, Submit, historyVars
  <2>1. /\ pc = "submit" /\ Chaining /\ carried = HandOver
        /\ live \subseteq stagingSemaphores \cup UNION {x.sems : x \in batches}
        /\ \A x \in batches : x.fenced
    BY DEF BindInd, Submit, Settled, Chaining, Chain
  <2>2. pc' = "wait" /\ UNCHANGED <<live, b, call, stagingSemaphores>>
    BY DEF Submit, callVars
  <2>3. CASE carried = {} /\ ~buffers
    <3>1. batches' = batches
      BY <2>3 DEF Submit, Queued
    <3>2. finalBind => stagingSemaphores = {}
      BY <2>1, <2>3 DEF HandOver
    <3>3. QED
      BY <2>1, <2>2, <3>1, <3>2 DEF Settled, Chaining, finalBind
  <2>4. CASE carried # {} \/ buffers
    <3> DEFINE x == [call |-> count, info |-> b, sems |-> carried, fenced |-> TRUE]
    <3>1. batches' = batches \cup {x} /\ x.sems = carried /\ x.fenced = TRUE
      BY <2>4 DEF Submit, Queued
    <3>2. finalBind => carried = stagingSemaphores
      BY <2>1 DEF HandOver
    <3> HIDE DEF x
    <3>3. UNION {y.sems : y \in batches} \subseteq UNION {y.sems : y \in batches'}
      BY <3>1
    <3>4. finalBind => stagingSemaphores \subseteq UNION {y.sems : y \in batches'}
      BY <3>1, <3>2
    <3>5. \A y \in batches' : y.fenced
      BY <2>1, <3>1
    <3>6. QED
      BY <2>1, <2>2, <3>3, <3>4, <3>5 DEF Settled, Chaining, finalBind
  <2>5. QED
    BY <2>3, <2>4
<1>3. QED
  BY <1>1, <1>2, SubmittingInd DEF BindInd

\* The call fails; what was submitted stays pending.
LEMMA SubmitFailsBindInd ==
  ASSUME BindInd, SubmitFails
  PROVE  BindInd'
<1>1. Submitting
  BY DEF SubmitFails, Submitting, Fail, callVars
<1>2. Settled'
  BY DEF Settled, SubmitFails, Fail
<1>3. QED
  BY <1>1, <1>2, SubmittingInd DEF BindInd

\* The next info, or the fence, or the end, with the submission executed or
\* pending.
LEMMA WaitedBindInd ==
  ASSUME BindInd, Waited, UNCHANGED <<failed, unkept>>,
         \/ Executed(count, b) /\ unwaited' = unwaited
         \/ unwaited' = unwaited \cup {count}
  PROVE  BindInd'
<1>1. /\ pc = "wait" /\ call \in Calls /\ b \in DOMAIN call.infos /\ b \in Nat /\ count \in Nat
      /\ DOMAIN call.infos = 1 .. Len(call.infos) /\ Len(call.infos) \in Nat
      /\ count \notin failed /\ fence = "unsignaled"
      /\ (\A i \in 1 .. b - 1 : Done(i)) /\ Done(b)
  BY DEF Waited, BindInd, BindTypeOK, Progress
<1>2. /\ UNCHANGED <<call, count, next_semaphore, stagingSemaphores, carried, fence, live,
                     batches, pending, executed, sem, failed, unkept>>
      /\ unwaited \subseteq unwaited'
  BY DEF Waited, Advance, callVars, shotVars, deviceVars
<1>3. \/ signalFence /\ pc' = "fence" /\ b' = b /\ prev_semaphore' = prev_semaphore
      \/ ~signalFence /\ finalBind /\ pc' = "idle" /\ b' = b /\ prev_semaphore' = prev_semaphore
      \/ ~finalBind /\ pc' = "prepare" /\ b' = b + 1 /\ prev_semaphore' = next_semaphore
  BY DEF Waited, Advance, callVars, signalFence
<1>4. /\ ~finalBind => b + 1 \in DOMAIN call.infos
      /\ b' \in Nat /\ b <= b'
  BY <1>1, <1>3 DEF finalBind
<1>5. \A c \in failed \cup unwaited' : c <= count
  BY <1>1 DEF BindInd, BindTypeOK
<1>6. BindTypeOK'
  BY <1>1, <1>2, <1>3, <1>4, <1>5 DEF BindInd, BindTypeOK, Steps
<1>7. Submissions'
  <2>1. \A w \in pending : /\ w.call \in Nat /\ w.info \in Nat
                           /\ w.call = count /\ w.info = b /\ unwaited' = unwaited =>
                                w.call \in unwaited
                           /\ w.call \in failed \cup unwaited'
    BY DEF BindInd, Submissions
  <2>2. \A w \in pending : w.call = count =>
          w.info <= b' /\ (w.info = b' => pc' \in {"fence", "idle"})
    BY <1>1, <1>3 DEF BindInd, Submissions
  <2>3. QED
    BY <1>2, <2>1, <2>2 DEF BindInd, Submissions, Executed
<1>8. InOrder'
  <2>1. executed \in Seq(Nat \X Nat)
    BY DEF BindInd, BindTypeOK
  <2>2. \A k \in DOMAIN executed : executed[k][2] \in Nat
    BY <2>1
  <2>3. \A k \in DOMAIN executed : executed[k][1] = count =>
          executed[k][2] <= b' /\ (executed[k][2] = b' => pc' \in {"fence", "idle"})
    BY <1>1, <1>3, <2>2 DEF BindInd, InOrder
  <2>4. QED
    BY <1>2, <2>3 DEF BindInd, InOrder
<1>9. Linked'
  <2>1. ~finalBind => Follows(next_semaphore, b)
    BY <1>1 DEF BindInd, Linked
  <2>3. ~finalBind => (b' # 1 /\ b' - 1 = b)
    BY <1>1, <1>3 DEF signalFence
  <2>4. /\ \A w \in pending : w.info > 1 =>
              \E s \in w.waits \cap StagingSemaphores : sem[s] => Executed(w.call, w.info - 1)
        /\ \A v, w \in pending : \A s \in v.signals \cap w.waits \cap StagingSemaphores :
              v.call = w.call /\ w.info = v.info + 1
    BY DEF BindInd, Linked
  <2>5. ~finalBind => /\ next_semaphore \in StagingSemaphores
                      /\ sem[next_semaphore] => Executed(count, b)
                      /\ \A w \in pending :
                            /\ next_semaphore \notin w.waits
                            /\ next_semaphore \in w.signals => w.call = count /\ w.info = b
    BY <2>1 DEF Follows
  <2>6. QED
    BY <1>2, <1>3, <2>3, <2>4, <2>5 DEF Linked, Follows, Executed
<1>10. Progress'
  <2>1. /\ \A i : Done(i)' <=> Done(i)
        /\ AllDone' <=> AllDone
    BY <1>2, DoneKept
  <2>2. \A i \in 1 .. b : Done(i)
    BY <1>1
  <2>3. finalBind => AllDone
    BY <1>1, <2>2 DEF finalBind, AllDone
  <2>4. pc' = "prepare" => \A i \in 1 .. b' - 1 : Done(i)'
    BY <1>1, <1>3, <2>1, <2>2
  <2>5. finalBind /\ b' = b => finalBind'
    BY <1>2 DEF finalBind
  <2>6. signalFence => finalBind /\ call.fence
    BY DEF signalFence
  <2>7. signalFence <=> finalBind /\ call.fence
    BY DEF signalFence
  <2>8. pc' = "fence" => signalFence' /\ AllDone'
    BY <1>2, <1>3, <2>1, <2>3, <2>5, <2>6 DEF signalFence
  <2>9. pc' = "idle" => AllDone' /\ ~call'.fence
    BY <1>2, <1>3, <2>1, <2>3, <2>7
  <2>10. pc' \in {"prepare", "fence", "idle"}
    BY <1>3
  <2>11. QED
    BY <1>1, <1>2, <2>4, <2>8, <2>9, <2>10 DEF Progress
<1>11. Chain'
  BY <1>1, <1>2, <1>3 DEF BindInd, Chain, Chaining
<1>12. Separate'
  <2>1. /\ \A w \in pending :
              /\ w.call \in Undone' \/ Intermediate(w) \subseteq live
              /\ w.call # count => Intermediate(w) \cap stagingSemaphores = {}
    BY <1>2 DEF BindInd, Separate, Undone
  <2>2. \A x \in batches :
          /\ x.call \in Nat /\ x.info \in Nat /\ x.call <= count
          /\ x.sems \subseteq live
          /\ IF x.call = count THEN x.sems = {} \/ finalBind
             ELSE x.sems \cap stagingSemaphores = {}
    BY <1>1 DEF BindInd, Separate
  <2>3. finalBind => finalBind' /\ pc' \in {"fence", "idle"}
    BY <1>2, <1>3 DEF finalBind
  <2>4. QED
    BY <1>2, <2>1, <2>2, <2>3 DEF BindInd, Separate, Intermediate
<1>13. Settled'
  <2>1. Chaining <=> ~finalBind
    BY <1>1 DEF Chaining
  <2>2. ~finalBind => Chaining'
    BY <1>2, <1>3, <1>4 DEF Chaining, signalFence, finalBind
  <2>3. QED
    BY <1>1, <1>2, <2>1, <2>2 DEF BindInd, Settled
<1>14. QED
  BY <1>6, <1>7, <1>8, <1>9, <1>10, <1>11, <1>12, <1>13 DEF BindInd

\* The submission was executed.
LEMMA WaitBindInd ==
  ASSUME BindInd, Wait
  PROVE  BindInd'
BY WaitedBindInd DEF Wait, historyVars

\* It is pending.
LEMMA WaitFailsBindInd ==
  ASSUME BindInd, WaitFails
  PROVE  BindInd'
BY WaitedBindInd DEF WaitFails

\* All infos are executed.
LEMMA SignalFenceBindInd ==
  ASSUME BindInd, SignalFence
  PROVE  BindInd'
<1>0. pc = "fence" /\ pc' = "idle" /\ b' = b /\ UNCHANGED <<count, call, pending, executed>>
  BY DEF BindInd, Progress, SignalFence, Advance, signalFence, deviceVars
<1> USE DEF BindInd, SignalFence, Advance, callVars, shotVars, deviceVars, historyVars
<1>1. BindTypeOK'
  BY SparseAssumption DEF BindTypeOK, finalBind, Steps
<1>2. Submissions'
  BY <1>0 DEF Submissions, Executed
<1>3. InOrder'
  BY DEF InOrder, BindTypeOK
<1>4. Progress'
  BY DoneKept DEF Progress, signalFence, finalBind
<1>5. Chain'
  BY DEF Chain, Progress, Chaining, signalFence
<1>6. Separate'
  BY DEF Separate, Undone, Intermediate, finalBind
<1>7. Settled'
  BY DEF Settled, Chaining
<1>8. Linked'
  BY <1>0 DEF Linked, Follows, Executed, BindTypeOK, finalBind, Intermediate
<1>9. QED
  BY <1>1, <1>2, <1>3, <1>4, <1>5, <1>6, <1>7, <1>8

\* The call fails.
LEMMA SignalFenceFailsBindInd ==
  ASSUME BindInd, SignalFenceFails
  PROVE  BindInd'
<1> USE DEF BindInd, SignalFenceFails, Fail, callVars, shotVars, deviceVars, historyVars
<1>1. BindTypeOK'
  <2>1. /\ pc' = "idle" /\ failed' = failed \cup {count} /\ count \in Nat
        /\ UNCHANGED <<call, count, b, fence, executed, unwaited, sem>>
    BY DEF BindTypeOK
  <2> HIDE DEF SignalFenceFails
  <2>2. QED
    BY <2>1 DEF BindTypeOK, Steps, BindInd
<1>2. Submissions'
  BY DEF Submissions, Executed
<1>3. InOrder'
  BY DEF InOrder
<1>4. Progress'
  BY DEF Progress
<1>5. Chain'
  BY DEF Chain, Chaining
<1>6. Separate'
  BY DEF Separate, Undone, Intermediate, finalBind
<1>7. Settled'
  BY DEF Settled
<1>8. Linked'
  BY DEF Linked, Follows, Executed, BindTypeOK, finalBind, Intermediate
<1>9. QED
  BY <1>1, <1>2, <1>3, <1>4, <1>5, <1>6, <1>7, <1>8

\* What is executed is the info the call waits for, or of a call that failed.
LEMMA ExecuteBindInd ==
  ASSUME NEW w \in pending, BindInd, Execute(w)
  PROVE  BindInd'
<1>1. /\ executed \in Seq(Nat \X Nat) /\ executed' = Append(executed, <<w.call, w.info>>)
      /\ pending' = pending \ {w} /\ \A s \in w.waits : sem[s]
      /\ sem' = [s \in DOMAIN sem |-> s \in w.signals \/ (sem[s] /\ s \notin w.waits)]
      /\ UNCHANGED <<pc, call, count, b, next_semaphore, prev_semaphore, stagingSemaphores,
                     carried, fence, live, batches, failed, unwaited, unkept>>
  BY DEF Execute, BindInd, BindTypeOK, callVars, shotVars, historyVars
<1>2. /\ w.call \in Nat /\ w.info \in Nat /\ w.call <= count /\ count \in Nat /\ b \in Nat
      /\ w.call \in failed \cup unwaited \/ (w.call = count /\ w.info = b /\ pc = "wait")
      /\ w.call = count => w.info <= b /\ (w.info = b => pc \in {"wait", "fence", "idle"})
      /\ ~Executed(w.call, w.info)
  BY DEF BindInd, BindTypeOK, Submissions
<1>3. /\ DOMAIN executed' = DOMAIN executed \cup {Len(executed) + 1}
      /\ DOMAIN executed = 1 .. Len(executed) /\ Len(executed) \in Nat
      /\ \A k \in DOMAIN executed : executed'[k] = executed[k] /\ executed[k] \in Nat \X Nat
      /\ executed'[Len(executed) + 1] = <<w.call, w.info>>
  BY <1>1
<1>4. /\ \A k \in DOMAIN executed' :
            executed'[k] = <<w.call, w.info>> \/ (k \in DOMAIN executed /\ executed'[k] = executed[k])
      /\ executed' \in Seq(Nat \X Nat)
  BY <1>1, <1>2, <1>3
<1>5. /\ \A c, i : Executed(c, i) => Executed(c, i)'
      /\ \A c, i : c = w.call /\ i = w.info => Executed(c, i)'
      /\ \A i : Executed(count, i) => Executed(count, i)'
  BY <1>1, <1>3 DEF Executed
<1>6. /\ DOMAIN sem' = DOMAIN sem /\ DOMAIN sem = AppSemaphores \cup StagingSemaphores
      /\ \A s \in StagingSemaphores : sem'[s] => s \in w.signals \/ sem[s]
  BY <1>1 DEF BindInd, BindTypeOK
\* It is the first of its call among what is pending.
<1>7. ASSUME NEW v \in pending', v.call = w.call
      PROVE  w.info < v.info
  <2>1. v \in pending /\ v.info \in Nat \ {0} /\ v.info # w.info
    BY <1>1, <1>7 DEF BindInd, Submissions
  <2>2. CASE v.info < w.info
    <3>1. w.info > 1
      BY <1>2, <2>1, <2>2
    <3>2. PICK s \in w.waits \cap StagingSemaphores :
            sem[s] => Executed(w.call, w.info - 1)
      BY <3>1 DEF BindInd, Linked
    <3>3. Executed(w.call, w.info - 1)
      BY <1>1, <3>2
    <3>4. PICK k \in DOMAIN executed : executed[k] = <<w.call, w.info - 1>>
      BY <3>3 DEF Executed
    <3>5. w.info - 1 < v.info
      BY <1>7, <2>1, <3>4 DEF BindInd, InOrder
    <3>6. QED
      BY <1>2, <2>1, <2>2, <3>5
  <2>3. QED
    BY <1>2, <2>1, <2>2
<1> HIDE DEF Execute
<1>8. BindTypeOK'
  BY <1>1, <1>4, <1>6 DEF BindInd, BindTypeOK
<1>9. Submissions'
  <2>1. ASSUME NEW v \in pending' PROVE ~Executed(v.call, v.info)'
    <3>1. v \in pending /\ (v.call # w.call \/ v.info # w.info) /\ ~Executed(v.call, v.info)
      BY <1>1 DEF BindInd, Submissions
    <3>2. QED
      BY <1>4, <3>1 DEF Executed
  <2>2. QED
    BY <1>1, <2>1 DEF BindInd, Submissions
<1>10. InOrder'
  <2>1. ASSUME NEW k \in DOMAIN executed'
        PROVE  /\ executed'[k][1] <= count
               /\ executed'[k][1] = count =>
                    /\ executed'[k][2] <= b
                    /\ executed'[k][2] = b => pc \in {"wait", "fence", "idle"}
    <3>1. CASE executed'[k] = <<w.call, w.info>>
      BY <1>2, <3>1
    <3>2. CASE k \in DOMAIN executed /\ executed'[k] = executed[k]
      BY <3>2 DEF BindInd, InOrder
    <3>3. QED
      BY <1>4, <3>1, <3>2
  <2>2. ASSUME NEW i \in DOMAIN executed', NEW j \in DOMAIN executed', i < j
        PROVE  IF executed'[i][1] = executed'[j][1] THEN executed'[i][2] < executed'[j][2]
               ELSE executed'[i][1] < executed'[j][1] \/ executed'[j][1] \in failed \cup unwaited
    <3>1. i \in DOMAIN executed /\ executed'[i] = executed[i]
      BY <1>3, <2>2
    <3>2. CASE j \in DOMAIN executed
      <4>1. executed'[j] = executed[j]
        BY <1>3, <3>2
      <4>2. QED
        BY <2>2, <3>1, <3>2, <4>1 DEF BindInd, InOrder
    <3>3. CASE j = Len(executed) + 1
      <4>1. executed'[j] = <<w.call, w.info>>
        BY <1>3, <3>3
      <4>2. executed[i][1] = w.call => executed[i][2] < w.info
        BY <3>1 DEF BindInd, InOrder
      <4>3. executed[i][1] <= count /\ executed[i][1] \in Nat
        BY <1>3, <3>1 DEF BindInd, InOrder
      <4>4. QED
        BY <1>2, <3>1, <4>1, <4>2, <4>3
    <3>4. QED
      BY <1>3, <3>2, <3>3
  <2>3. ASSUME NEW v \in pending', NEW k \in DOMAIN executed', executed'[k][1] = v.call
        PROVE  executed'[k][2] < v.info
    <3>1. CASE executed'[k] = <<w.call, w.info>>
      BY <1>7, <2>3, <3>1
    <3>2. CASE k \in DOMAIN executed /\ executed'[k] = executed[k]
      BY <1>1, <2>3, <3>2 DEF BindInd, InOrder
    <3>3. QED
      BY <1>4, <3>1, <3>2
  <2>4. QED
    BY <1>1, <2>1, <2>2, <2>3 DEF InOrder
<1>11. Linked'
  <2>1. ASSUME NEW v \in pending', v.info > 1
        PROVE  \E s \in v.waits \cap StagingSemaphores :
                  sem'[s] => Executed(v.call, v.info - 1)'
    <3>1. v \in pending /\ v.info \in Nat
      BY <1>1 DEF BindInd, Submissions
    <3>2. PICK s \in v.waits \cap StagingSemaphores : sem[s] => Executed(v.call, v.info - 1)
      BY <2>1, <3>1 DEF BindInd, Linked
    <3>3. s \in w.signals => w.call = v.call /\ v.info = w.info + 1
      BY <3>1, <3>2 DEF BindInd, Linked
    <3>4. s \in w.signals => Executed(v.call, v.info - 1)'
      BY <1>2, <1>5, <3>3
    <3>5. QED
      BY <1>5, <1>6, <3>2, <3>4
  <2>2. \A v, u \in pending' : \A s \in v.signals \cap u.waits \cap StagingSemaphores :
          v.call = u.call /\ u.info = v.info + 1
    BY <1>1 DEF BindInd, Linked
  <2>3. ASSUME NEW s, NEW i \in Nat, Follows(s, i)
        PROVE  /\ s \in StagingSemaphores /\ (sem'[s] => \E k \in DOMAIN executed' : executed'[k] = <<count, i>>)
               /\ \A v \in pending' :
                     s \notin v.waits /\ (s \in v.signals => v.call = count /\ v.info = i)
    <3>1. /\ s \in StagingSemaphores /\ (sem[s] => Executed(count, i))
          /\ \A v \in pending : s \notin v.waits /\ (s \in v.signals => v.call = count /\ v.info = i)
      BY <2>3 DEF Follows
    <3>2. sem'[s] => \E k \in DOMAIN executed' : executed'[k] = <<count, i>>
      BY <1>2, <1>3, <1>6, <3>1 DEF Executed
    <3>3. QED
      BY <1>1, <3>1, <3>2
  <2>4. pc \in {"prepare", "record", "submit"} /\ b # 1 =>
          /\ prev_semaphore \in StagingSemaphores
          /\ sem'[prev_semaphore] => \E k \in DOMAIN executed' : executed'[k] = <<count, b - 1>>
          /\ \A v \in pending' :
                /\ prev_semaphore \notin v.waits
                /\ prev_semaphore \in v.signals => v.call = count /\ v.info = b - 1
    <3>1. pc \in {"prepare", "record", "submit"} => b \in Nat \ {0}
      BY DEF BindInd, BindTypeOK
    <3>2. pc \in {"prepare", "record", "submit"} /\ b # 1 => Follows(prev_semaphore, b - 1)
      BY DEF BindInd, Linked
    <3>3. pc \in {"prepare", "record", "submit"} => b - 1 \in Nat
      BY <3>1
    <3>4. QED
      BY <2>3, <3>2, <3>3 DEF Follows
  <2>5. pc = "wait" /\ ~finalBind =>
          /\ next_semaphore \in StagingSemaphores
          /\ sem'[next_semaphore] => \E k \in DOMAIN executed' : executed'[k] = <<count, b>>
          /\ \A v \in pending' :
                /\ next_semaphore \notin v.waits
                /\ next_semaphore \in v.signals => v.call = count /\ v.info = b
    <3>1. pc = "wait" /\ ~finalBind => Follows(next_semaphore, b)
      BY DEF BindInd, Linked
    <3>2. QED
      BY <1>2, <2>3, <3>1 DEF Follows
  <2>6. pc \in {"prepare", "record", "submit"} /\ b = 1 => prev_semaphore = NoSemaphore
    BY DEF BindInd, Linked
  <2>7. pc \in {"record", "submit"} =>
          IF finalBind THEN next_semaphore = NoSemaphore
          ELSE /\ next_semaphore \in StagingSemaphores /\ next_semaphore # prev_semaphore
               /\ ~sem'[next_semaphore]
               /\ \A v \in pending : next_semaphore \notin Intermediate(v)
    BY <1>6 DEF BindInd, Linked, Intermediate
  <2>8. UNCHANGED finalBind
    BY <1>1 DEF finalBind
  <2>9. pc \in {"prepare", "record", "submit"} =>
          (IF b = 1 THEN prev_semaphore = NoSemaphore ELSE Follows(prev_semaphore, b - 1))'
    BY <1>1, <2>4, <2>6 DEF Follows, Executed
  <2>10. pc = "wait" /\ ~finalBind => Follows(next_semaphore, b)'
    BY <1>1, <2>5 DEF Follows, Executed
  <2>11. \A v \in pending' : v \in pending
    BY <1>1
  <2>12. (pc \in {"record", "submit"} =>
          IF finalBind THEN next_semaphore = NoSemaphore
          ELSE /\ next_semaphore \in StagingSemaphores /\ next_semaphore # prev_semaphore
               /\ ~sem[next_semaphore]
               /\ \A v \in pending : next_semaphore \notin Intermediate(v))'
    BY <1>1, <2>7, <2>8, <2>11 DEF Intermediate
  <2>13. QED
    BY <1>1, <2>1, <2>2, <2>8, <2>9, <2>10, <2>12 DEF Linked
<1>12. Progress'
  <2>1. \A i : Done(i) => Done(i)'
    BY <1>1, <1>2, <1>5 DEF Done
  <2>2. AllDone => AllDone'
    BY <1>1, <2>1 DEF AllDone
  <2>3. AllExecuted => AllExecuted'
    BY <1>1, <1>5 DEF AllExecuted
  <2>4. signalFence' = signalFence
    BY <1>1 DEF signalFence, finalBind
  <2>5. \A i \in {b} : Done(i) => Done(i)'
    BY <2>1
  <2>6. Done(b) => Done(b)'
    BY <1>1, <2>5 DEF Done, Executed
  <2>7. (\A i \in 1 .. b - 1 : Done(i)) => (\A i \in 1 .. b' - 1 : Done(i)')
    BY <1>1, <2>1
  <2>8. QED
    BY <1>1, <2>2, <2>3, <2>4, <2>6, <2>7 DEF BindInd, Progress
<1>13. Chain'
  BY <1>1 DEF BindInd, Chain, Chaining, finalBind, HandOver
<1>14. Separate'
  BY <1>1 DEF BindInd, Separate, Undone, Intermediate, finalBind
<1>15. Settled'
  BY <1>1 DEF BindInd, Settled, Chaining, finalBind
<1>16. QED
  BY <1>8, <1>9, <1>10, <1>11, <1>12, <1>13, <1>14, <1>15 DEF BindInd

\* The fence was queued when all was done.
LEMMA ExecuteFenceBindInd ==
  ASSUME BindInd, ExecuteFence
  PROVE  BindInd'
<1> USE DEF BindInd, ExecuteFence, callVars, shotVars, deviceVars, historyVars
<1>1. BindTypeOK'
  BY DEF BindTypeOK
<1>2. Submissions'
  BY DEF Submissions
<1>3. InOrder'
  BY DEF InOrder
<1>4. Progress'
  <2>1. AllDone /\ pending = {} => AllExecuted
    BY DEF AllDone, Done, AllExecuted
  <2>2. QED
    BY <2>1, DoneKept DEF Progress
<1>5. Chain'
  BY DEF Chain, Progress, Chaining
<1>6. Separate'
  BY DEF Separate, Undone, Intermediate, finalBind
<1>7. Settled'
  BY DEF Settled, Chaining, finalBind
<1>8. Linked'
  BY DEF Linked, Follows, Executed, BindTypeOK, finalBind, Intermediate
<1>9. QED
  BY <1>1, <1>2, <1>3, <1>4, <1>5, <1>6, <1>7, <1>8

\* The semaphores of the batch are destroyed: no submission refers to them any
\* more, or only those of the call that is not waited for.
LEMMA ReclaimedBindInd ==
  ASSUME NEW x \in batches, BindInd,
         batches' = batches \ {x}, live' = live \ x.sems,
         \/ Executed(x.call, x.info) /\ unkept' = unkept
         \/ unkept' = unkept \cup {x.call},
         UNCHANGED <<pc, call, count, b, next_semaphore, prev_semaphore, stagingSemaphores,
                     carried, fence, pending, executed, sem, failed, unwaited>>
  PROVE  BindInd'
<1>1. BindTypeOK' /\ Submissions' /\ InOrder'
  BY DEF BindInd, BindTypeOK, Submissions, InOrder, Executed
<1>2. Linked'
  BY DEF BindInd, Linked, Follows, Executed, Intermediate, finalBind
<1>3. Progress'
  BY DoneKept DEF BindInd, Progress, signalFence, finalBind
<1>4. Chain'
  <2>1. Chaining => x.sems \cap stagingSemaphores = {}
    BY DEF BindInd, Separate, Chaining, finalBind
  <2>2. QED
    BY <2>1 DEF BindInd, Chain, Chaining, finalBind, HandOver
<1>5. Separate'
  <2>1. ASSUME NEW w \in pending
        PROVE  w.call \in Undone' \/ Intermediate(w) \subseteq live'
    <3>1. w.call \in Undone \/ Intermediate(w) \subseteq live
      BY DEF BindInd, Separate
    <3>2. Undone \subseteq Undone'
      BY DEF Undone
    <3>3. CASE Intermediate(w) \cap x.sems = {}
      BY <3>1, <3>2, <3>3
    <3>4. CASE Intermediate(w) \cap x.sems # {} /\ Executed(x.call, x.info)
      <4>1. w.call = x.call /\ w.info <= x.info /\ x.info \in Nat /\ w.info \in Nat
        BY <3>4 DEF BindInd, Separate, Submissions
      <4>2. PICK k \in DOMAIN executed : executed[k] = <<x.call, x.info>>
        BY <3>4 DEF Executed
      <4>3. x.info < w.info
        BY <4>1, <4>2 DEF BindInd, InOrder
      <4>4. QED
        BY <4>1, <4>3
    <3>5. CASE Intermediate(w) \cap x.sems # {} /\ unkept' = unkept \cup {x.call}
      <4>1. w.call = x.call
        BY <3>5 DEF BindInd, Separate
      <4>2. QED
        BY <3>5, <4>1 DEF Undone
    <3>6. QED
      BY <3>3, <3>4, <3>5
  <2>2. \A y \in batches' : y \in batches /\ y.sems \subseteq live'
    BY DEF BindInd, Separate
  <2>3. QED
    BY <2>1, <2>2 DEF BindInd, Separate, Intermediate, finalBind
<1>6. Settled'
  <2> SUFFICES ASSUME failed = {} PROVE Settled'
    BY DEF Settled
  <2>1. \A s \in UNION {y.sems : y \in batches} :
          s \in x.sems \/ s \in UNION {y.sems : y \in batches'}
    <3>1. ASSUME NEW y \in batches, NEW s \in y.sems
          PROVE  s \in x.sems \/ \E z \in batches' : s \in z.sems
      OBVIOUS
    <3>2. QED
      BY <3>1
  <2>2. QED
    BY <2>1 DEF BindInd, Settled, Chaining, finalBind
<1>7. QED
  BY <1>1, <1>2, <1>3, <1>4, <1>5, <1>6 DEF BindInd

\* The one-shot of the batch was executed.
LEMMA ReclaimBindInd ==
  ASSUME NEW x \in batches, BindInd, Reclaim(x)
  PROVE  BindInd'
BY ReclaimedBindInd DEF Reclaim, callVars, shotVars, deviceVars, historyVars

\* It was not.
LEMMA ReclaimFailsBindInd ==
  ASSUME NEW x \in batches, BindInd, ReclaimFails(x)
  PROVE  BindInd'
BY ReclaimedBindInd DEF ReclaimFails, callVars, shotVars, deviceVars

\* The application touches none of it.
LEMMA AppBindInd ==
  ASSUME BindInd, AppStep
  PROVE  BindInd'
<1> USE DEF BindInd, AppStep, callVars, shotVars, deviceVars, historyVars
<1>1. BindTypeOK'
  BY DEF BindTypeOK
<1>2. Submissions'
  BY DEF Submissions, Executed
<1>3. InOrder'
  BY DEF InOrder
<1>4. Progress'
  BY DoneKept DEF Progress, signalFence, finalBind
<1>5. Chain'
  BY DEF Chain, Chaining, finalBind, HandOver
<1>6. Separate'
  BY DEF Separate, Undone, Intermediate, finalBind
<1>7. Settled'
  BY DEF Settled, Chaining, finalBind
<1>8. Linked'
  BY DEF Linked, Follows, Executed, BindTypeOK, finalBind, Intermediate
<1>9. QED
  BY <1>1, <1>2, <1>3, <1>4, <1>5, <1>6, <1>7, <1>8

-------------------------------------------------------------------------------
(***************************************************************************)
(* The invariant and the theorems.                                         *)
(***************************************************************************)

\* Record, whatever it copies.
LEMMA RecordIsStep == Record => RecordStep
BY DEF Record, RecordStep

\* The application's steps.
LEMMA AppIsStep ==
  ASSUME BindInd, AppDraws \/ \E s \in AppSemaphores : AppSignal(s) \/ AppConsume(s)
  PROVE  AppStep
BY SparseAssumption
   DEF BindInd, BindTypeOK, AppDraws, AppSignal, AppConsume, AppStep, callVars, shotVars, historyVars

\* There was no call yet.
LEMMA BindInitInd == BindInit => BindInd
<1> SUFFICES ASSUME BindInit PROVE BindInd
  OBVIOUS
<1> USE DEF BindInit
<1>0. Linked
  BY DEF Linked
<1>1. BindTypeOK
  BY DEF BindTypeOK, Steps
<1>2. Submissions /\ InOrder
  BY DEF Submissions, InOrder
<1>3. Progress
  BY DEF Progress, AllDone, AllExecuted
<1>4. Chain
  BY DEF Chain, Chaining
<1>5. Separate /\ Settled
  BY DEF Separate, Settled
<1>6. QED
  BY <1>0, <1>1, <1>2, <1>3, <1>4, <1>5 DEF BindInd

\* Every step preserves the invariant.
LEMMA BindStepInd == BindInd /\ [BindNext]_bindVars => BindInd'
<1> SUFFICES ASSUME BindInd, [BindNext]_bindVars PROVE BindInd'
  OBVIOUS
<1>1. CASE Thread
  BY <1>1, PrepareBindInd, PrepareFailsBindInd, RecordIsStep, RecordBindInd,
     RecordFailsBindInd, SubmitBindInd, SubmitFailsBindInd, WaitBindInd,
     SignalFenceBindInd, SignalFenceFailsBindInd DEF Thread
<1>2. CASE BindNext /\ ~Thread
  BY <1>2, QueueBindSparseBindInd, WaitFailsBindInd, ReclaimFailsBindInd, ExecuteBindInd, ExecuteFenceBindInd,
     ReclaimBindInd, AppIsStep, AppBindInd DEF BindNext
<1>3. CASE UNCHANGED bindVars
  <2>1. UNCHANGED <<pc, call, count, b, next_semaphore, prev_semaphore,
                    stagingSemaphores, carried, fence, live, batches, pending,
                    executed, failed, unwaited, unkept, sem>>
    BY <1>3 DEF bindVars, callVars, shotVars, deviceVars, historyVars
  <2>2. BindTypeOK' /\ Submissions' /\ InOrder'
    BY <2>1 DEF BindInd, BindTypeOK, Submissions, InOrder, Executed
  <2>3. Progress'
    BY <2>1, DoneKept DEF BindInd, Progress, signalFence, finalBind
  <2>4. Chain' /\ Separate' /\ Settled'
    BY <2>1
       DEF BindInd, Chain, Separate, Settled, Chaining, finalBind, HandOver,
           Intermediate, Undone
  <2>5. Linked'
    BY <2>1 DEF BindInd, Linked, Follows, Executed, Intermediate, finalBind
  <2>6. QED
    BY <2>2, <2>3, <2>4, <2>5 DEF BindInd
<1>4. QED
  BY <1>1, <1>2, <1>3

\* The invariant holds in every state.
LEMMA BindInductive == BindSpec => []BindInd
BY BindInitInd, BindStepInd, PTL DEF BindSpec

-------------------------------------------------------------------------------
(***************************************************************************)
(* What the buffer and the image show.                                     *)
(***************************************************************************)

\* The thread has submitted an info, or is about to, and the device has not
\* executed it; of a call whose wait failed nothing is promised.
Ahead ==
    /\ count \notin unwaited
    /\ pc = "submit" \/ (pc = "wait" /\ ~Executed(count, b))

\* The thread is between two infos or between two calls.
Even ==
    \/ count \in unwaited
    \/ pc \in {"idle", "prepare", "record", "fence"}
    \/ pc = "wait" /\ Executed(count, b)

\* The semaphore the next info waits for is signaled, and what the call has
\* pending waits for no other, unless a wait has failed.
Signaled ==
    count \notin unwaited =>
        /\ pc \in {"prepare", "record", "submit"} =>
              prev_semaphore = NoSemaphore \/ sem[prev_semaphore]
        /\ pc = "wait" /\ Executed(count, b) =>
              next_semaphore = NoSemaphore \/ sem[next_semaphore]
        /\ \A w \in pending : pc = "wait" /\ w.call = count =>
              /\ next_semaphore = NoSemaphore \/ next_semaphore \in w.signals
              /\ \A s \in w.waits \cap StagingSemaphores : s = prev_semaphore /\ sem[s]

\* The commands of the info are binds of it; what is pending of the call are
\* those commands, and what calls left pending writes where nothing is promised.
Commands ==
    /\ pc \in {"submit", "wait"} => cmds \subseteq Info.bufferBinds
    /\ pc # "idle" /\ count \in unwaited => Touched(call) \subseteq suspect
    /\ \A w \in pending :
          IF w.call \in failed \cup unwaited
          THEN \A bind \in w.cmds : Covered(bind) \subseteq suspect
          ELSE w.cmds = cmds /\ w.clears = ClearsImage(Info.imageBinds)

\* The buffer shows what is wanted, or will once the commands are executed.
Shown ==
    \A x \in Bytes \ (missed \cup suspect) :
        /\ Even => shadow[x] = wanted[x]
        /\ Ahead => Write(shadow, cmds)[x] = wanted[x]

\* The same of the image: a null bind was executed or will be.
Cleared ==
    failed \cup unwaited = {} /\ ~imageResident /\ image # "fresh" =>
        /\ Even => image = "zero"
        /\ Ahead => image = "zero" \/ ClearsImage(Info.imageBinds)

\* The inductive invariant, beside BindInd.
ContentsInd ==
    /\ Signaled
    /\ Commands
    /\ Shown
    /\ Cleared

\* A byte no bind covers stays, and a byte depends on what it was at most.
LEMMA WriteFacts ==
  ASSUME NEW contents, NEW other, NEW binds, NEW x \in Bytes
  PROVE  /\ (\A bind \in binds : x \notin Covered(bind)) =>
               Write(contents, binds)[x] = contents[x]
         /\ contents[x] = other[x] => Write(contents, binds)[x] = Write(other, binds)[x]
BY DEF Write, Covering

\* Between infos nothing is ahead.
LEMMA StaysEven ==
  ASSUME ContentsInd, Even, ~Ahead',
         UNCHANGED <<shadow, image, imageResident, failed, wanted, missed, suspect,
                     unwaited>>
  PROVE  Shown' /\ Cleared'
BY DEF ContentsInd, Shown, Cleared

\* What the commands of the call write it touches.
LEMMA CommandsTouch ==
  ASSUME BindInd, ContentsInd, pc \in {"submit", "wait"}, NEW bind \in cmds
  PROVE  Covered(bind) \subseteq Touched(call)
<1>1. bind \in call.infos[b].bufferBinds /\ b \in DOMAIN call.infos
  BY DEF ContentsInd, Commands, Info, BindInd, BindTypeOK
<1>2. QED
  BY <1>1 DEF Touched

\* A byte the call does not touch shows what is wanted.
LEMMA UntouchedShown ==
  ASSUME BindInd, ContentsInd, pc \in {"prepare", "record", "submit", "wait", "fence"},
         NEW x \in Bytes \ (missed \cup suspect), x \notin Touched(call)
  PROVE  shadow[x] = wanted[x]
<1>1. CASE Even
  BY <1>1 DEF ContentsInd, Shown
<1>2. CASE ~Even
  <2>1. Ahead /\ pc \in {"submit", "wait"}
    BY <1>2 DEF Even, Ahead
  <2>2. Write(shadow, cmds)[x] = wanted[x]
    BY <2>1 DEF ContentsInd, Shown
  <2>3. \A bind \in cmds : x \notin Covered(bind)
    BY <2>1, CommandsTouch
  <2>4. QED
    BY <2>2, <2>3, WriteFacts
<1>3. QED
  BY <1>1, <1>2

\* A call that fails promises nothing of what it touched.
LEMMA FailContents ==
  ASSUME BindInd, ContentsInd, Fail, pc \in {"prepare", "record", "submit", "fence"},
         UNCHANGED <<shadow, executed>>
  PROVE  Shown' /\ Cleared'
<1>1. /\ pc' = "idle" /\ failed' # {} /\ ~Ahead'
      /\ suspect' = suspect \cup Touched(call) /\ UNCHANGED <<wanted, missed>>
  BY DEF Fail, Ahead
<1>2. \A x \in Bytes \ (missed' \cup suspect') : shadow[x] = wanted[x]
  BY <1>1, UntouchedShown
<1>3. QED
  BY <1>1, <1>2 DEF Shown, Cleared

\* A new call.
LEMMA QueueBindSparseContents ==
  ASSUME NEW c \in Calls, BindInd, ContentsInd, QueueBindSparse(c)
  PROVE  ContentsInd'
<1> USE DEF QueueBindSparse, shotVars, deviceVars, historyVars
<1>1. Signaled'
  BY DEF ContentsInd, Signaled
<1>2. Commands'
  BY DEF ContentsInd, Commands, BindInd, BindTypeOK, Submissions
<1>3. Shown' /\ Cleared'
  BY StaysEven DEF Even, Ahead
<1>4. QED
  BY <1>1, <1>2, <1>3 DEF ContentsInd

\* The new semaphore is another one than the last.
LEMMA PrepareContents ==
  ASSUME BindInd, ContentsInd, Prepare
  PROVE  ContentsInd'
<1> USE DEF Prepare, shotVars, historyVars
<1>1. Signaled'
  <2>1. /\ stagingSemaphores \subseteq live
        /\ prev_semaphore \in stagingSemaphores \cup {NoSemaphore}
    BY DEF BindInd, Chain, Chaining
  <2>2. /\ DOMAIN sem' = DOMAIN sem
        /\ prev_semaphore # NoSemaphore => sem'[prev_semaphore] = sem[prev_semaphore]
    <3>1. CASE finalBind
      BY <3>1
    <3>2. CASE ~finalBind
      <4>1. PICK s \in StagingSemaphores \ live : sem' = [sem EXCEPT ![s] = FALSE]
        BY <3>2
      <4>2. DOMAIN sem' = DOMAIN sem /\ \A r \in DOMAIN sem : r # s => sem'[r] = sem[r]
        BY <4>1
      <4>3. prev_semaphore # NoSemaphore =>
              prev_semaphore \in DOMAIN sem /\ prev_semaphore # s
        BY <2>1, <4>1 DEF BindInd, BindTypeOK, Chain
      <4>4. QED
        BY <4>2, <4>3
    <3>3. QED
      BY <3>1, <3>2
  <2>3. pc = "prepare" /\ pc' = "record" /\ UNCHANGED <<prev_semaphore, count, unwaited>>
    OBVIOUS
  <2> HIDE DEF Prepare
  <2>4. QED
    BY <2>2, <2>3 DEF ContentsInd, Signaled
<1>2. Commands'
  BY DEF ContentsInd, Commands, Info
<1>3. Shown' /\ Cleared'
  BY StaysEven DEF Even, Ahead
<1>4. QED
  BY <1>1, <1>2, <1>3 DEF ContentsInd

\* The call fails before anything was submitted.
LEMMA PrepareFailsContents ==
  ASSUME BindInd, ContentsInd, PrepareFails
  PROVE  ContentsInd'
<1> USE DEF PrepareFails, shotVars, deviceVars
<1>1. Signaled'
  BY DEF Fail, ContentsInd, Signaled
<1>2. Commands'
  BY DEF Fail, ContentsInd, Commands, BindInd, Submissions
<1>3. Shown' /\ Cleared'
  BY FailContents
<1>4. QED
  BY <1>1, <1>2, <1>3 DEF ContentsInd

\* The commands do what the binds ask for, but where a staging buffer is missing
\* or the copy is from the memory's first byte instead of another.
LEMMA RecordContents ==
  ASSUME BindInd, ContentsInd, Record
  PROVE  ContentsInd'
<1> DEFINE binds == {bind \in Info.bufferBinds : Effective(bind)}
           copies == {bind \in binds : NeedsStaging(bind)}
<1>1. /\ pc = "record" /\ pc' = "submit" /\ call \in Calls /\ b \in DOMAIN call.infos
      /\ UNCHANGED <<call, count, b, next_semaphore, prev_semaphore, pending, executed, sem,
                     shadow, image, failed, suspect, unwaited>>
  BY DEF Record, callVars, deviceVars, BindInd, BindTypeOK
<1>2. PICK lost \in SUBSET copies, void \in SUBSET {bind \in binds : Overruns(bind)} :
        /\ cmds' = binds \ (lost \cup void)
        /\ missed' = {x \in Bytes :
              LET bound == Covering(binds, x)
              IN  IF bound = {} THEN x \in missed
                  ELSE \E bind \in bound :
                          \/ bind \in lost \/ Overruns(bind)
                          \/ NeedsStaging(bind) /\ bind.memoryOffset # 0}
  <2>1. /\ pc = "record"
        /\ \E lost \in IF "staging" \in Faults THEN SUBSET copies ELSE {{}},
              void \in SUBSET {bind \in binds : Overruns(bind)} :
              /\ cmds' = binds \ (lost \cup void)
              /\ buffers' = (copies # lost)
              /\ missed' = {x \in Bytes :
                    LET bound == Covering(binds, x)
                    IN  IF bound = {} THEN x \in missed
                        ELSE \E bind \in bound :
                                \/ bind \in lost \/ Overruns(bind)
                                \/ NeedsStaging(bind) /\ bind.memoryOffset # 0}
    BY DEF Record
  <2>2. (IF "staging" \in Faults THEN SUBSET copies ELSE {{}}) \subseteq SUBSET copies
    OBVIOUS
  <2> HIDE DEF copies, binds
  <2>3. QED
    BY <2>1, <2>2
<1>3. /\ wanted' = Show(wanted, Info.bufferBinds)
      /\ imageResident' = Resident(Info.imageBinds)
  BY DEF Record
<1>4. Signaled'
  BY <1>1 DEF ContentsInd, Signaled
<1>5. Commands'
  <2>1. cmds' \subseteq Info.bufferBinds
    BY <1>2
  <2>2. Info' = Info
    BY <1>1 DEF Info
  <2>3. \A w \in pending : w.call \in failed \cup unwaited
    BY <1>1 DEF BindInd, Submissions
  <2>4. QED
    BY <1>1, <2>1, <2>2, <2>3 DEF ContentsInd, Commands
<1>6. Shown'
  <2> SUFFICES ASSUME NEW x \in Bytes, x \notin missed', x \notin suspect'
               PROVE  /\ Write(shadow', cmds')[x] = wanted'[x]
                      /\ count \in unwaited => shadow[x] = wanted'[x]
    BY <1>1 DEF Shown, Even
  <2>1. Covering(binds, x) = Covering({bind \in Info.bufferBinds :
                                          bind.tracked /\ ~bind.metadata}, x)
    BY DEF Covering, Effective
  <2>2. CASE Covering(binds, x) = {}
    <3>1. wanted'[x] = wanted[x]
      BY <1>3, <2>1, <2>2 DEF Show
    <3>2. x \notin missed
      BY <1>2, <2>2
    <3>3. shadow[x] = wanted[x]
      BY <1>1, <3>2 DEF ContentsInd, Shown, Even
    <3>4. \A bind \in cmds' : x \notin Covered(bind)
      BY <1>2, <2>2 DEF Covering
    <3>5. QED
      BY <1>1, <3>1, <3>3, <3>4, WriteFacts
  <2>3. CASE Covering(binds, x) # {}
    <3>1. PICK bind \in Covering(binds, x) : TRUE
      BY <2>3
    <3>2. /\ bind \in Info.bufferBinds /\ x \in Covered(bind) /\ Effective(bind)
      BY <3>1 DEF Covering
    <3>3. \A other \in Covering(binds, x) : other = bind
      BY <1>1, <3>1, BatchAssumption DEF Covering, Info
    <3>4. Covering(binds, x) = {bind}
      BY <3>1, <3>3
    <3>5. /\ bind \notin lost /\ ~Overruns(bind)
          /\ NeedsStaging(bind) => bind.memoryOffset = 0
      BY <1>2, <3>1, <2>3
    <3>6. Covering(cmds', x) = {bind}
      BY <1>2, <3>4, <3>5 DEF Covering
    <3>7. Write(shadow', cmds')[x] = Source(bind, 0, x)
      BY <3>6 DEF Write
    <3>8. wanted'[x] = Source(bind, bind.memoryOffset, x)
      BY <1>3, <2>1, <3>4 DEF Show
    <3>9. bind.memory = NoMemory \/ bind.memoryOffset = 0
      BY <3>2, <3>5 DEF NeedsStaging
    <3>10. count \notin unwaited
      <4>1. x \in Touched(call)
        BY <1>1, <3>2 DEF Touched, Info
      <4>2. QED
        BY <1>1, <4>1 DEF ContentsInd, Commands
    <3>11. QED
      BY <3>7, <3>8, <3>9, <3>10 DEF Source
  <2>4. QED
    BY <2>2, <2>3
<1>7. Cleared'
  <2> SUFFICES ASSUME failed \cup unwaited = {}, ~imageResident', image # "fresh"
               PROVE  image = "zero" \/ ClearsImage(Info.imageBinds)
    BY <1>1 DEF Cleared, Even, Info
  <2> DEFINE images == Info.imageBinds
  <2>1. CASE images = <<>>
    <3>1. ~imageResident
      BY <1>3, <2>1 DEF Resident
    <3>2. QED
      BY <1>1, <3>1 DEF ContentsInd, Cleared, Even
  <2>2. CASE images # <<>>
    <3>1. images \in Seq({images[j] : j \in DOMAIN images})
      BY <1>1, CallsAssumption DEF Info
    <3>2. images[Len(images)] = NoMemory
      BY <1>3, <2>2 DEF Resident
    <3> HIDE DEF images
    <3>3. Len(images) \in DOMAIN images
      BY <2>2, <3>1
    <3>4. ClearsImage(images)
      BY <3>2, <3>3 DEF ClearsImage
    <3>5. QED
      BY <3>4 DEF images
  <2>3. QED
    BY <2>1, <2>2
<1>8. QED
  BY <1>4, <1>5, <1>6, <1>7 DEF ContentsInd

\* The call fails before anything was submitted, or the thread locks itself out.
LEMMA RecordFailsContents ==
  ASSUME BindInd, ContentsInd, RecordFails
  PROVE  ContentsInd'
<1>1. /\ pc \in {"record", "submit"}
      /\ UNCHANGED <<next_semaphore, prev_semaphore, call, count, b, pending, executed, sem,
                     shadow, image, imageResident>>
      /\ \/ Fail
         \/ pc' = "stuck" /\ UNCHANGED <<failed, suspect, wanted, missed>>
      /\ unwaited' = unwaited
  BY DEF RecordFails, Fail, callVars, deviceVars, historyVars
<1>2. pc' \in {"idle", "stuck"}
  BY <1>1 DEF Fail
<1>3. Signaled'
  BY <1>1, <1>2 DEF ContentsInd, Signaled
<1>4. CASE Fail
  <2>1. Commands'
    BY <1>1, <1>4 DEF Fail, ContentsInd, Commands, BindInd, Submissions
  <2>2. Shown' /\ Cleared'
    BY <1>1, <1>4, FailContents
  <2>3. QED
    BY <1>3, <2>1, <2>2 DEF ContentsInd
<1>5. CASE pc' = "stuck" /\ UNCHANGED <<failed, suspect, wanted, missed>>
  <2>1. Commands'
    BY <1>1, <1>5 DEF ContentsInd, Commands, BindInd, Submissions
  <2>2. Shown' /\ Cleared'
    BY <1>1, <1>5 DEF ContentsInd, Shown, Cleared, Even, Ahead
  <2>3. QED
    BY <1>3, <2>1, <2>2 DEF ContentsInd
<1>6. QED
  BY <1>1, <1>4, <1>5

\* What is pending of the call are its commands.
LEMMA SubmitContents ==
  ASSUME BindInd, ContentsInd, Submit
  PROVE  ContentsInd'
<1>1. /\ pc = "submit" /\ pc' = "wait" /\ pending' = pending \cup {Submission}
      /\ UNCHANGED <<call, count, b, next_semaphore, prev_semaphore, cmds, executed, sem,
                     shadow, image, imageResident, failed, wanted, missed, suspect,
                     unwaited>>
  BY DEF Submit, callVars, shotVars, historyVars
<1>2. /\ call \in Calls /\ b \in DOMAIN call.infos /\ count \notin failed
      /\ next_semaphore \in stagingSemaphores \cup {NoSemaphore}
      /\ \A w \in pending : w.call \in failed \cup unwaited
  BY <1>1 DEF BindInd, BindTypeOK, Chain, Submissions
<1>3. /\ Submission.cmds = cmds /\ Submission.clears = ClearsImage(Info.imageBinds)
      /\ Submission.call = count
      /\ Submission.waits = Info.waits \cup Some(prev_semaphore)
      /\ Submission.signals = Info.signals \cup Some(next_semaphore)
  BY DEF Submission
<1>4. ~Executed(count, b)'
  <2>1. BindInd'
    BY SubmitBindInd
  <2>2. \A w \in pending' : ~Executed(w.call, w.info)'
    BY <2>1 DEF BindInd, Submissions
  <2>3. Submission.info = b /\ Submission \in pending'
    BY <1>1 DEF Submission
  <2>4. QED
    BY <1>1, <1>3, <2>2, <2>3 DEF Executed
<1>5. Signaled'
  <2> SUFFICES ASSUME count \notin unwaited PROVE Signaled'
    BY <1>1 DEF Signaled
  <2>1. Info.waits \cap StagingSemaphores = {}
    BY <1>2, CallsAssumption, SparseAssumption DEF Info
  <2>2. \A s \in Submission.waits \cap StagingSemaphores :
          s = prev_semaphore /\ s # NoSemaphore
    BY <1>3, <2>1 DEF Some
  <2>3. next_semaphore = NoSemaphore \/ next_semaphore \in Submission.signals
    BY <1>3 DEF Some
  <2>4. prev_semaphore = NoSemaphore \/ sem[prev_semaphore]
    BY <1>1 DEF ContentsInd, Signaled
  <2>5. \A w \in pending' : w.call = count => w = Submission
    BY <1>1, <1>2
  <2> HIDE DEF Submission
  <2>6. QED
    BY <1>1, <1>4, <2>2, <2>3, <2>4, <2>5 DEF ContentsInd, Signaled
<1>6. Commands'
  <2>1. Info' = Info
    BY <1>1 DEF Info
  <2>2. count \in unwaited => \A bind \in cmds : Covered(bind) \subseteq suspect
    BY <1>1, CommandsTouch DEF ContentsInd, Commands
  <2> HIDE DEF Submission
  <2>3. QED
    BY <1>1, <1>2, <1>3, <2>1, <2>2 DEF ContentsInd, Commands
<1>7. Shown' /\ Cleared'
  <2>1. (Ahead' <=> Ahead) /\ (Even' <=> Even)
    BY <1>1, <1>4 DEF Ahead, Even
  <2>2. Info' = Info
    BY <1>1 DEF Info
  <2>3. Write(shadow, cmds)' = Write(shadow, cmds)
    BY <1>1 DEF Write
  <2>4. QED
    BY <1>1, <2>1, <2>2, <2>3 DEF ContentsInd, Shown, Cleared
<1>8. QED
  BY <1>5, <1>6, <1>7 DEF ContentsInd

\* What the call has submitted and not waited for writes where nothing is
\* promised any more.
LEMMA SubmitFailsContents ==
  ASSUME BindInd, ContentsInd, SubmitFails
  PROVE  ContentsInd'
<1>1. /\ pc = "submit" /\ pc' = "idle" /\ Fail
      /\ failed' = failed \cup {count} /\ suspect' = suspect \cup Touched(call)
      /\ pending' = pending \/ pending' = pending \cup {Submission}
      /\ UNCHANGED <<executed, sem, shadow, image, imageResident, unwaited>>
  BY DEF SubmitFails, Fail
<1>2. Signaled'
  BY <1>1 DEF ContentsInd, Signaled
<1>3. Commands'
  <2>1. \A w \in pending : w.call \in failed \cup unwaited
    BY <1>1 DEF BindInd, Submissions, BindTypeOK
  <2>2. Submission.cmds = cmds
    BY DEF Submission
  <2>3. \A bind \in cmds : Covered(bind) \subseteq Touched(call)
    BY <1>1, CommandsTouch
  <2>4. count \in failed'
    BY <1>1
  <2>5. ASSUME NEW w \in pending', NEW bind \in w.cmds
        PROVE  Covered(bind) \subseteq suspect'
    <3>1. CASE w \in pending
      BY <1>1, <2>1, <2>5, <3>1 DEF ContentsInd, Commands
    <3>2. CASE w = Submission
      BY <1>1, <2>2, <2>3, <2>5, <3>2
    <3> HIDE DEF Submission
    <3>3. QED
      BY <1>1, <3>1, <3>2
  <2>6. \A w \in pending' : w.call \in failed' \cup unwaited'
    <3>1. Submission.call = count
      BY DEF Submission
    <3> HIDE DEF Submission
    <3>2. QED
      BY <1>1, <2>1, <2>4, <3>1
  <2>7. QED
    BY <1>1, <2>5, <2>6 DEF Commands
<1>4. Shown' /\ Cleared'
  BY <1>1, FailContents
<1>5. QED
  BY <1>2, <1>3, <1>4 DEF ContentsInd

\* The info was executed, so that its semaphore is signaled.
LEMMA WaitContents ==
  ASSUME BindInd, ContentsInd, Wait
  PROVE  ContentsInd'
<1>1. /\ pc = "wait" /\ Executed(count, b) /\ pc' \in {"fence", "idle", "prepare"}
      /\ UNCHANGED <<count, call, pending, executed, sem, shadow, image, imageResident,
                     failed, wanted, missed, suspect, unwaited>>
      /\ pc' = "prepare" => prev_semaphore' = next_semaphore
  BY DEF Wait, Waited, Advance, callVars, deviceVars, historyVars
<1>2. Signaled'
  BY <1>1 DEF ContentsInd, Signaled
<1>3. Commands'
  BY <1>1 DEF ContentsInd, Commands, BindInd, Submissions
<1>4. Shown' /\ Cleared'
  BY <1>1, StaysEven DEF Even, Ahead
<1>5. QED
  BY <1>2, <1>3, <1>4 DEF ContentsInd

\* Nothing more is promised of what the call touches.
LEMMA WaitFailsContents ==
  ASSUME BindInd, ContentsInd, WaitFails
  PROVE  ContentsInd'
<1>1. /\ pc = "wait" /\ pc' \in {"fence", "idle", "prepare"}
      /\ UNCHANGED <<count, call, pending, executed, shadow, failed, wanted, missed>>
      /\ unwaited' = unwaited \cup {count} /\ suspect' = suspect \cup Touched(call)
  BY DEF WaitFails, Waited, Advance, callVars, deviceVars
<1>2. Signaled'
  BY <1>1 DEF Signaled
<1>3. Commands'
  <2>1. ASSUME NEW w \in pending, NEW bind \in w.cmds
        PROVE  Covered(bind) \subseteq suspect'
    <3>1. CASE w.call \in failed \cup unwaited
      BY <1>1, <2>1, <3>1 DEF ContentsInd, Commands
    <3>2. CASE w.call \notin failed \cup unwaited
      <4>1. bind \in cmds
        BY <2>1, <3>2 DEF ContentsInd, Commands
      <4>2. QED
        BY <1>1, <4>1, CommandsTouch
    <3>3. QED
      BY <3>1, <3>2
  <2>2. \A w \in pending : w.call \in failed \cup unwaited'
    BY <1>1 DEF BindInd, Submissions
  <2>3. Touched(call)' = Touched(call)
    BY <1>1 DEF Touched
  <2>4. QED
    BY <1>1, <2>1, <2>2, <2>3 DEF Commands
<1>4. Shown' /\ Cleared'
  <2>1. \A x \in Bytes \ (missed' \cup suspect') : shadow[x] = wanted[x]
    BY <1>1, UntouchedShown
  <2>2. ~Ahead'
    BY <1>1 DEF Ahead
  <2>3. QED
    BY <1>1, <2>1, <2>2 DEF Shown, Cleared
<1>5. QED
  BY <1>2, <1>3, <1>4 DEF ContentsInd

\* The call returns.
LEMMA SignalFenceContents ==
  ASSUME BindInd, ContentsInd, SignalFence
  PROVE  ContentsInd'
<1>1. /\ pc = "fence" /\ pc' = "idle"
      /\ UNCHANGED <<count, call, pending, executed, sem, shadow, image, imageResident,
                     failed, wanted, missed, suspect, unwaited>>
  BY DEF SignalFence, Advance, callVars, deviceVars, historyVars, BindInd, Progress, signalFence
<1>2. Signaled'
  BY <1>1 DEF ContentsInd, Signaled
<1>3. Commands'
  BY <1>1 DEF ContentsInd, Commands, BindInd, Submissions
<1>4. Shown' /\ Cleared'
  BY <1>1, StaysEven DEF Even, Ahead
<1>5. QED
  BY <1>2, <1>3, <1>4 DEF ContentsInd

\* The call fails with all its infos executed.
LEMMA SignalFenceFailsContents ==
  ASSUME BindInd, ContentsInd, SignalFenceFails
  PROVE  ContentsInd'
<1>1. /\ pc = "fence" /\ pc' = "idle" /\ Fail /\ failed' = failed \cup {count}
      /\ UNCHANGED <<count, pending, executed, sem, shadow, image, imageResident,
                     unwaited>>
      /\ suspect \subseteq suspect'
  BY DEF SignalFenceFails, Fail, callVars, deviceVars
<1>2. Signaled'
  BY <1>1 DEF ContentsInd, Signaled
<1>3. Commands'
  BY <1>1 DEF ContentsInd, Commands, BindInd, Submissions
<1>4. Shown' /\ Cleared'
  BY <1>1, FailContents
<1>5. QED
  BY <1>2, <1>3, <1>4 DEF ContentsInd

\* The device executes the commands of the call, or those a failed call left.
LEMMA ExecuteContents ==
  ASSUME NEW w \in pending, BindInd, ContentsInd, Execute(w)
  PROVE  ContentsInd'
<1>1. /\ pending' = pending \ {w} /\ executed' = Append(executed, <<w.call, w.info>>)
      /\ sem' = [s \in DOMAIN sem |-> s \in w.signals \/ (sem[s] /\ s \notin w.waits)]
      /\ shadow' = Write(shadow, w.cmds)
      /\ image' = IF w.clears THEN "zero" ELSE image
      /\ UNCHANGED <<pc, call, count, b, next_semaphore, prev_semaphore, stagingSemaphores,
                     cmds, imageResident, failed, wanted, missed, suspect, unwaited>>
  BY DEF Execute, callVars, shotVars, historyVars
<1>2. Info' = Info
  BY <1>1 DEF Info
<1>3. /\ executed \in Seq(Nat \X Nat) /\ w.call \in Nat /\ w.info \in Nat
      /\ w.call \in failed \cup unwaited \/ (w.call = count /\ pc = "wait" /\ w.info = b)
      /\ pc # "idle" => count \notin failed
      /\ ~Executed(w.call, w.info)
      /\ \A v \in pending : v.call = count /\ count \notin failed \cup unwaited => v.info = b
      /\ \A v \in pending : v.call = w.call /\ v.info = w.info => v = w
      /\ DOMAIN sem = AppSemaphores \cup StagingSemaphores
  BY DEF BindInd, BindTypeOK, Submissions
<1>4. \A c, i : Executed(c, i)' <=> Executed(c, i) \/ (c = w.call /\ i = w.info)
  <2>1. /\ DOMAIN executed' = DOMAIN executed \cup {Len(executed) + 1}
        /\ \A k \in DOMAIN executed : executed'[k] = executed[k]
        /\ executed'[Len(executed) + 1] = <<w.call, w.info>>
    BY <1>1, <1>3
  <2>2. ASSUME NEW c, NEW i, Executed(c, i)
        PROVE  Executed(c, i)'
    BY <2>1, <2>2 DEF Executed
  <2>3. Executed(w.call, w.info)'
    BY <2>1 DEF Executed
  <2>4. ASSUME NEW c, NEW i, Executed(c, i)', ~Executed(c, i)
        PROVE  c = w.call /\ i = w.info
    <3>1. PICK k \in DOMAIN executed' : executed'[k] = <<c, i>>
      BY <2>4 DEF Executed
    <3>2. k \notin DOMAIN executed
      BY <2>1, <2>4, <3>1 DEF Executed
    <3>3. QED
      BY <2>1, <3>1, <3>2
  <2>5. QED
    BY <2>2, <2>3, <2>4
<1>5. Commands'
  BY <1>1, <1>2 DEF ContentsInd, Commands
<1>6. DOMAIN sem' = AppSemaphores \cup StagingSemaphores
  BY <1>1, <1>3
<1>7. /\ prev_semaphore \in stagingSemaphores \cup {NoSemaphore}
      /\ next_semaphore \in stagingSemaphores \cup {NoSemaphore}
      /\ stagingSemaphores \subseteq StagingSemaphores
  BY DEF BindInd, Chain
<1> HIDE DEF Execute, BindInd, Executed
<1>8. CASE w.call \notin failed \cup unwaited
  <2>1. /\ w.call = count /\ pc = "wait" /\ count \notin failed /\ count \notin unwaited
        /\ w.info = b /\ ~Executed(count, b) /\ Executed(count, b)'
    BY <1>1, <1>3, <1>4, <1>8
  <2>2. /\ w.cmds = cmds /\ w.clears = ClearsImage(Info.imageBinds)
        /\ next_semaphore = NoSemaphore \/ next_semaphore \in w.signals
    BY <1>8, <2>1 DEF ContentsInd, Commands, Signaled
  <2>3. Signaled'
    <3>1. next_semaphore = NoSemaphore \/ sem'[next_semaphore]
      BY <1>1, <1>6, <1>7, <2>2
    <3>2. \A v \in pending' : v.call # count
      BY <1>1, <1>3, <2>1
    <3>3. QED
      BY <1>1, <2>1, <3>1, <3>2 DEF Signaled
  <2>4. Ahead /\ Even' /\ ~Ahead'
    BY <1>1, <2>1 DEF Ahead, Even
  <2>5. Shown'
    BY <1>1, <2>2, <2>4 DEF ContentsInd, Shown
  <2>6. Cleared'
    BY <1>1, <2>2, <2>4 DEF ContentsInd, Cleared
  <2>7. QED
    BY <1>5, <2>3, <2>5, <2>6 DEF ContentsInd
<1>9. CASE w.call \in failed \cup unwaited
  <2>1. pc # "idle" /\ count \notin unwaited => w.call # count
    BY <1>3, <1>9
  <2>2. pc # "idle" /\ count \notin unwaited => (Executed(count, b)' <=> Executed(count, b))
    BY <1>1, <1>4, <2>1
  <2>3. (Even' <=> Even) /\ (Ahead' <=> Ahead)
    BY <1>1, <2>2 DEF Even, Ahead
  <2>4. \A x \in Bytes \ suspect : shadow'[x] = shadow[x]
    <3>1. \A bind \in w.cmds : Covered(bind) \subseteq suspect
      BY <1>9 DEF ContentsInd, Commands
    <3>2. QED
      BY <1>1, <3>1, WriteFacts
  <2>5. Shown'
    <3>1. \A x \in Bytes \ suspect : Write(shadow', cmds)[x] = Write(shadow, cmds)[x]
      BY <2>4, WriteFacts
    <3>2. QED
      BY <1>1, <2>3, <2>4, <3>1 DEF ContentsInd, Shown
  <2>6. Cleared'
    BY <1>1, <1>9 DEF Cleared
  <2>7. Signaled'
    <3> SUFFICES ASSUME count \notin unwaited PROVE Signaled'
      BY <1>1 DEF Signaled
    <3>1. pc # "idle" => \A s \in stagingSemaphores : s \notin w.waits
      BY <2>1 DEF BindInd, Separate, Intermediate, Chain
    <3>2. pc # "idle" => \A s \in stagingSemaphores : sem[s] => sem'[s]
      BY <1>1, <1>6, <1>7, <3>1
    <3>3. ASSUME pc = "wait", NEW v \in pending', v.call = count,
                 NEW s \in v.waits \cap StagingSemaphores
          PROVE  s = prev_semaphore /\ sem'[s]
      <4>1. v \in pending /\ s = prev_semaphore /\ sem[s]
        BY <1>1, <3>3 DEF ContentsInd, Signaled
      <4>2. prev_semaphore # NoSemaphore
        BY <4>1, <3>3, SparseAssumption
      <4>3. QED
        BY <1>7, <3>2, <3>3, <4>1, <4>2
    <3>4. pc \in {"prepare", "record", "submit"} =>
            prev_semaphore = NoSemaphore \/ sem'[prev_semaphore]
      BY <1>7, <3>2 DEF ContentsInd, Signaled
    <3>5. pc = "wait" /\ Executed(count, b)' =>
            next_semaphore = NoSemaphore \/ sem'[next_semaphore]
      BY <1>7, <2>2, <3>2 DEF ContentsInd, Signaled
    <3>6. \A v \in pending' : pc = "wait" /\ v.call = count =>
            next_semaphore = NoSemaphore \/ next_semaphore \in v.signals
      BY <1>1 DEF ContentsInd, Signaled
    <3>7. QED
      BY <1>1, <3>3, <3>4, <3>5, <3>6 DEF Signaled
  <2>8. QED
    BY <1>5, <2>5, <2>6, <2>7 DEF ContentsInd
<1>10. QED
  BY <1>8, <1>9

\* The finalizer, the fence and a stuttering step change nothing of this, but
\* that the finalizer may break a promise.
LEMMA OtherContents ==
  ASSUME ContentsInd,
         UNCHANGED <<pc, call, count, b, next_semaphore, prev_semaphore, cmds, pending,
                     executed, sem, shadow, image, imageResident, failed, wanted, missed,
                     unwaited>>,
         suspect \subseteq suspect'
  PROVE  ContentsInd'
<1>1. Info' = Info /\ (Even' <=> Even) /\ (Ahead' <=> Ahead)
  BY DEF Info, Even, Ahead, Executed
<1>2. Signaled'
  BY DEF ContentsInd, Signaled, Executed
<1>3. Commands'
  BY <1>1 DEF ContentsInd, Commands
<1>4. Write(shadow, cmds)' = Write(shadow, cmds)
  BY DEF Write
<1>5. Shown' /\ Cleared'
  BY <1>1, <1>4 DEF ContentsInd, Shown, Cleared
<1>6. QED
  BY <1>2, <1>3, <1>5 DEF ContentsInd

\* The application signals and consumes only its own semaphores, and draws only
\* into an image that is bound.
LEMMA AppContents ==
  ASSUME BindInd, ContentsInd,
         AppDraws \/ \E s \in AppSemaphores : AppSignal(s) \/ AppConsume(s)
  PROVE  ContentsInd'
<1>1. /\ UNCHANGED <<pc, call, count, b, next_semaphore, prev_semaphore, cmds, pending,
                     executed, shadow, imageResident, failed, wanted, missed, suspect,
                     unwaited>>
      /\ image' = image \/ imageResident
      /\ sem' = sem \/ \E s \in AppSemaphores, v \in BOOLEAN : sem' = [sem EXCEPT ![s] = v]
  BY DEF AppDraws, AppSignal, AppConsume, callVars, shotVars, historyVars
<1>2. DOMAIN sem' = DOMAIN sem /\ \A s \in StagingSemaphores : sem'[s] = sem[s]
  BY <1>1, SparseAssumption DEF BindInd, BindTypeOK
<1>3. Info' = Info /\ (Even' <=> Even) /\ (Ahead' <=> Ahead)
  BY <1>1 DEF Info, Even, Ahead, Executed
<1>4. Executed(count, b)' <=> Executed(count, b)
  BY <1>1 DEF Executed
<1>5. Signaled'
  <2>1. /\ prev_semaphore \in StagingSemaphores \cup {NoSemaphore}
        /\ next_semaphore \in StagingSemaphores \cup {NoSemaphore}
    BY DEF BindInd, Chain
  <2>2. QED
    BY <1>1, <1>4, <1>2, <2>1 DEF ContentsInd, Signaled
<1>6. Commands'
  BY <1>1, <1>3 DEF ContentsInd, Commands
<1>7. Write(shadow, cmds)' = Write(shadow, cmds)
  BY <1>1 DEF Write
<1>8. Shown' /\ Cleared'
  BY <1>1, <1>3, <1>7 DEF ContentsInd, Shown, Cleared
<1>9. QED
  BY <1>5, <1>6, <1>8 DEF ContentsInd

\* Nothing was bound yet.
LEMMA ContentsInit == BindInit => ContentsInd
BY DEF BindInit, ContentsInd, Signaled, Commands, Shown, Cleared, Even, Ahead

\* Every step preserves the invariant.
LEMMA ContentsStep == BindInd /\ ContentsInd /\ [BindNext]_bindVars => ContentsInd'
<1> SUFFICES ASSUME BindInd, ContentsInd, [BindNext]_bindVars PROVE ContentsInd'
  OBVIOUS
<1>1. CASE Thread
  BY <1>1, PrepareContents, PrepareFailsContents, RecordContents, RecordFailsContents,
     SubmitContents, SubmitFailsContents, WaitContents, SignalFenceContents,
     SignalFenceFailsContents DEF Thread
<1>2. CASE \/ ExecuteFence \/ UNCHANGED bindVars
           \/ \E x \in batches : Reclaim(x) \/ ReclaimFails(x)
  <2>1. /\ UNCHANGED <<pc, call, count, b, next_semaphore, prev_semaphore, cmds, pending,
                    executed, sem, shadow, image, imageResident, failed, wanted, missed,
                    unwaited>>
        /\ suspect \subseteq suspect'
    BY <1>2 DEF ExecuteFence, Reclaim, ReclaimFails, bindVars, callVars, shotVars, deviceVars, historyVars
  <2>2. QED
    BY <2>1, OtherContents
<1>3. CASE \/ WaitFails \/ \E c \in Calls : QueueBindSparse(c)
           \/ \E w \in pending : Execute(w)
           \/ AppDraws \/ \E s \in AppSemaphores : AppSignal(s) \/ AppConsume(s)
  BY <1>3, WaitFailsContents, QueueBindSparseContents, ExecuteContents, AppContents
<1>4. QED
  BY <1>1, <1>2, <1>3 DEF BindNext

\* The invariant holds in every state.
LEMMA ContentsInductive == BindSpec => [](BindInd /\ ContentsInd)
<1>1. BindInit => BindInd /\ ContentsInd
  BY BindInitInd, ContentsInit
<1>2. BindInd /\ ContentsInd /\ [BindNext]_bindVars => (BindInd /\ ContentsInd)'
  BY BindStepInd, ContentsStep
<1>3. QED
  BY <1>1, <1>2, PTL DEF BindSpec

-------------------------------------------------------------------------------
(***************************************************************************)
(* The theorems about vkQueueBindSparse.                                   *)
(***************************************************************************)

\* The thread, its call, the submissions and the fence are what they should
\* be (QueueBindSparse of sparse_binding.cpp).
THEOREM BindTypeCorrect == BindSpec => []BindTypeOK
<1>1. BindInd => BindTypeOK
  BY DEF BindInd
<1>2. QED
  BY <1>1, BindInductive, PTL

\* The infos of a vkQueueBindSparse take effect once each and in the order of
\* the array, whatever fails, and after those of earlier calls, except what a call
\* left pending that failed or went on after a failed wait; any other call has done
\* them all when it returns, and the fence is signaled when all are done and not
\* before (QueueBindSparse of sparse_binding.cpp, SubmitOneShot of queue.cpp).
THEOREM BindsAreOrdered == BindSpec => []BindsOrdered
<1>1. BindInd => BindsOrdered
  <2> SUFFICES ASSUME BindInd PROVE BindsOrdered
    OBVIOUS
  <2>1. pc = "idle" /\ count \notin failed \cup unwaited => AllExecuted
    <3>1. pc = "idle" /\ count \notin failed \cup unwaited => \A w \in pending : w.call # count
      BY DEF BindInd, Submissions
    <3>2. QED
      BY <3>1 DEF BindInd, Progress, AllDone, Done, AllExecuted
  <2>2. QED
    BY <2>1 DEF BindInd, InOrder, Progress, BindsOrdered
<1>2. QED
  BY <1>1, BindInductive, PTL

\* An intermediate semaphore outlives every submission that waits for it or
\* signals it, but for calls the finalizer did not wait for and calls that failed
\* after a failed wait, and each is the business of the call or of a batch of the
\* finalizer's, unless a call has failed; what a call has submitted whose waits
\* succeeded finds the intermediate semaphore it waits for signaled (the chain of
\* QueueBindSparse and the staging resources it hands over).
THEOREM SemaphoresAreSettled == BindSpec => []SemaphoresSettled
<1>1. BindInd /\ ContentsInd => SemaphoresSettled
  <2> SUFFICES ASSUME BindInd, ContentsInd PROVE SemaphoresSettled
    OBVIOUS
  <2>1. \A w \in pending :
          w.call \in unkept \cup (failed \cap unwaited) \/ Intermediate(w) \subseteq live
    BY DEF BindInd, Separate, Undone
  <2>2. \A w \in pending : w.call \notin failed \cup unwaited =>
          \A s \in w.waits \cap StagingSemaphores : sem[s]
    BY DEF BindInd, Submissions, ContentsInd, Signaled
  <2>3. pc = "idle" => ~(Chaining \/ pc = "stuck")
    BY DEF Chaining
  <2>4. failed = {} =>
          /\ live \subseteq (IF pc = "idle" THEN {} ELSE stagingSemaphores)
                              \cup UNION {x.sems : x \in batches}
          /\ \A x \in batches : x.fenced
    BY <2>3 DEF BindInd, Settled
  <2>5. QED
    BY <2>1, <2>2, <2>4 DEF SemaphoresSettled
<1>2. QED
  BY <1>1, ContentsInductive, PTL

\* Between two calls the buffer shows what sparse binding would show, but for
\* the bytes of binds the layer does otherwise or past the buffer's end, of
\* staging buffers not kept, and of calls that failed or whose wait failed; and an
\* image whose last bind was null shows zeros, unless there are such calls
\* (RecordBufferBinds and RecordImageOpaqueBinds).
THEOREM ContentsAreFollowed == BindSpec => []ContentsFollow
<1>1. ContentsInd => ContentsFollow
  BY DEF ContentsInd, Shown, Cleared, Even, ContentsFollow
<1>2. QED
  BY <1>1, ContentsInductive, PTL

-------------------------------------------------------------------------------
(***************************************************************************)
(* The block shapes.                                                       *)
(***************************************************************************)

\* A block is one texel, or has these sides.
Sides == {4, 5, 6, 8, 10, 12}

\* What was told is the shape of the format that was asked for.
ShapesInd == asked = 0 \/ (asked \in Formats /\ imageGranularity = GetBlockShape(asked))

\* The table of bytes agrees with Vulkan's, but for the formats it lacks.
LEMMA BytesAgree ==
  ASSUME NEW s \in Sizes, NEW f \in s[1] .. s[2], f \notin Unlisted
  PROVE  GetTexelBytes(f) = s[3]
BY DEF Sizes, Unlisted, GetTexelBytes, Listed, Astc, AstcSfloat

\* A format the table lacks is told the shape of four bytes.
LEMMA UnlistedShape ==
  ASSUME NEW f \in Formats,
         \A s \in Sizes : f \in s[1] .. s[2] => f \in Unlisted
  PROVE  GetBlockShape(f) = <<128, 128>>
<1>1. f \in Int /\ f # 0 /\ (f \in 1 .. 184 \/ f \in Astc \/ f \in ExtensionFormats)
  BY FormatsAssumption DEF Formats, Astc, AstcSfloat
<1>2. \/ f \in 1 .. 8 \cup 23 .. 36 \cup 84 .. 90 \cup 104 .. 106 \cup 116 .. 121
               \cup {128, 130}
      \/ f \in ExtensionFormats /\ f \notin 0 .. 184 /\ f \notin Astc
  BY <1>1, FormatsAssumption DEF Sizes, Unlisted, Astc, AstcSfloat
<1>3. GetTexelBytes(f) = 4
  BY <1>1, <1>2 DEF GetTexelBytes, Listed, Astc, AstcSfloat
<1>4. GetBlockDimensions(f) = <<1, 1>>
  BY <1>1, <1>2 DEF GetBlockDimensions, FourByFour, Astc, AstcSfloat
<1>5. QED
  BY <1>3, <1>4 DEF GetBlockShape

\* A compressed format has a block of more than one texel.
LEMMA CompressedBlock ==
  ASSUME NEW f \in Compressed
  PROVE  \E p, q \in Sides : GetBlockDimensions(f) = <<p, q>>
<1>1. ASSUME NEW i \in 1 .. 14
      PROVE  \E p, q \in Sides : AstcBlocks[i] = <<p, q>>
  <2>1. AstcBlocks[i] \in Sides \X Sides
    BY DEF AstcBlocks, Sides
  <2>2. QED
    BY <2>1
<1>2. CASE f \in 157 .. 184
  <2>1. (f - 157) \div 2 + 1 \in 1 .. 14
    BY <1>2
  <2>2. GetBlockDimensions(f) = AstcBlocks[(f - 157) \div 2 + 1]
    BY <1>2 DEF GetBlockDimensions, FourByFour, AstcSfloat
  <2>3. QED
    BY <1>1, <2>1, <2>2
<1>3. CASE f \in AstcSfloat .. AstcSfloat + 13
  <2>1. f - AstcSfloat + 1 \in 1 .. 14
    BY <1>3 DEF AstcSfloat
  <2>2. GetBlockDimensions(f) = AstcBlocks[f - AstcSfloat + 1]
    BY <1>3 DEF GetBlockDimensions, FourByFour, AstcSfloat
  <2>3. QED
    BY <1>1, <2>1, <2>2
<1>4. CASE f \in 131 .. 156
  <2>1. GetBlockDimensions(f) = <<4, 4>>
    BY <1>4 DEF GetBlockDimensions, FourByFour, AstcSfloat
  <2>2. QED
    BY <2>1 DEF Sides
<1>5. QED
  BY <1>2, <1>3, <1>4 DEF Compressed, Astc, AstcSfloat

\* Another has one of one texel.
LEMMA UncompressedBlock ==
  ASSUME NEW f \in 1 .. 130
  PROVE  GetBlockDimensions(f) = <<1, 1>>
BY DEF GetBlockDimensions, FourByFour, AstcSfloat

\* The shape of a format that the table has is standard.
LEMMA ShapeIsStandard ==
  ASSUME NEW s \in Sizes, NEW f \in s[1] .. s[2], f \notin Unlisted
  PROVE  IsStandard(GetBlockShape(f), f, s[3])
<1>1. f \in 1 .. 130 \/ f \in Compressed
  BY DEF Sizes, Compressed, Astc, AstcSfloat
<1>2. GetTexelBytes(f) = s[3]
  BY BytesAgree
<1>3. s[3] \in {1, 2, 4, 8, 16}
  BY DEF Sizes
<1> DEFINE sides == {<<256, 256, 1>>, <<256, 128, 2>>, <<128, 128, 4>>,
                     <<128, 64, 8>>, <<64, 64, 16>>}
<1>4. PICK t \in sides :
        /\ s[3] = t[3]
        /\ GetBlockShape(f) = <<t[1] * GetBlockDimensions(f)[1],
                                t[2] * GetBlockDimensions(f)[2]>>
  BY <1>2, <1>3 DEF GetBlockShape
<1>5. CASE f \in Compressed
  <2>1. PICK p \in Sides, q \in Sides : GetBlockDimensions(f) = <<p, q>>
    BY <1>5, CompressedBlock
  <2>2. GetBlockShape(f) = <<t[1] * p, t[2] * q>>
    BY <1>4, <2>1
  <2>3. /\ (t[1] * p) \div p = t[1] /\ (t[2] * q) \div q = t[2]
        /\ p >= 4 /\ q >= 4
    BY DEF Sides
  <2>4. t[1] * t[2] * t[3] = 65536 /\ t[1] \in {t[2], 2 * t[2]}
    OBVIOUS
  <2> HIDE DEF sides
  <2>5. QED
    BY <1>4, <1>5, <2>1, <2>2, <2>3, <2>4 DEF IsStandard
<1>6. CASE f \notin Compressed
  <2>1. GetBlockShape(f) = <<t[1], t[2]>>
    BY <1>1, <1>4, <1>6, UncompressedBlock
  <2>2. /\ t[1] * t[2] * t[3] = 65536 /\ t[1] \in {t[2], 2 * t[2]}
        /\ t[1] \div 1 = t[1] /\ t[2] \div 1 = t[2]
        /\ t[1] * 1 = t[1] /\ t[2] * 1 = t[2]
    OBVIOUS
  <2> HIDE DEF sides
  <2>3. QED
    BY <1>4, <1>6, <2>1, <2>2 DEF IsStandard
<1>7. QED
  BY <1>5, <1>6

\* A sparse image of a format whose standard block shape the layer knows is told
\* that shape, and one of any other format, whatever formats extensions bring, the
\* shape of four bytes (GetPhysicalDeviceSparseImageFormatProperties2 of
\* sparse_binding.cpp).
THEOREM ShapesAreStandard == ShapesSpec => []ShapesStandard
<1>1. ShapesInit => ShapesInd
  BY DEF ShapesInit, ShapesInd
<1>2. ShapesInd /\ [ShapesNext]_shapeVars => ShapesInd'
  BY DEF ShapesInd, ShapesNext, shapeVars, GetPhysicalDeviceSparseImageFormatProperties2
<1>3. ShapesInd => ShapesStandard
  <2> SUFFICES ASSUME ShapesInd, asked # 0 PROVE ShapesStandard
    BY DEF ShapesStandard
  <2>1. asked \in Formats /\ imageGranularity = GetBlockShape(asked)
    BY DEF ShapesInd
  <2>2. CASE \E s \in Sizes : asked \in s[1] .. s[2] /\ asked \notin Unlisted
    BY <2>1, <2>2, ShapeIsStandard DEF ShapesStandard
  <2>3. CASE \A s \in Sizes : asked \in s[1] .. s[2] => asked \in Unlisted
    BY <2>1, <2>3, UnlistedShape DEF ShapesStandard
  <2>4. QED
    BY <2>2, <2>3
<1>4. QED
  BY <1>1, <1>2, <1>3, PTL DEF ShapesSpec
===============================================================================
