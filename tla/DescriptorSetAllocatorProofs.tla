--------------------- MODULE DescriptorSetAllocatorProofs ---------------------
(***************************************************************************)
(* Proofs about DescriptorSetAllocator for any number of pools and sets,   *)
(* any pool size and any reserve.                                          *)
(*                                                                         *)
(* The argument is one of accounting.  Exact relates the driver's pools,   *)
(* the occupancy counters, the callers' pairs and the total; four lemmas   *)
(* say that the elementary updates the code is made of (issue a set, take  *)
(* a set back, add an empty pool, drop an empty pool) keep it.  With it, a *)
(* pool whose counter is 0 is empty in the driver, so resetting or         *)
(* destroying it hurts no holder.                                          *)
(***************************************************************************)
EXTENDS DescriptorSetAllocator, FiniteSetTheorems, TLAPS

\* The pairs of a pool and a set that is live in it.
Pairs(lv) == {h \in (DOMAIN lv) \X Sets : h[2] \in lv[h[1]]}

\* The sets live in any pool of lv.
AllSets(lv) == UNION {lv[q] : q \in DOMAIN lv}

Exact(lv, occ, hs, n) ==
    /\ DOMAIN lv \in SUBSET Pools
    /\ lv \in [DOMAIN lv -> SUBSET Sets]
    /\ occ \in [DOMAIN lv -> Nat]
    /\ \A p \in DOMAIN lv : occ[p] = Cardinality(lv[p])
    /\ \A p, q \in DOMAIN lv : p # q => lv[p] \cap lv[q] = {}
    /\ hs = Pairs(lv)
    /\ n \in Nat
    /\ n = Cardinality(hs)

Accounts == Exact(live, occupancy, held, allocated_count)

\* The inductive invariant.
IndInv ==
    /\ open \in BOOLEAN
    /\ activePool \in Pools \cup {NoPool}
    /\ exhaustedPools \in SUBSET Pools
    /\ activePool \notin exhaustedPools
    /\ DOMAIN live = Retired
    /\ Accounts
    /\ VacancyBounded

-------------------------------------------------------------------------------
(***************************************************************************)
(* Finiteness and the elementary updates.                                  *)
(***************************************************************************)

\* Sets of pools, of sets and of pairs are finite.
LEMMA FinitePools ==
  ASSUME NEW P \in SUBSET Pools
  PROVE  IsFiniteSet(P) /\ Cardinality(P) \in Nat
BY HandlesAssumption, FS_Subset, FS_CardinalityType

LEMMA FiniteSetsOfSets ==
  ASSUME NEW S \in SUBSET Sets
  PROVE  IsFiniteSet(S) /\ Cardinality(S) \in Nat
BY HandlesAssumption, FS_Subset, FS_CardinalityType

LEMMA FinitePairs ==
  ASSUME NEW H \in SUBSET (Pools \X Sets)
  PROVE  IsFiniteSet(H) /\ Cardinality(H) \in Nat
<1>1. IsFiniteSet(Pools \X Sets)
  BY HandlesAssumption, FS_Product
<1>2. QED
  BY <1>1, FS_Subset, FS_CardinalityType

\* Assigning the value a key already has changes nothing.
LEMMA WithSame ==
  ASSUME NEW D, NEW T, NEW f \in [D -> T], NEW p \in D
  PROVE  With(f, p, f[p]) = f
<1>1. D \cup {p} = D
  OBVIOUS
<1>2. With(f, p, f[p]) = [q \in D |-> f[q]]
  BY <1>1 DEF With
<1>3. QED
  BY <1>2

\* Issuing a set that is live nowhere, as Succeed does.
LEMMA ExactIssue ==
  ASSUME NEW lv, NEW occ, NEW hs, NEW n, Exact(lv, occ, hs, n),
         NEW p \in DOMAIN lv, NEW s \in Sets, s \notin AllSets(lv)
  PROVE  Exact(With(lv, p, lv[p] \cup {s}), With(occ, p, occ[p] + 1),
               hs \cup {<<p, s>>}, n + 1)
<1> DEFINE lv1 == With(lv, p, lv[p] \cup {s})
           occ1 == With(occ, p, occ[p] + 1)
<1>1. /\ DOMAIN lv1 = DOMAIN lv
      /\ lv1[p] = lv[p] \cup {s}
      /\ \A q \in DOMAIN lv : q # p => lv1[q] = lv[q]
  BY DEF With
<1>2. /\ DOMAIN occ1 = DOMAIN lv
      /\ occ1[p] = occ[p] + 1
      /\ \A q \in DOMAIN lv : q # p => occ1[q] = occ[q]
  BY DEF With, Exact
<1>3. /\ lv1 \in [DOMAIN lv -> SUBSET Sets]
      /\ occ1 \in [DOMAIN lv -> Nat]
  BY <1>1, <1>2 DEF Exact, With
<1>4. \A q \in DOMAIN lv : s \notin lv[q]
  BY DEF AllSets
<1>5. ASSUME NEW q \in DOMAIN lv
      PROVE  occ1[q] = Cardinality(lv1[q])
  <2>1. CASE q = p
    <3>1. IsFiniteSet(lv[p])
      BY FiniteSetsOfSets DEF Exact
    <3>2. Cardinality(lv[p] \cup {s}) = Cardinality(lv[p]) + 1
      BY <3>1, <1>4, FS_AddElement
    <3>3. QED
      BY <2>1, <3>2, <1>1, <1>2 DEF Exact
  <2>2. CASE q # p
    BY <2>2, <1>1, <1>2 DEF Exact
  <2>3. QED
    BY <2>1, <2>2
<1>6. \A q, r \in DOMAIN lv : q # r => lv1[q] \cap lv1[r] = {}
  BY <1>1, <1>4 DEF Exact
<1>7. hs \cup {<<p, s>>} = Pairs(lv1)
  <2>1. ASSUME NEW h \in hs
        PROVE  h \in Pairs(lv1)
    BY <1>1 DEF Exact, Pairs
  <2>2. <<p, s>> \in Pairs(lv1)
    BY <1>1 DEF Pairs
  <2>3. ASSUME NEW h \in Pairs(lv1)
        PROVE  h \in hs \cup {<<p, s>>}
    <3>1. PICK q \in DOMAIN lv, t \in Sets : h = <<q, t>> /\ t \in lv1[q]
      BY <1>1 DEF Pairs
    <3>2. t \in lv[q] \/ h = <<p, s>>
      BY <3>1, <1>1
    <3>3. QED
      BY <3>1, <3>2 DEF Exact, Pairs
  <2>4. QED
    BY <2>1, <2>2, <2>3
<1>8. n + 1 = Cardinality(hs \cup {<<p, s>>})
  <2>1. hs \in SUBSET (Pools \X Sets)
    BY DEF Exact, Pairs
  <2>2. <<p, s>> \notin hs
    BY <1>4 DEF Exact, Pairs
  <2>3. IsFiniteSet(hs)
    BY <2>1, FinitePairs
  <2>4. QED
    BY <2>2, <2>3, FS_AddElement DEF Exact
<1>9. n + 1 \in Nat
  BY DEF Exact
<1>10. DOMAIN lv \in SUBSET Pools
  BY DEF Exact
<1> HIDE DEF lv1, occ1
<1>11. Exact(lv1, occ1, hs \cup {<<p, s>>}, n + 1)
  BY <1>1, <1>3, <1>5, <1>6, <1>7, <1>8, <1>9, <1>10 DEF Exact
<1>12. QED
  BY <1>11 DEF lv1, occ1

\* Taking a set back from the pool it lives in, as Free does.
LEMMA ExactReturn ==
  ASSUME NEW lv, NEW occ, NEW hs, NEW n, Exact(lv, occ, hs, n),
         NEW p, NEW s, <<p, s>> \in hs
  PROVE  Exact(With(lv, p, lv[p] \ {s}), With(occ, p, occ[p] - 1),
               hs \ {<<p, s>>}, n - 1)
<1> DEFINE lv1 == With(lv, p, lv[p] \ {s})
           occ1 == With(occ, p, occ[p] - 1)
<1>0. p \in DOMAIN lv /\ s \in Sets /\ s \in lv[p]
  BY DEF Exact, Pairs
<1>1. /\ DOMAIN lv1 = DOMAIN lv
      /\ lv1[p] = lv[p] \ {s}
      /\ \A q \in DOMAIN lv : q # p => lv1[q] = lv[q]
  BY <1>0 DEF With
<1>2. /\ DOMAIN occ1 = DOMAIN lv
      /\ occ1[p] = occ[p] - 1
      /\ \A q \in DOMAIN lv : q # p => occ1[q] = occ[q]
  BY <1>0 DEF With, Exact
<1>3. occ[p] - 1 = Cardinality(lv[p] \ {s}) /\ occ[p] - 1 \in Nat
  <2>1. IsFiniteSet(lv[p]) /\ IsFiniteSet(lv[p] \ {s})
    BY <1>0, FiniteSetsOfSets DEF Exact
  <2>2. Cardinality(lv[p] \ {s}) = Cardinality(lv[p]) - 1
    BY <2>1, <1>0, FS_RemoveElement
  <2>3. Cardinality(lv[p] \ {s}) \in Nat
    BY <2>1, FS_CardinalityType
  <2>4. QED
    BY <2>2, <2>3, <1>0 DEF Exact
<1>4. /\ lv1 \in [DOMAIN lv -> SUBSET Sets]
      /\ occ1 \in [DOMAIN lv -> Nat]
  BY <1>0, <1>3 DEF Exact, With
<1>5. \A q \in DOMAIN lv : occ1[q] = Cardinality(lv1[q])
  BY <1>1, <1>2, <1>3 DEF Exact
<1>6. \A q, r \in DOMAIN lv : q # r => lv1[q] \cap lv1[r] = {}
  BY <1>1 DEF Exact
<1>7. hs \ {<<p, s>>} = Pairs(lv1)
  <2>1. ASSUME NEW h \in hs, h # <<p, s>>
        PROVE  h \in Pairs(lv1)
    <3>1. PICK q \in DOMAIN lv, t \in Sets : h = <<q, t>> /\ t \in lv[q]
      BY DEF Exact, Pairs
    <3>2. t \in lv1[q]
      BY <2>1, <3>1, <1>1
    <3>3. QED
      BY <3>1, <3>2, <1>1 DEF Pairs
  <2>2. ASSUME NEW h \in Pairs(lv1)
        PROVE  h \in hs /\ h # <<p, s>>
    <3>1. PICK q \in DOMAIN lv, t \in Sets : h = <<q, t>> /\ t \in lv1[q]
      BY <1>1 DEF Pairs
    <3>2. t \in lv[q] /\ h # <<p, s>>
      BY <3>1, <1>1
    <3>3. QED
      BY <3>1, <3>2 DEF Exact, Pairs
  <2>3. QED
    BY <2>1, <2>2
<1>8. n - 1 = Cardinality(hs \ {<<p, s>>}) /\ n - 1 \in Nat
  <2>1. hs \in SUBSET (Pools \X Sets)
    BY DEF Exact, Pairs
  <2>2. IsFiniteSet(hs) /\ IsFiniteSet(hs \ {<<p, s>>})
    BY <2>1, FinitePairs
  <2>3. Cardinality(hs \ {<<p, s>>}) = Cardinality(hs) - 1
    BY <2>2, FS_RemoveElement
  <2>4. Cardinality(hs \ {<<p, s>>}) \in Nat
    BY <2>2, FS_CardinalityType
  <2>5. QED
    BY <2>3, <2>4 DEF Exact
<1>9. DOMAIN lv \in SUBSET Pools
  BY DEF Exact
<1> HIDE DEF lv1, occ1
<1>10. Exact(lv1, occ1, hs \ {<<p, s>>}, n - 1)
  BY <1>1, <1>4, <1>5, <1>6, <1>7, <1>8, <1>9 DEF Exact
<1>11. QED
  BY <1>10 DEF lv1, occ1

\* A new pool with no sets and occupancy 0, as createNewPool adds.
LEMMA ExactCreate ==
  ASSUME NEW lv, NEW occ, NEW hs, NEW n, Exact(lv, occ, hs, n),
         NEW p \in Pools \ DOMAIN lv
  PROVE  /\ Exact(With(lv, p, {}), With(occ, p, 0), hs, n)
         /\ AllSets(With(lv, p, {})) = AllSets(lv)
<1> DEFINE lv1 == With(lv, p, {})
           occ1 == With(occ, p, 0)
<1>1. /\ DOMAIN lv1 = DOMAIN lv \cup {p}
      /\ lv1[p] = {}
      /\ \A q \in DOMAIN lv : lv1[q] = lv[q]
  BY DEF With
<1>2. /\ DOMAIN occ1 = DOMAIN lv \cup {p}
      /\ occ1[p] = 0
      /\ \A q \in DOMAIN lv : occ1[q] = occ[q]
  BY DEF With, Exact
<1>3. /\ lv1 \in [DOMAIN lv \cup {p} -> SUBSET Sets]
      /\ occ1 \in [DOMAIN lv \cup {p} -> Nat]
  BY DEF Exact, With
<1>4. \A q \in DOMAIN lv1 : occ1[q] = Cardinality(lv1[q])
  BY <1>1, <1>2, FS_EmptySet DEF Exact
<1>5. \A q, r \in DOMAIN lv1 : q # r => lv1[q] \cap lv1[r] = {}
  BY <1>1 DEF Exact
<1>6. hs = Pairs(lv1)
  BY <1>1 DEF Exact, Pairs
<1>7. DOMAIN lv \cup {p} \in SUBSET Pools
  BY DEF Exact
<1>8. AllSets(lv1) = AllSets(lv)
  BY <1>1 DEF AllSets
<1> HIDE DEF lv1, occ1
<1>9. Exact(lv1, occ1, hs, n)
  BY <1>1, <1>3, <1>4, <1>5, <1>6, <1>7 DEF Exact
<1>10. QED
  BY <1>8, <1>9 DEF lv1, occ1

\* A pool whose counter is 0 holds no set.
LEMMA ZeroIsEmpty ==
  ASSUME NEW lv, NEW occ, NEW hs, NEW n, Exact(lv, occ, hs, n),
         NEW p \in DOMAIN lv, occ[p] = 0
  PROVE  lv[p] = {}
<1>1. IsFiniteSet(lv[p]) /\ Cardinality(lv[p]) = 0
  BY FiniteSetsOfSets DEF Exact
<1>2. QED
  BY <1>1, FS_EmptySet

\* Destroying a pool whose counter is 0.
LEMMA ExactDestroy ==
  ASSUME NEW lv, NEW occ, NEW hs, NEW n, Exact(lv, occ, hs, n),
         NEW p \in DOMAIN lv, occ[p] = 0
  PROVE  /\ Exact(Without(lv, p), Without(occ, p), hs, n)
         /\ AllSets(Without(lv, p)) = AllSets(lv)
<1> DEFINE lv1 == Without(lv, p)
           occ1 == Without(occ, p)
<1>1. lv[p] = {}
  BY ZeroIsEmpty
<1>2. /\ DOMAIN lv1 = DOMAIN lv \ {p}
      /\ \A q \in DOMAIN lv1 : lv1[q] = lv[q]
  BY DEF Without
<1>3. /\ DOMAIN occ1 = DOMAIN lv \ {p}
      /\ \A q \in DOMAIN lv1 : occ1[q] = occ[q]
  BY DEF Without, Exact
<1>4. /\ lv1 \in [DOMAIN lv1 -> SUBSET Sets]
      /\ occ1 \in [DOMAIN lv1 -> Nat]
  BY <1>2, <1>3 DEF Exact, Without
<1>5. \A q \in DOMAIN lv1 : occ1[q] = Cardinality(lv1[q])
  BY <1>2, <1>3 DEF Exact
<1>6. \A q, r \in DOMAIN lv1 : q # r => lv1[q] \cap lv1[r] = {}
  BY <1>2 DEF Exact
<1>7. hs = Pairs(lv1)
  BY <1>1, <1>2 DEF Exact, Pairs
<1>8. DOMAIN lv1 \in SUBSET Pools
  BY <1>2 DEF Exact
<1>9. AllSets(lv1) = AllSets(lv)
  BY <1>1, <1>2 DEF AllSets
<1> HIDE DEF lv1, occ1
<1>10. Exact(lv1, occ1, hs, n)
  BY <1>4, <1>5, <1>6, <1>7, <1>8 DEF Exact
<1>11. QED
  BY <1>9, <1>10 DEF lv1, occ1

-------------------------------------------------------------------------------
(***************************************************************************)
(* The invariant is inductive.                                             *)
(***************************************************************************)

LEMMA InitInd == Init => IndInv
<1> SUFFICES ASSUME Init PROVE IndInv
  OBVIOUS
<1> USE DEF Init
<1>1. DOMAIN live = Retired /\ DOMAIN live \in SUBSET Pools
  BY HandlesAssumption DEF Retired
<1>2. held = Pairs(live)
  BY DEF Pairs
<1>3. Accounts
  <2>1. \A p \in DOMAIN live : occupancy[p] = Cardinality(live[p])
    BY FS_EmptySet
  <2>2. allocated_count = Cardinality(held)
    BY FS_EmptySet
  <2>3. /\ live \in [DOMAIN live -> SUBSET Sets]
        /\ occupancy \in [DOMAIN live -> Nat]
    OBVIOUS
  <2>4. QED
    BY <1>1, <1>2, <2>1, <2>2, <2>3 DEF Accounts, Exact
<1>4. VacancyBounded
  BY FS_EmptySet, SizesAssumption DEF VacancyBounded, Vacant
<1>5. QED
  BY <1>1, <1>3, <1>4 DEF IndInv

\* What a successful driver allocation leaves, in the active pool, in a
\* recycled one or in a new one.
LEMMA SucceedAccounts ==
  ASSUME NEW lv, NEW occ, Exact(lv, occ, held, allocated_count),
         AllSets(lv) = LiveSets, NEW p \in DOMAIN lv, Succeed(p, lv, occ)
  PROVE  /\ Accounts'
         /\ DOMAIN live' = DOMAIN lv
         /\ \A q \in DOMAIN lv : q # p => occupancy'[q] = occ[q]
<1>1. PICK s \in Sets \ LiveSets :
         /\ live' = With(lv, p, lv[p] \cup {s})
         /\ held' = held \cup {<<p, s>>}
  BY DEF Succeed
<1>2. /\ occupancy' = With(occ, p, occ[p] + 1)
      /\ allocated_count' = allocated_count + 1
  BY DEF Succeed
<1>3. Accounts'
  BY <1>1, <1>2, ExactIssue DEF Accounts
<1>4. DOMAIN live' = DOMAIN lv
  BY <1>1 DEF With
<1>5. \A q \in DOMAIN lv : q # p => occupancy'[q] = occ[q]
  BY <1>2 DEF With, Exact
<1>6. QED
  BY <1>3, <1>4, <1>5

LEMMA FromActiveInd == IndInv /\ AllocateFromActive => IndInv'
<1> SUFFICES ASSUME IndInv, AllocateFromActive PROVE IndInv'
  OBVIOUS
<1>1. activePool \in DOMAIN live
  BY DEF IndInv, Retired, AllocateFromActive
<1>2. /\ Accounts'
      /\ DOMAIN live' = DOMAIN live
      /\ \A q \in DOMAIN live : q # activePool => occupancy'[q] = occupancy[q]
  BY <1>1, SucceedAccounts
     DEF IndInv, Accounts, AllocateFromActive, LiveSets, AllSets
<1>3. Vacant(exhaustedPools)' = Vacant(exhaustedPools)
  BY <1>2 DEF Vacant, IndInv, Retired, AllocateFromActive
<1>4. VacancyBounded'
  BY <1>3 DEF VacancyBounded, IndInv
<1>5. Retired' = Retired
  BY DEF Retired, AllocateFromActive
<1>6. QED
  BY <1>2, <1>4, <1>5 DEF IndInv, AllocateFromActive

LEMMA FromVacantInd ==
  ASSUME NEW p \in Pools
  PROVE  IndInv /\ AllocateFromVacant(p) => IndInv'
<1> SUFFICES ASSUME IndInv, AllocateFromVacant(p) PROVE IndInv'
  OBVIOUS
<1>1. p \in Retired /\ occupancy[p] = 0 /\ p \in DOMAIN live
  BY DEF AllocateFromVacant, Vacant, IndInv
<1>2. With(live, p, {}) = live
  <2>1. live[p] = {}
    BY <1>1, ZeroIsEmpty DEF IndInv, Accounts
  <2>2. live \in [DOMAIN live -> SUBSET Sets]
    BY DEF IndInv, Accounts, Exact
  <2>3. With(live, p, live[p]) = live
    BY <2>2, <1>1, WithSame
  <2>4. QED
    BY <2>1, <2>3
<1>3. /\ Accounts'
      /\ DOMAIN live' = DOMAIN live
      /\ \A q \in DOMAIN live : q # p => occupancy'[q] = occupancy[q]
  <2>1. CASE Succeed(p, live, occupancy)
    BY <2>1, <1>1, SucceedAccounts DEF IndInv, Accounts, LiveSets, AllSets
  <2>2. CASE Refuse(live, occupancy)
    BY <2>2 DEF IndInv, Accounts, Refuse
  <2>3. QED
    BY <1>2, <2>1, <2>2 DEF AllocateFromVacant
<1>4. p # NoPool /\ activePool' = p /\ exhaustedPools' = Retired \ {p}
  BY HandlesAssumption DEF AllocateFromVacant
<1>5. Retired' = Retired
  BY <1>1, <1>4 DEF Retired
<1>6. VacancyBounded'
  <2> DEFINE V == Vacant(exhaustedPools)
             W == Vacant(exhaustedPools)'
  <2>1. W = {q \in Retired \ {p} : occupancy[q] = 0}
    BY <1>3, <1>4 DEF Vacant, IndInv
  <2>2. V \in SUBSET Pools /\ IsFiniteSet(V) /\ Cardinality(V) \in Nat
    BY FinitePools DEF Vacant, IndInv
  <2>3. Cardinality(V) <= MaxEmptyPoolsToReserve
    BY DEF IndInv, VacancyBounded
  <2>4. CASE p = activePool
    <3>1. W \in SUBSET V
      BY <2>1, <2>4 DEF Vacant, Retired
    <3>2. Cardinality(W) <= Cardinality(V) /\ IsFiniteSet(W)
      BY <3>1, <2>2, FS_Subset
    <3>3. Cardinality(W) \in Nat
      BY <3>2, FS_CardinalityType
    <3>4. QED
      BY <3>2, <3>3, <2>2, <2>3, SizesAssumption DEF VacancyBounded
  <2>5. CASE p # activePool
    <3>1. p \in V
      BY <2>5, <1>1 DEF Vacant, Retired
    <3>2. W \in SUBSET ((V \ {p}) \cup {activePool})
      BY <2>1 DEF Vacant, Retired
    <3>3. IsFiniteSet(V \ {p}) /\ Cardinality(V \ {p}) = Cardinality(V) - 1
      BY <3>1, <2>2, FS_RemoveElement
    <3>4. /\ IsFiniteSet((V \ {p}) \cup {activePool})
          /\ Cardinality((V \ {p}) \cup {activePool}) <= Cardinality(V)
      BY <3>3, <2>2, FS_AddElement
    <3>5. IsFiniteSet(W) /\ Cardinality(W) <= Cardinality((V \ {p}) \cup {activePool})
      BY <3>2, <3>4, FS_Subset
    <3>6. Cardinality(W) \in Nat /\ Cardinality((V \ {p}) \cup {activePool}) \in Nat
      BY <3>4, <3>5, FS_CardinalityType
    <3>7. QED
      BY <3>4, <3>5, <3>6, <2>2, <2>3, SizesAssumption DEF VacancyBounded
  <2>6. QED
    BY <2>4, <2>5
<1>7. QED
  BY <1>3, <1>4, <1>5, <1>6 DEF IndInv, AllocateFromVacant, Retired

LEMMA FromNewInd ==
  ASSUME NEW p \in Pools
  PROVE  IndInv /\ AllocateFromNew(p) => IndInv'
<1> SUFFICES ASSUME IndInv, AllocateFromNew(p) PROVE IndInv'
  OBVIOUS
<1> DEFINE lv == With(live, p, {})
           occ == With(occupancy, p, 0)
<1>1. p \in Pools \ DOMAIN live
  BY DEF AllocateFromNew
<1>2. Exact(lv, occ, held, allocated_count) /\ AllSets(lv) = LiveSets
  BY <1>1, ExactCreate DEF IndInv, Accounts, AllSets, LiveSets
<1>3. /\ DOMAIN lv = DOMAIN live \cup {p}
      /\ \A q \in DOMAIN live : occ[q] = occupancy[q]
  BY <1>1 DEF With, IndInv, Accounts, Exact
<1>4. Succeed(p, lv, occ) \/ Refuse(lv, occ)
  BY DEF AllocateFromNew
<1> HIDE DEF lv, occ
<1>5. /\ Accounts'
      /\ DOMAIN live' = DOMAIN lv
      /\ \A q \in DOMAIN lv : q # p => occupancy'[q] = occ[q]
  <2>1. CASE Succeed(p, lv, occ)
    BY <2>1, <1>2, <1>3, SucceedAccounts
  <2>2. CASE Refuse(lv, occ)
    BY <2>2, <1>2 DEF Accounts, Refuse
  <2>3. QED
    BY <1>4, <2>1, <2>2
<1>6. p # NoPool /\ activePool' = p /\ exhaustedPools' = Retired
  BY HandlesAssumption DEF AllocateFromNew
<1>7. Retired' = DOMAIN live' /\ exhaustedPools' \in SUBSET Pools /\ p \notin exhaustedPools'
  BY <1>1, <1>3, <1>5, <1>6 DEF Retired, IndInv, Accounts, Exact
<1>8. Vacant(exhaustedPools)' = {}
  BY <1>1, <1>3, <1>5, <1>6 DEF Vacant, IndInv, AllocateFromNew
<1>9. VacancyBounded'
  BY <1>8, FS_EmptySet, SizesAssumption DEF VacancyBounded
<1>10. QED
  BY <1>5, <1>6, <1>7, <1>9 DEF IndInv, AllocateFromNew

LEMMA NoPoolInd == IndInv /\ AllocateNoPool => IndInv'
<1> SUFFICES ASSUME IndInv, AllocateNoPool PROVE IndInv'
  OBVIOUS
<1>1. activePool' = NoPool /\ exhaustedPools' = Retired
  BY DEF AllocateNoPool
<1>2. Accounts' /\ DOMAIN live' = DOMAIN live
  BY DEF IndInv, Accounts, AllocateNoPool
<1>3. Retired' = Retired /\ Retired \in SUBSET Pools
  BY <1>1 DEF Retired, IndInv, Accounts, Exact
<1>4. Vacant(exhaustedPools)' = {}
  BY <1>1 DEF Vacant, AllocateNoPool
<1>5. VacancyBounded'
  BY <1>4, FS_EmptySet, SizesAssumption DEF VacancyBounded
<1>6. QED
  BY <1>1, <1>2, <1>3, <1>5, HandlesAssumption DEF IndInv, AllocateNoPool

\* A pool somebody holds a set of has a positive count, so free's test of it
\* never fails.
LEMMA HeldIsCounted ==
  ASSUME Accounts, NEW p, NEW s, <<p, s>> \in held
  PROVE  Decremented(p) = With(occupancy, p, occupancy[p] - 1)
<1>1. p \in DOMAIN live /\ s \in live[p]
  BY DEF Accounts, Exact, Pairs
<1>2. occupancy[p] = Cardinality(live[p]) /\ occupancy[p] \in Nat
  BY <1>1 DEF Accounts, Exact
<1>3. IsFiniteSet(live[p]) /\ live[p] # {}
  BY <1>1, HandlesAssumption, FS_Subset DEF Accounts, Exact
<1>4. Cardinality(live[p]) # 0
  BY <1>3, FS_EmptySet
<1>5. DOMAIN occupancy = DOMAIN live
  BY DEF Accounts, Exact
<1>6. QED
  BY <1>1, <1>2, <1>4, <1>5 DEF Decremented

LEMMA FreeInd ==
  ASSUME NEW p, NEW s
  PROVE  IndInv /\ Free(p, s) => IndInv'
<1> SUFFICES ASSUME IndInv, Free(p, s) PROVE IndInv'
  OBVIOUS
<1> DEFINE freed == With(live, p, live[p] \ {s})
           less == Decremented(p)
           vacant == {q \in exhaustedPools : less[q] = 0}
           V == Vacant(exhaustedPools)
<1>0. <<p, s>> \in held
  BY DEF Free
<1>a. less = With(occupancy, p, occupancy[p] - 1)
  BY <1>0, HeldIsCounted DEF IndInv
<1>1. p \in DOMAIN live /\ p \in Retired /\ p \in Pools
  BY <1>0 DEF IndInv, Accounts, Exact, Pairs
<1>2. Exact(freed, less, held \ {<<p, s>>}, allocated_count - 1)
  BY <1>0, <1>a, ExactReturn DEF IndInv, Accounts
<1>3. /\ DOMAIN freed = DOMAIN live
      /\ \A q \in DOMAIN live : q # p => less[q] = occupancy[q]
  BY <1>1, <1>a DEF With, IndInv, Accounts, Exact
<1>4. /\ held' = held \ {<<p, s>>}
      /\ allocated_count' = allocated_count - 1
      /\ open' = open
      /\ activePool' = activePool
  BY DEF Free
<1>5. V \in SUBSET Pools /\ IsFiniteSet(V) /\ Cardinality(V) \in Nat
  BY FinitePools DEF Vacant, IndInv
<1>6. Cardinality(V) <= MaxEmptyPoolsToReserve
  BY DEF IndInv, VacancyBounded
<1>7. vacant \in SUBSET Pools /\ IsFiniteSet(vacant) /\ Cardinality(vacant) \in Nat
  BY FinitePools DEF IndInv
<1>8. CASE Surplus(p, vacant)
  <2>1. /\ exhaustedPools' = exhaustedPools \ {p}
        /\ live' = Without(freed, p)
        /\ occupancy' = Without(less, p)
    BY <1>8 DEF Free
  <2>2. p # activePool /\ p \in vacant /\ less[p] = 0 /\ p \in exhaustedPools
    BY <1>8 DEF Surplus
  <2>3. Accounts'
    BY <1>1, <1>2, <1>3, <1>4, <2>1, <2>2, ExactDestroy DEF Accounts
  <2>4. DOMAIN live' = DOMAIN live \ {p}
    BY <1>3, <2>1 DEF Without
  <2>5. Retired' = Retired \ {p}
    BY <1>4, <2>1, <2>2 DEF Retired
  <2>6. Vacant(exhaustedPools)' \in SUBSET V
    <3>1. \A q \in exhaustedPools \ {p} : occupancy'[q] = occupancy[q]
      BY <1>3, <1>a, <2>1 DEF Without, IndInv, Retired, With, Accounts, Exact
    <3>2. QED
      BY <3>1, <2>1 DEF Vacant
  <2>7. VacancyBounded'
    <3>1. /\ IsFiniteSet(Vacant(exhaustedPools)')
          /\ Cardinality(Vacant(exhaustedPools)') <= Cardinality(V)
      BY <2>6, <1>5, FS_Subset
    <3>2. Cardinality(Vacant(exhaustedPools)') \in Nat
      BY <3>1, FS_CardinalityType
    <3>3. QED
      BY <3>1, <3>2, <1>5, <1>6, SizesAssumption DEF VacancyBounded
  <2>8. QED
    BY <1>4, <2>1, <2>3, <2>4, <2>5, <2>7 DEF IndInv
<1>9. CASE ~Surplus(p, vacant)
  <2>1. exhaustedPools' = exhaustedPools /\ live' = freed /\ occupancy' = less
    BY <1>9 DEF Free
  <2>2. Accounts'
    BY <1>2, <1>4, <2>1 DEF Accounts
  <2>3. Retired' = Retired /\ DOMAIN live' = DOMAIN live
    BY <1>3, <1>4, <2>1 DEF Retired
  <2>4. Vacant(exhaustedPools)' = vacant
    BY <2>1 DEF Vacant
  <2>5. Cardinality(vacant) <= MaxEmptyPoolsToReserve
    <3>1. CASE p \in vacant
      <4>1. p # activePool
        BY <3>1 DEF IndInv
      <4>2. QED
        BY <4>1, <3>1, <1>9, <1>7, SizesAssumption DEF Surplus
    <3>2. CASE p \notin vacant
      <4>1. vacant \in SUBSET V
        BY <3>2, <1>3 DEF Vacant, IndInv, Retired
      <4>2. Cardinality(vacant) <= Cardinality(V)
        BY <4>1, <1>5, FS_Subset
      <4>3. QED
        BY <4>2, <1>5, <1>6, <1>7, SizesAssumption
    <3>3. QED
      BY <3>1, <3>2
  <2>6. VacancyBounded'
    BY <2>4, <2>5 DEF VacancyBounded
  <2>7. QED
    BY <1>4, <2>1, <2>2, <2>3, <2>6 DEF IndInv
<1>10. QED
  BY <1>8, <1>9

LEMMA CleanupInd == IndInv /\ Cleanup => IndInv'
<1> SUFFICES ASSUME IndInv, Cleanup PROVE IndInv'
  OBVIOUS
<1>1. DOMAIN live' = {} /\ live' \in [DOMAIN live' -> SUBSET Sets]
  BY DEF Cleanup, IndInv
<1>2. occupancy' \in [DOMAIN live' -> Nat]
  BY <1>1 DEF Cleanup
<1>3. held' = {} /\ Pairs(live)' = {}
  BY <1>1 DEF Cleanup, Pairs
<1>4. allocated_count' = Cardinality(held') /\ allocated_count' \in Nat
  BY DEF Cleanup, IndInv, Accounts, Exact
<1>5. Accounts'
  BY <1>1, <1>2, <1>3, <1>4 DEF Accounts, Exact, Pairs
<1>6. Retired' = {}
  BY DEF Retired, Cleanup
<1>7. VacancyBounded'
  BY FS_EmptySet, SizesAssumption DEF VacancyBounded, Vacant, Cleanup
<1>8. QED
  BY <1>1, <1>5, <1>6, <1>7, HandlesAssumption DEF IndInv, Cleanup

LEMMA StutterInd == IndInv /\ UNCHANGED vars => IndInv'
BY DEF vars, IndInv, Accounts, VacancyBounded, Vacant, Retired, Exact, Pairs

LEMMA NextInd == IndInv /\ [Next]_vars => IndInv'
BY FromActiveInd, FromVacantInd, FromNewInd, NoPoolInd, FreeInd, CleanupInd,
   StutterInd DEF Next

\* The inductive invariant holds in every reachable state.
THEOREM Inductive == Spec => []IndInv
BY InitInd, NextInd, PTL DEF Spec

-------------------------------------------------------------------------------
(***************************************************************************)
(* What follows from it.                                                   *)
(***************************************************************************)

LEMMA IndImpliesSafety ==
  IndInv => TypeOK /\ PoolsTracked /\ OccupancyExact /\ SetsDisjoint
            /\ VacancyBounded /\ CountExact
<1> SUFFICES ASSUME IndInv
             PROVE  TypeOK /\ PoolsTracked /\ OccupancyExact /\ SetsDisjoint
                    /\ VacancyBounded /\ CountExact
  OBVIOUS
<1>1. TypeOK
  BY DEF IndInv, Accounts, Exact, TypeOK, Pairs
<1>2. PoolsTracked
  BY DEF IndInv, Accounts, Exact, PoolsTracked, Retired
<1>3. OccupancyExact /\ SetsDisjoint
  BY DEF IndInv, Accounts, Exact, OccupancyExact, SetsDisjoint, Pairs
<1>4. VacancyBounded /\ CountExact
  BY DEF IndInv, Accounts, Exact, CountExact
<1>5. QED
  BY <1>1, <1>2, <1>3, <1>4

\* Every variable keeps its type.
THEOREM TypeCorrect == Spec => []TypeOK
BY Inductive, IndImpliesSafety, PTL

\* activePool and exhaustedPools are exactly the pools the driver has, and
\* each is counted: none is leaked, none is used after vkDestroyDescriptorPool.
THEOREM PoolsAreTracked == Spec => []PoolsTracked
BY Inductive, IndImpliesSafety, PTL

\* The occupancy counters agree with the driver and with the callers.
THEOREM OccupancyIsExact == Spec => []OccupancyExact
BY Inductive, IndImpliesSafety, PTL

\* free never leaves more than maxEmptyPoolsToReserve exhausted pools empty.
THEOREM VacancyIsBounded == Spec => []VacancyBounded
BY Inductive, IndImpliesSafety, PTL

-------------------------------------------------------------------------------
(***************************************************************************)
(* The bound on the number of pools: those that hold a set inject into     *)
(* held, the empty ones are the reserve and perhaps the active pool.       *)
(***************************************************************************)

LEMMA BusyPools ==
  ASSUME IndInv, NEW B, B = {p \in DOMAIN live : live[p] # {}}
  PROVE  IsFiniteSet(B) /\ Cardinality(B) <= Cardinality(held)
<1> DEFINE f == [p \in B |-> <<p, CHOOSE s : s \in live[p]>>]
<1>1. held \in SUBSET (Pools \X Sets) /\ IsFiniteSet(held)
  BY FinitePairs DEF IndInv, Accounts, Exact, Pairs
<1>2. f \in [B -> held]
  <2>1. ASSUME NEW p \in B
        PROVE  <<p, CHOOSE s : s \in live[p]>> \in held
    <3>1. (CHOOSE s : s \in live[p]) \in live[p]
      OBVIOUS
    <3>2. QED
      BY <3>1 DEF IndInv, Accounts, Exact, Pairs
  <2>2. QED
    BY <2>1
<1>3. \A p, q \in B : f[p] = f[q] => p = q
  OBVIOUS
<1>4. f \in Injection(B, held)
  BY <1>2, <1>3 DEF Injection, IsInjective
<1>5. QED
  BY <1>1, <1>4, FS_Injection

LEMMA IndImpliesPoolsBounded == IndInv => PoolsBounded
<1> SUFFICES ASSUME IndInv PROVE PoolsBounded
  OBVIOUS
<1> DEFINE B == {p \in DOMAIN live : live[p] # {}}
           V == Vacant(exhaustedPools)
<1>1. IsFiniteSet(B) /\ Cardinality(B) <= Cardinality(held)
  BY BusyPools
<1>2. IsFiniteSet(V) /\ Cardinality(V) <= MaxEmptyPoolsToReserve
  BY FinitePools DEF Vacant, IndInv, VacancyBounded
<1>3. Cardinality(B) \in Nat /\ Cardinality(V) \in Nat /\ Cardinality(held) \in Nat
  BY <1>1, <1>2, FS_CardinalityType, FinitePairs
     DEF IndInv, Accounts, Exact, Pairs
<1>4. /\ IsFiniteSet(B \cup V)
      /\ Cardinality(B \cup V) \in Nat
      /\ Cardinality(B \cup V) <= Cardinality(B) + Cardinality(V)
  <2>1. IsFiniteSet(B \cap V) /\ Cardinality(B \cap V) \in Nat
    BY <1>1, FS_Subset, FS_CardinalityType
  <2>2. /\ IsFiniteSet(B \cup V)
        /\ Cardinality(B \cup V)
             = Cardinality(B) + Cardinality(V) - Cardinality(B \cap V)
    BY <1>1, <1>2, FS_Union
  <2>3. Cardinality(B \cup V) \in Nat
    BY <2>2, FS_CardinalityType
  <2>4. QED
    BY <2>1, <2>2, <2>3, <1>3
<1>5. /\ IsFiniteSet((B \cup V) \cup {activePool})
      /\ Cardinality((B \cup V) \cup {activePool}) <= Cardinality(B \cup V) + 1
  BY <1>4, FS_AddElement
<1>6. DOMAIN live \in SUBSET ((B \cup V) \cup {activePool})
  <2>1. ASSUME NEW p \in DOMAIN live, live[p] = {}, p # activePool
        PROVE  p \in V
    BY <2>1, FS_EmptySet DEF Vacant, IndInv, Retired, Accounts, Exact
  <2>2. QED
    BY <2>1
<1>7. Cardinality(DOMAIN live) <= Cardinality((B \cup V) \cup {activePool})
  BY <1>5, <1>6, FS_Subset
<1>8. /\ Cardinality(DOMAIN live) \in Nat
      /\ Cardinality((B \cup V) \cup {activePool}) \in Nat
  BY <1>5, FS_CardinalityType, FinitePools DEF IndInv, Accounts, Exact
<1>9. Cardinality(DOMAIN live) <= Cardinality(B) + Cardinality(V) + 1
  <2> HIDE DEF B, V
  <2>1. QED
    BY <1>3, <1>4, <1>5, <1>7, <1>8
<1>10. QED
  <2> HIDE DEF B, V
  <2>1. QED
    BY <1>1, <1>2, <1>3, <1>8, <1>9, SizesAssumption DEF PoolsBounded

\* Memory stays proportional to use: beyond the pools that hold a set there
\* are at most the reserve and the active pool.
THEOREM PoolsAreBounded == Spec => []PoolsBounded
BY Inductive, IndImpliesPoolsBounded, PTL

-------------------------------------------------------------------------------
(***************************************************************************)
(* The allocator implements SetLifetime.                                   *)
(***************************************************************************)

\* The sets callers hold are the sets live in the driver.
LEMMA HeldAreLive == IndInv => {h[2] : h \in held} = LiveSets
<1> SUFFICES ASSUME IndInv PROVE {h[2] : h \in held} = LiveSets
  OBVIOUS
<1>1. held = Pairs(live) /\ live \in [DOMAIN live -> SUBSET Sets]
  BY DEF IndInv, Accounts, Exact
<1>2. ASSUME NEW h \in held
      PROVE  h[2] \in LiveSets
  BY <1>1 DEF Pairs, LiveSets
<1>3. ASSUME NEW q \in DOMAIN live, NEW s \in live[q]
      PROVE  s \in {h[2] : h \in held}
  <2>1. <<q, s>> \in held
    BY <1>1 DEF Pairs
  <2>2. QED
    BY <2>1
<1>4. QED
  BY <1>2, <1>3 DEF LiveSets

LEMMA HeldAreLivePrimed == IndInv' => ({h[2] : h \in held})' = LiveSets'
<1>1. (IndInv => {h[2] : h \in held} = LiveSets)'
  BY HeldAreLive, PTL
<1>2. QED
  BY <1>1

\* A successful driver call is an Issue step.
LEMMA SucceedIssues ==
  ASSUME IndInv, IndInv', NEW lv, NEW occ, NEW p \in DOMAIN lv,
         AllSets(lv) = LiveSets, Succeed(p, lv, occ)
  PROVE  \E s \in Sets : Lifetime!Issue(s)
<1>1. PICK s \in Sets \ LiveSets :
         /\ live' = With(lv, p, lv[p] \cup {s})
         /\ held' = held \cup {<<p, s>>}
  BY DEF Succeed
<1>2. LiveSets' = LiveSets \cup {s}
  <2>1. /\ DOMAIN live' = DOMAIN lv
        /\ live'[p] = lv[p] \cup {s}
        /\ \A q \in DOMAIN lv : q # p => live'[q] = lv[q]
    BY <1>1 DEF With
  <2>2. LiveSets' = AllSets(lv) \cup {s}
    BY <2>1 DEF LiveSets, AllSets
  <2>3. QED
    BY <2>2
<1>3. /\ {h[2] : h \in held} = LiveSets
      /\ ({h[2] : h \in held})' = LiveSets'
  BY HeldAreLive, HeldAreLivePrimed
<1>4. Lifetime!Issue(s)
  BY <1>1, <1>2, <1>3 DEF Lifetime!Issue
<1>5. QED
  BY <1>4

\* Steps that issue nothing and end nobody's set.
LEMMA QuietStep ==
  ASSUME IndInv, IndInv', LiveSets' = LiveSets
  PROVE  UNCHANGED Lifetime!vars
BY HeldAreLive, HeldAreLivePrimed DEF Lifetime!vars

LEMMA StepRefines ==
  ASSUME IndInv, IndInv', [Next]_vars
  PROVE  [Lifetime!Next]_(Lifetime!vars)
<1>0. Accounts
  BY DEF IndInv
<1>1. CASE AllocateFromActive
  <2>1. activePool \in DOMAIN live /\ AllSets(live) = LiveSets
    BY <1>1 DEF IndInv, Retired, AllocateFromActive, AllSets, LiveSets
  <2>2. \E s \in Sets : Lifetime!Issue(s)
    BY <1>1, <2>1, SucceedIssues DEF AllocateFromActive
  <2>3. QED
    BY <2>2 DEF Lifetime!Next
<1>2. ASSUME NEW p \in Pools, AllocateFromVacant(p)
      PROVE  [Lifetime!Next]_(Lifetime!vars)
  <2> DEFINE lv == With(live, p, {})
  <2>1. p \in DOMAIN live /\ occupancy[p] = 0
    BY <1>2 DEF AllocateFromVacant, Vacant, IndInv
  <2>2. live[p] = {}
    BY <1>0, <2>1, ZeroIsEmpty DEF Accounts
  <2>3. DOMAIN lv = DOMAIN live /\ \A q \in DOMAIN live : lv[q] = live[q]
    BY <2>1, <2>2 DEF With
  <2>4. AllSets(lv) = LiveSets
    BY <2>3 DEF AllSets, LiveSets
  <2>5. CASE Succeed(p, lv, occupancy)
    BY <2>1, <2>3, <2>4, <2>5, SucceedIssues DEF Lifetime!Next
  <2>6. CASE Refuse(lv, occupancy)
    <3>1. LiveSets' = LiveSets
      BY <2>4, <2>6 DEF Refuse, AllSets, LiveSets
    <3>2. QED
      BY <3>1, QuietStep
  <2>7. QED
    BY <1>2, <2>5, <2>6 DEF AllocateFromVacant
<1>3. ASSUME NEW p \in Pools, AllocateFromNew(p)
      PROVE  [Lifetime!Next]_(Lifetime!vars)
  <2> DEFINE lv == With(live, p, {})
             occ == With(occupancy, p, 0)
  <2>1. p \in Pools \ DOMAIN live
    BY <1>3 DEF AllocateFromNew
  <2>2. p \in DOMAIN lv /\ AllSets(lv) = LiveSets
    <3>1. AllSets(lv) = AllSets(live)
      BY <1>0, <2>1, ExactCreate DEF Accounts
    <3>2. QED
      BY <3>1 DEF With, AllSets, LiveSets
  <2>3. CASE Succeed(p, lv, occ)
    BY <2>2, <2>3, SucceedIssues DEF Lifetime!Next
  <2>4. CASE Refuse(lv, occ)
    <3>1. LiveSets' = LiveSets
      BY <2>2, <2>4 DEF Refuse, AllSets, LiveSets
    <3>2. QED
      BY <3>1, QuietStep
  <2>5. QED
    BY <1>3, <2>3, <2>4 DEF AllocateFromNew
<1>4. CASE AllocateNoPool
  <2>1. LiveSets' = LiveSets
    BY <1>4 DEF AllocateNoPool, LiveSets
  <2>2. QED
    BY <2>1, QuietStep
<1>5. ASSUME NEW h \in held, Free(h[1], h[2])
      PROVE  [Lifetime!Next]_(Lifetime!vars)
  <2> DEFINE freed == With(live, h[1], live[h[1]] \ {h[2]})
             less == Decremented(h[1])
             vacant == {q \in exhaustedPools : less[q] = 0}
  <2>1. /\ h = <<h[1], h[2]>> /\ h[1] \in DOMAIN live
        /\ h[2] \in Sets /\ h[2] \in live[h[1]]
    BY <1>0 DEF Accounts, Exact, Pairs
  <2>2. /\ DOMAIN freed = DOMAIN live
        /\ freed[h[1]] = live[h[1]] \ {h[2]}
        /\ \A q \in DOMAIN live : q # h[1] => freed[q] = live[q]
    BY <2>1 DEF With
  <2>3. AllSets(freed) = LiveSets \ {h[2]}
    <3>1. \A q \in DOMAIN live : q # h[1] => h[2] \notin live[q]
      BY <1>0, <2>1 DEF Accounts, Exact
    <3>2. QED
      BY <2>1, <2>2, <3>1 DEF AllSets, LiveSets
  <2>4. LiveSets' = AllSets(freed)
    <3>1. CASE Surplus(h[1], vacant)
      <4>1. live' = Without(freed, h[1]) /\ less[h[1]] = 0
        BY <1>5, <3>1 DEF Free, Surplus
      <4>2. Exact(freed, less, held \ {<<h[1], h[2]>>}, allocated_count - 1)
        BY <1>0, <2>1, HeldIsCounted, ExactReturn DEF Accounts
      <4>3. AllSets(Without(freed, h[1])) = AllSets(freed)
        BY <4>1, <4>2, <2>1, <2>2, ExactDestroy
      <4>4. QED
        BY <4>1, <4>3 DEF LiveSets, AllSets
    <3>2. CASE ~Surplus(h[1], vacant)
      <4>1. live' = freed
        BY <1>5, <3>2 DEF Free
      <4>2. QED
        BY <4>1 DEF LiveSets, AllSets
    <3>3. QED
      BY <3>1, <3>2
  <2>5. Lifetime!Return(h[2])
    <3>1. /\ {g[2] : g \in held} = LiveSets
          /\ ({g[2] : g \in held})' = LiveSets'
      BY HeldAreLive, HeldAreLivePrimed
    <3>2. h[2] \in {g[2] : g \in held}
      OBVIOUS
    <3>3. QED
      BY <2>3, <2>4, <3>1, <3>2 DEF Lifetime!Return
  <2>6. QED
    BY <2>1, <2>5 DEF Lifetime!Next
<1>6. CASE Cleanup
  <2>1. LiveSets = {}
    BY <1>6, HeldAreLive DEF Cleanup
  <2>2. LiveSets' = {}
    BY <1>6 DEF Cleanup, LiveSets, IndInv
  <2>3. QED
    BY <2>1, <2>2, QuietStep
<1>7. CASE UNCHANGED vars
  <2>1. LiveSets' = LiveSets
    BY <1>7 DEF vars, LiveSets
  <2>2. QED
    BY <2>1, QuietStep
<1>8. QED
  BY <1>1, <1>2, <1>3, <1>4, <1>5, <1>6, <1>7 DEF Next

LEMMA InitRefines == Init => Lifetime!Init
BY DEF Init, Lifetime!Init, LiveSets

\* Recycling, destroying and failing to create pools never ends the life of
\* a set somebody holds: the allocator implements SetLifetime.
THEOREM ImplementsSetLifetime == Spec => LifetimeSpec
<1>1. IndInv /\ IndInv' /\ [Next]_vars => [Lifetime!Next]_(Lifetime!vars)
  BY StepRefines
<1>2. QED
  BY <1>1, InitRefines, Inductive, PTL DEF Spec, LifetimeSpec, Lifetime!Spec
===============================================================================
