------------------------ MODULE PrimaryBufferProofs ------------------------
(***************************************************************************)
(* Proofs about PrimaryBuffer, for any number of threads, of which any may *)
(* release too often, of secondary buffers and of references.              *)
(***************************************************************************)
EXTENDS PrimaryBuffer, FiniteSetTheorems, TLAPS

-----------------------------------------------------------------------------
(* How many: a set of threads, or what a function that counts something of *)
(* each thread adds up to, which is the size of a set of pairs.            *)

Units(f, n) == {u \in Threads \X (1..n) : u[2] <= f[u[1]]}
Sum(f, n) == Cardinality(Units(f, n))

One(condition) == IF condition THEN 1 ELSE 0

LEMMA ThreadsFinite ==
  ASSUME NEW S \in SUBSET Threads
  PROVE  IsFiniteSet(S) /\ Cardinality(S) \in Nat
                        /\ Cardinality(S) <= Cardinality(Threads)
BY ThreadsAssumption, FS_Subset, FS_CardinalityType

(* One thread joins or leaves a set.                                       *)
LEMMA MemberMoved ==
  ASSUME NEW S \in SUBSET Threads, NEW R \in SUBSET Threads,
         NEW t \in Threads, S \ {t} = R \ {t}
  PROVE  Cardinality(R) = Cardinality(S) + One(t \in R) - One(t \in S)
<1>1. /\ IsFiniteSet(S) /\ IsFiniteSet(R)
      /\ Cardinality(S) \in Nat /\ Cardinality(R) \in Nat
  BY ThreadsFinite
<1>2. CASE t \in R <=> t \in S
  <2>1. R = S
    BY <1>2
  <2> QED BY <1>1, <1>2, <2>1 DEF One
<1>3. CASE t \in R /\ t \notin S
  <2>1. R = S \cup {t}
    BY <1>3
  <2> QED BY <1>1, <1>3, <2>1, FS_AddElement DEF One
<1>4. CASE t \notin R /\ t \in S
  <2>1. R = S \ {t}
    BY <1>4
  <2> QED BY <1>1, <1>4, <2>1, FS_RemoveElement DEF One
<1> QED BY <1>2, <1>3, <1>4

(* n units for each thread are n times as many as the threads.             *)
LEMMA ProductBound ==
  ASSUME NEW n \in Nat
  PROVE  /\ IsFiniteSet(Threads \X (1..n))
         /\ Cardinality(Threads \X (1..n)) = n * Cardinality(Threads)
<1>1. IsFiniteSet(1..n) /\ Cardinality(1..n) = n
  BY FS_Interval
<1>2. Cardinality(Threads) \in Nat
  BY ThreadsFinite
<1>3. /\ IsFiniteSet(Threads \X (1..n))
      /\ Cardinality(Threads \X (1..n)) = Cardinality(Threads) * Cardinality(1..n)
  BY <1>1, ThreadsAssumption, FS_Product
<1> QED BY <1>1, <1>2, <1>3

LEMMA SumBound ==
  ASSUME NEW n \in Nat, NEW f
  PROVE  /\ IsFiniteSet(Units(f, n)) /\ Sum(f, n) \in Nat
         /\ Sum(f, n) <= n * Cardinality(Threads)
<1> DEFINE P == Threads \X (1..n)
<1>1. Units(f, n) \subseteq P
  BY DEF Units
<1>2. IsFiniteSet(P) /\ Cardinality(P) = n * Cardinality(Threads)
  BY ProductBound
<1>3. /\ IsFiniteSet(Units(f, n)) /\ Cardinality(Units(f, n)) <= Cardinality(P)
  BY <1>1, <1>2, FS_Subset
<1>4. Cardinality(P) \in Nat /\ Cardinality(Units(f, n)) \in Nat
  BY <1>2, <1>3, FS_CardinalityType
<1>5. n * Cardinality(Threads) \in Nat
  BY ThreadsFinite
<1> HIDE DEF P
<1> QED BY <1>2, <1>3, <1>4, <1>5 DEF Sum

(* What one thread counts changes by at most one.                          *)
LEMMA SumMoved ==
  ASSUME NEW n \in Nat, NEW f \in [Threads -> 0..n],
         NEW g \in [Threads -> 0..n], NEW t \in Threads,
         \A u \in Threads \ {t} : g[u] = f[u],
         g[t] \in {f[t] - 1, f[t], f[t] + 1}
  PROVE  Sum(g, n) = Sum(f, n) + g[t] - f[t]
<1>1. /\ IsFiniteSet(Units(f, n)) /\ Sum(f, n) \in Nat
      /\ IsFiniteSet(Units(g, n)) /\ Sum(g, n) \in Nat
  BY SumBound
<1>2. f[t] \in 0..n /\ g[t] \in 0..n
  OBVIOUS
<1>3. CASE g[t] = f[t]
  <2>1. Units(g, n) = Units(f, n)
    BY <1>3 DEF Units
  <2> QED BY <1>1, <1>2, <1>3, <2>1 DEF Sum
<1>4. CASE g[t] = f[t] + 1
  <2> DEFINE new == <<t, g[t]>>
  <2>1. Units(g, n) = Units(f, n) \cup {new}
    BY <1>2, <1>4 DEF Units
  <2>2. new \notin Units(f, n)
    BY <1>2, <1>4 DEF Units
  <2> HIDE DEF new
  <2> QED BY <1>1, <1>2, <1>4, <2>1, <2>2, FS_AddElement DEF Sum
<1>5. CASE g[t] = f[t] - 1
  <2> DEFINE gone == <<t, f[t]>>
  <2>1. Units(g, n) = Units(f, n) \ {gone}
    BY <1>2, <1>5 DEF Units
  <2>2. gone \in Units(f, n)
    BY <1>2, <1>5 DEF Units
  <2> HIDE DEF gone
  <2> QED BY <1>1, <1>2, <1>5, <2>1, <2>2, FS_RemoveElement DEF Sum
<1> QED BY <1>3, <1>4, <1>5

-----------------------------------------------------------------------------
(* The references.                                                         *)

Places == {"Idle", "Counted", "Clearing", "Looking", "Initializing",
           "Releasing", "Dropped", "ListenerCounted", "ListenerDropped"}
BetweenPlaces == {"Counted", "Dropped", "ListenerCounted", "ListenerDropped"}

(* CreateSoundBuffer has counted its reference in mDsRef and not given it  *)
(* to the application yet, or Release took one and has still to count it.  *)
Underway(t) ==
  \/ pc[t] = "Releasing"
  \/ creating[t] /\ pc[t] \in {"Clearing", "Looking", "Initializing"}

Halfway(place) == One(place \in BetweenPlaces)
Between == {t \in Threads : pc[t] \in BetweenPlaces}
AllUnderway == {t \in Threads : Underway(t)}

(* The references of a thread that mDsRef counts: AddRef gives one before. *)
Counted == [t \in Threads |->
  refs[t] - One(pc[t] = "Counted" /\ ~creating[t])]

CallInv(t) ==
  /\ pc[t] \in Places
  /\ creating[t] \in BOOLEAN /\ prev[t] \in BOOLEAN /\ ret[t] \in BOOLEAN
  /\ refs[t] \in 0..MaxRefs /\ listenerRefs[t] \in 0..MaxListenerRefs
  /\ creating[t] =>
       /\ pc[t] \in {"Counted", "Clearing", "Looking", "Initializing"}
       /\ refs[t] < MaxRefs
  /\ pc[t] \in {"Looking", "Initializing"} => creating[t]
  /\ pc[t] = "Counted" /\ ~creating[t] => refs[t] > 0
  /\ pc[t] = "ListenerCounted" => listenerRefs[t] < MaxListenerRefs

FunctionsInv ==
  /\ pc \in [Threads -> Places] /\ creating \in [Threads -> BOOLEAN]
  /\ prev \in [Threads -> BOOLEAN] /\ ret \in [Threads -> BOOLEAN]
  /\ refs \in [Threads -> 0..MaxRefs]
  /\ listenerRefs \in [Threads -> 0..MaxListenerRefs]

(* mDs3dRef counts the references there are; of mDsRef this is not so once *)
(* one was released too often, but it never counts more.                   *)
ListenerExact == mDs3dRef = Sum(listenerRefs, MaxListenerRefs)
DsBounded == mDsRef <= Sum(Counted, MaxRefs) + Cardinality(AllUnderway)

RefInv ==
  /\ {mTotalRef, mDsRef, mDs3dRef} \subseteq Nat
  /\ FunctionsInv /\ \A t \in Threads : CallInv(t)
  /\ CountsAreExact /\ ListenerExact /\ DsBounded

LEMMA BoundsNat ==
  NumSlots \in Nat /\ MaxRefs \in Nat /\ MaxListenerRefs \in Nat
BY BoundsAssumption

LEMMA CountedType ==
  ASSUME RefInv
  PROVE  Counted \in [Threads -> 0..MaxRefs]
BY BoundsNat DEF RefInv, CallInv, Counted, One

LEMMA InitRefInv == Init => RefInv
<1> SUFFICES ASSUME Init PROVE RefInv
  OBVIOUS
<1>1. FunctionsInv /\ \A t \in Threads : CallInv(t)
  BY BoundsNat DEF Init, FunctionsInv, CallInv, Places
<1>2. {t \in Threads : pc[t] \in BetweenPlaces} = {} /\ AllUnderway = {}
  BY DEF Init, BetweenPlaces, AllUnderway, Underway
<1>3. CountsAreExact
  BY <1>2, FS_EmptySet DEF Init, CountsAreExact, At, BetweenPlaces
<1>4. ListenerExact
  <2>1. Units(listenerRefs, MaxListenerRefs) = {}
    BY BoundsNat DEF Init, Units
  <2> QED BY <2>1, FS_EmptySet DEF Init, ListenerExact, Sum
<1>5. DsBounded
  BY <1>2, SumBound, BoundsNat, FS_EmptySet DEF Init, DsBounded
<1> QED BY <1>1, <1>3, <1>4, <1>5 DEF Init, RefInv

(* A step of one thread that does to each counter what it does to the      *)
(* references and to the place it is at.                                   *)
Frame(t) ==
  \A u \in Threads \ {t} :
    /\ pc'[u] = pc[u] /\ creating'[u] = creating[u]
    /\ prev'[u] = prev[u] /\ ret'[u] = ret[u]
    /\ refs'[u] = refs[u] /\ listenerRefs'[u] = listenerRefs[u]

Numbers(t) ==
  /\ mTotalRef' \in Int /\ mDsRef' \in Nat /\ mDs3dRef' \in Int
  /\ mTotalRef' - mTotalRef =
       mDsRef' - mDsRef + mDs3dRef' - mDs3dRef
         + Halfway(pc'[t]) - Halfway(pc[t])
  /\ mDs3dRef' - mDs3dRef = listenerRefs'[t] - listenerRefs[t]
  /\ listenerRefs'[t] - listenerRefs[t] \in {-1, 0, 1}
  /\ Counted'[t] - Counted[t] \in {-1, 0, 1}
  /\ \/ mDsRef' = 0
     \/ mDsRef' - mDsRef <= Counted'[t] - Counted[t]
                            + One(Underway(t)') - One(Underway(t))

LEMMA ReferenceStep ==
  ASSUME RefInv, NEW t \in Threads, FunctionsInv', CallInv(t)', Frame(t),
         Numbers(t)
  PROVE  RefInv'
<1>1. \A u \in Threads : CallInv(u)'
  BY DEF RefInv, CallInv, Frame
<1>2. Cardinality(Between') =
        Cardinality(Between) + Halfway(pc'[t]) - Halfway(pc[t])
  <2>1. Between \subseteq Threads /\ Between' \subseteq Threads
    BY DEF Between
  <2>2. Between \ {t} = Between' \ {t}
    BY DEF Between, Frame
  <2>3. (t \in Between <=> pc[t] \in BetweenPlaces)
        /\ (t \in Between' <=> pc'[t] \in BetweenPlaces)
    BY DEF Between
  <2> QED BY <2>1, <2>2, <2>3, MemberMoved DEF Halfway, One
<1>3. Cardinality(AllUnderway') =
        Cardinality(AllUnderway) + One(Underway(t)') - One(Underway(t))
  <2>1. AllUnderway \subseteq Threads /\ AllUnderway' \subseteq Threads
    BY DEF AllUnderway
  <2>2. AllUnderway \ {t} = AllUnderway' \ {t}
    BY DEF AllUnderway, Underway, Frame
  <2>3. (t \in AllUnderway <=> Underway(t))
        /\ (t \in AllUnderway' <=> Underway(t)')
    BY DEF AllUnderway
  <2> QED BY <2>1, <2>2, <2>3, MemberMoved DEF One
<1>4. /\ Cardinality(Between) \in Nat /\ Cardinality(Between') \in Nat
      /\ Cardinality(AllUnderway) \in Nat /\ Cardinality(AllUnderway') \in Nat
  BY ThreadsFinite DEF Between, AllUnderway
<1>5. Sum(listenerRefs', MaxListenerRefs) =
        Sum(listenerRefs, MaxListenerRefs) + listenerRefs'[t] - listenerRefs[t]
  <2>1. listenerRefs'[t] \in {listenerRefs[t] - 1, listenerRefs[t],
                              listenerRefs[t] + 1}
    BY DEF RefInv, FunctionsInv, Numbers
  <2>2. \A u \in Threads \ {t} : listenerRefs'[u] = listenerRefs[u]
    BY DEF Frame
  <2>3. /\ listenerRefs \in [Threads -> 0..MaxListenerRefs]
        /\ listenerRefs' \in [Threads -> 0..MaxListenerRefs]
    BY DEF RefInv, FunctionsInv
  <2> QED BY <2>1, <2>2, <2>3, SumMoved, BoundsNat
<1>6. Sum(Counted', MaxRefs) = Sum(Counted, MaxRefs) + Counted'[t] - Counted[t]
  <2>1. Counted \in [Threads -> 0..MaxRefs]
    BY CountedType
  <2>2. Counted' \in [Threads -> 0..MaxRefs]
    BY <1>1, BoundsNat DEF CallInv, Counted, One
  <2>3. \A u \in Threads \ {t} : Counted'[u] = Counted[u]
    BY DEF Counted, Frame
  <2>4. Counted'[t] \in {Counted[t] - 1, Counted[t], Counted[t] + 1}
    BY <2>1, <2>2 DEF Numbers
  <2> QED BY <2>1, <2>2, <2>3, <2>4, SumMoved, BoundsNat
<1>7. /\ Sum(listenerRefs, MaxListenerRefs) \in Nat
      /\ Sum(listenerRefs', MaxListenerRefs) \in Nat
      /\ Sum(Counted, MaxRefs) \in Nat /\ Sum(Counted', MaxRefs) \in Nat
  BY SumBound, BoundsNat
<1>8. /\ CountsAreExact <=> mTotalRef = mDsRef + mDs3dRef + Cardinality(Between)
      /\ CountsAreExact' <=>
           mTotalRef' = mDsRef' + mDs3dRef' + Cardinality(Between')
  BY DEF CountsAreExact, At, Between, BetweenPlaces
<1>9. mTotalRef' \in Int /\ mDsRef' \in Nat /\ mDs3dRef' \in Int
  BY DEF Numbers
<1>10. mDs3dRef' = Sum(listenerRefs', MaxListenerRefs)
  <2>1. /\ mDs3dRef = Sum(listenerRefs, MaxListenerRefs)
        /\ listenerRefs[t] \in Int /\ listenerRefs'[t] \in Int
    BY DEF RefInv, ListenerExact, FunctionsInv
  <2>2. mDs3dRef' - mDs3dRef = listenerRefs'[t] - listenerRefs[t]
    BY DEF Numbers
  <2> QED BY <1>5, <1>7, <1>9, <2>1, <2>2
<1>11. mTotalRef' = mDsRef' + mDs3dRef' + Cardinality(Between')
  <2>1. /\ mTotalRef = mDsRef + mDs3dRef + Cardinality(Between)
        /\ mTotalRef \in Nat /\ mDsRef \in Nat /\ mDs3dRef \in Nat
    BY <1>8 DEF RefInv
  <2>2. Halfway(pc'[t]) \in Int /\ Halfway(pc[t]) \in Int
    BY DEF Halfway, One
  <2>3. mTotalRef' - mTotalRef =
          mDsRef' - mDsRef + mDs3dRef' - mDs3dRef
            + Halfway(pc'[t]) - Halfway(pc[t])
    BY DEF Numbers
  <2> QED BY <1>2, <1>4, <1>9, <2>1, <2>2, <2>3
<1>12. DsBounded'
  <2>1. /\ mDsRef \in Nat
        /\ mDsRef <= Sum(Counted, MaxRefs) + Cardinality(AllUnderway)
    BY DEF RefInv, DsBounded
  <2>2. Counted[t] \in Int /\ Counted'[t] \in Int
    BY CountedType, <1>1 DEF CallInv, Counted, One
  <2>3. One(Underway(t)') \in Int /\ One(Underway(t)) \in Int
    BY DEF One
  <2>4. CASE mDsRef' = 0
    BY <1>4, <1>7, <2>4 DEF DsBounded
  <2>5. CASE mDsRef' # 0
    <3>1. mDsRef' - mDsRef <= Counted'[t] - Counted[t]
                              + One(Underway(t)') - One(Underway(t))
      BY <2>5 DEF Numbers
    <3>2. mDsRef' <= Sum(Counted', MaxRefs) + Cardinality(AllUnderway')
      BY <1>3, <1>4, <1>6, <1>7, <1>9, <2>1, <2>2, <2>3, <3>1
    <3> QED BY <3>2 DEF DsBounded
  <2> QED BY <2>4, <2>5
<1>13. mDs3dRef' \in Nat /\ mTotalRef' \in Nat
  BY <1>4, <1>7, <1>9, <1>10, <1>11
<1> QED BY <1>1, <1>8, <1>9, <1>10, <1>11, <1>12, <1>13 DEF RefInv, ListenerExact

(* Every step of AddRef, Release and CreateSoundBuffer is such a step.      *)
LEMMA ReferenceRefInv ==
  ASSUME RefInv, NEW t \in Threads, Reference(t)
  PROVE  RefInv'
<1> SUFFICES FunctionsInv' /\ CallInv(t)' /\ Frame(t) /\ Numbers(t)
  BY ReferenceStep
<1>0. /\ FunctionsInv /\ CallInv(t)
      /\ mTotalRef \in Nat /\ mDsRef \in Nat /\ mDs3dRef \in Nat
  BY DEF RefInv
<1>1. CASE AddRef(t)
  <2>1. /\ pc' = [pc EXCEPT ![t] = "Counted"] /\ pc[t] = "Idle"
        /\ mTotalRef' = mTotalRef + 1 /\ UNCHANGED <<mDsRef, mDs3dRef>>
        /\ prev' = [prev EXCEPT ![t] = mTotalRef = 0]
        /\ refs' = [refs EXCEPT ![t] = @ + 1] /\ refs[t] \in 1 .. MaxRefs - 1
        /\ UNCHANGED <<creating, ret, listenerRefs>>
    BY <1>1 DEF AddRef, Step
  <2> QED
    BY <1>0, <2>1, BoundsNat
    DEF FunctionsInv, Places, Frame, CallInv, Numbers, Counted, Halfway,
        BetweenPlaces, Underway, One
<1>2. CASE CreateSoundBuffer(t)
  <2>1. /\ pc' = [pc EXCEPT ![t] = "Counted"] /\ pc[t] = "Idle"
        /\ mTotalRef' = mTotalRef + 1 /\ UNCHANGED <<mDsRef, mDs3dRef>>
        /\ prev' = [prev EXCEPT ![t] = mTotalRef = 0]
        /\ creating' = [creating EXCEPT ![t] = TRUE] /\ refs[t] < MaxRefs
        /\ UNCHANGED <<refs, ret, listenerRefs>>
    BY <1>2 DEF CreateSoundBuffer, Step, held
  <2> QED
    BY <1>0, <2>1, BoundsNat
    DEF FunctionsInv, Places, Frame, CallInv, Numbers, Counted, Halfway,
        BetweenPlaces, Underway, One
<1>3. CASE AddDsRef(t)
  <2>1. /\ pc' = [pc EXCEPT ![t] = "Clearing"] /\ pc[t] = "Counted"
        /\ mDsRef' = mDsRef + 1 /\ UNCHANGED <<mTotalRef, mDs3dRef>>
        /\ ret' = [ret EXCEPT ![t] = mDsRef = 0]
        /\ UNCHANGED <<refs, creating, prev, listenerRefs>>
    BY <1>3 DEF AddDsRef, Step, held
  <2> QED
    BY <1>0, <2>1, BoundsNat
    DEF FunctionsInv, Places, Frame, CallInv, Numbers, Counted, Halfway,
        BetweenPlaces, Underway, One
<1>4. CASE ClearFlags(t)
  <2>1. /\ pc' = [pc EXCEPT ![t] = IF creating[t] THEN "Looking" ELSE "Idle"]
        /\ pc[t] = "Clearing" /\ UNCHANGED <<mTotalRef, mDsRef, mDs3dRef>>
        /\ prev' = [prev EXCEPT ![t] = FALSE]
        /\ ret' = [ret EXCEPT ![t] = @ /\ creating[t]]
        /\ UNCHANGED <<refs, creating, listenerRefs>>
    BY <1>4 DEF ClearFlags, Step, held, counts
  <2> QED
    BY <1>0, <2>1, BoundsNat
    DEF FunctionsInv, Places, Frame, CallInv, Numbers, Counted, Halfway,
        BetweenPlaces, Underway, One
<1>5. CASE NeedNotInitialize(t)
  <2>1. /\ pc' = [pc EXCEPT ![t] = "Idle"] /\ pc[t] = "Looking"
        /\ UNCHANGED <<mTotalRef, mDsRef, mDs3dRef>>
        /\ refs' = [refs EXCEPT ![t] = @ + 1]
        /\ creating' = [creating EXCEPT ![t] = FALSE]
        /\ ret' = [ret EXCEPT ![t] = FALSE]
        /\ UNCHANGED <<prev, listenerRefs>>
    BY <1>5 DEF NeedNotInitialize, Step, counts
  <2> QED
    BY <1>0, <2>1, BoundsNat
    DEF FunctionsInv, Places, Frame, CallInv, Numbers, Counted, Halfway,
        BetweenPlaces, Underway, One
<1>6. CASE MustInitialize(t)
  <2>1. /\ pc' = [pc EXCEPT ![t] = "Initializing"] /\ pc[t] = "Looking"
        /\ UNCHANGED <<mTotalRef, mDsRef, mDs3dRef>>
        /\ ret' = [ret EXCEPT ![t] = FALSE]
        /\ UNCHANGED <<refs, creating, prev, listenerRefs>>
    BY <1>6 DEF MustInitialize, Step, counts, held
  <2> QED
    BY <1>0, <2>1, BoundsNat
    DEF FunctionsInv, Places, Frame, CallInv, Numbers, Counted, Halfway,
        BetweenPlaces, Underway, One
<1>7. CASE Initialize(t)
  <2>1. /\ pc' = [pc EXCEPT ![t] = "Idle"] /\ pc[t] = "Initializing"
        /\ UNCHANGED <<mTotalRef, mDsRef, mDs3dRef>>
        /\ refs' = [refs EXCEPT ![t] = @ + 1]
        /\ creating' = [creating EXCEPT ![t] = FALSE]
        /\ UNCHANGED <<prev, ret, listenerRefs>>
    BY <1>7 DEF Initialize, Step, counts
  <2> QED
    BY <1>0, <2>1, BoundsNat
    DEF FunctionsInv, Places, Frame, CallInv, Numbers, Counted, Halfway,
        BetweenPlaces, Underway, One
<1>8. CASE FailInitialize(t)
  <2>1. /\ pc' = [pc EXCEPT ![t] = "Releasing"] /\ pc[t] = "Initializing"
        /\ UNCHANGED <<mTotalRef, mDsRef, mDs3dRef>>
        /\ creating' = [creating EXCEPT ![t] = FALSE]
        /\ UNCHANGED <<refs, prev, ret, listenerRefs>>
    BY <1>8 DEF FailInitialize, Step, counts, held
  <2> QED
    BY <1>0, <2>1, BoundsNat
    DEF FunctionsInv, Places, Frame, CallInv, Numbers, Counted, Halfway,
        BetweenPlaces, Underway, One
<1>9. CASE Release(t)
  <2>1. /\ pc' = [pc EXCEPT ![t] = "Releasing"] /\ pc[t] = "Idle"
        /\ UNCHANGED <<mTotalRef, mDsRef, mDs3dRef>>
        /\ refs' = [refs EXCEPT ![t] = IF @ > 0 THEN @ - 1 ELSE 0]
        /\ UNCHANGED <<creating, prev, ret, listenerRefs>>
    BY <1>9 DEF Release, Step, counts
  <2> QED
    BY <1>0, <2>1, BoundsNat
    DEF FunctionsInv, Places, Frame, CallInv, Numbers, Counted, Halfway,
        BetweenPlaces, Underway, One
<1>10. CASE DropDsRef(t)
  <2>1. /\ pc' = [pc EXCEPT ![t] = "Dropped"] /\ pc[t] = "Releasing"
        /\ mDsRef' = mDsRef - 1 /\ mDsRef > 0
        /\ UNCHANGED <<mTotalRef, mDs3dRef, refs, creating, prev, ret, listenerRefs>>
    BY <1>10 DEF DropDsRef, Step, held
  <2> QED
    BY <1>0, <2>1, BoundsNat
    DEF FunctionsInv, Places, Frame, CallInv, Numbers, Counted, Halfway,
        BetweenPlaces, Underway, One
<1>11. CASE DropNothing(t)
  <2>1. /\ pc' = [pc EXCEPT ![t] = "Idle"] /\ pc[t] = "Releasing" /\ mDsRef = 0
        /\ UNCHANGED <<mTotalRef, mDsRef, mDs3dRef>>
        /\ UNCHANGED <<refs, creating, prev, ret, listenerRefs>>
    BY <1>11 DEF DropNothing, Step, counts, held
  <2> QED
    BY <1>0, <2>1, BoundsNat
    DEF FunctionsInv, Places, Frame, CallInv, Numbers, Counted, Halfway,
        BetweenPlaces, Underway, One
<1>12. CASE DropTotal(t)
  <2>1. /\ pc' = [pc EXCEPT ![t] = "Idle"]
        /\ pc[t] \in {"Dropped", "ListenerDropped"}
        /\ mTotalRef' = mTotalRef - 1 /\ UNCHANGED <<mDsRef, mDs3dRef>>
        /\ UNCHANGED <<refs, creating, prev, ret, listenerRefs>>
    BY <1>12 DEF DropTotal, held
  <2> QED
    BY <1>0, <2>1, BoundsNat
    DEF FunctionsInv, Places, Frame, CallInv, Numbers, Counted, Halfway,
        BetweenPlaces, Underway, One
<1>13. CASE ListenerAddRef(t)
  <2>1. /\ pc' = [pc EXCEPT ![t] = "ListenerCounted"] /\ pc[t] = "Idle"
        /\ mTotalRef' = mTotalRef + 1 /\ UNCHANGED <<mDsRef, mDs3dRef>>
        /\ listenerRefs[t] < MaxListenerRefs
        /\ UNCHANGED <<refs, creating, prev, ret, listenerRefs>>
    BY <1>13 DEF ListenerAddRef, Step, held
  <2> QED
    BY <1>0, <2>1, BoundsNat
    DEF FunctionsInv, Places, Frame, CallInv, Numbers, Counted, Halfway,
        BetweenPlaces, Underway, One
<1>14. CASE ListenerAddDs3dRef(t)
  <2>1. /\ pc' = [pc EXCEPT ![t] = "Idle"] /\ pc[t] = "ListenerCounted"
        /\ mDs3dRef' = mDs3dRef + 1 /\ UNCHANGED <<mTotalRef, mDsRef>>
        /\ listenerRefs' = [listenerRefs EXCEPT ![t] = @ + 1]
        /\ UNCHANGED <<refs, creating, prev, ret>>
    BY <1>14 DEF ListenerAddDs3dRef, Step
  <2> QED
    BY <1>0, <2>1, BoundsNat
    DEF FunctionsInv, Places, Frame, CallInv, Numbers, Counted, Halfway,
        BetweenPlaces, Underway, One
<1>15. CASE ListenerRelease(t)
  <2>1. /\ pc' = [pc EXCEPT ![t] = "ListenerDropped"] /\ pc[t] = "Idle"
        /\ mDs3dRef' = mDs3dRef - 1 /\ UNCHANGED <<mTotalRef, mDsRef>>
        /\ listenerRefs' = [listenerRefs EXCEPT ![t] = @ - 1] /\ listenerRefs[t] > 0
        /\ UNCHANGED <<refs, creating, prev, ret>>
    BY <1>15 DEF ListenerRelease, Step
  <2> QED
    BY <1>0, <2>1, BoundsNat
    DEF FunctionsInv, Places, Frame, CallInv, Numbers, Counted, Halfway,
        BetweenPlaces, Underway, One
<1> QED
  BY <1>1, <1>2, <1>3, <1>4, <1>5, <1>6, <1>7, <1>8,
     <1>9, <1>10, <1>11, <1>12, <1>13, <1>14, <1>15 DEF Reference

-----------------------------------------------------------------------------
(* The level, the write emulation and the secondary buffers.               *)

LevelTypes ==
  /\ mFlags \in BOOLEAN /\ mPlaying \in BOOLEAN /\ emuFailed \in BOOLEAN
  /\ mPrioLevel \in Levels
  /\ mWriteEmu \in {"None", "Initial", "Playing", "Paused"}
  /\ emuPosition \in {0, 1}
  /\ secondary \in [Slots -> {"None", "Silent", "Playing"}]
  /\ lost \subseteq Used /\ older \subseteq Used

(* Outside DSSCL_WRITEPRIMARY no buffer has to stay lost.                  *)
OlderOnlyThen == mPrioLevel # "WritePrimary" => older = {}

LevelInv ==
  /\ LevelTypes /\ EmuFollowsLevel /\ OlderBuffersAreLost /\ StoppedIsReset
  /\ OlderOnlyThen

LEMMA InitLevelInv == Init => LevelInv
BY DEF Init, LevelInv, LevelTypes, EmuFollowsLevel, OlderBuffersAreLost,
       StoppedIsReset, OlderOnlyThen, Levels, Used

(* A reference concerns it in two ways: the flags of the buffer are set    *)
(* and cleared, and its Initialize makes a write emulation.                *)
LEMMA ReferenceLevelInv ==
  ASSUME LevelInv, NEW t \in Threads, Reference(t)
  PROVE  LevelInv'
<1> USE DEF LevelInv, LevelTypes, EmuFollowsLevel, OlderBuffersAreLost,
            StoppedIsReset, OlderOnlyThen, Used, emu, buffers
<1>1. CASE ClearFlags(t)
  <2>1. mFlags' \in BOOLEAN /\ (mFlags' => mFlags)
    BY <1>1 DEF ClearFlags
  <2>2. UNCHANGED <<mPrioLevel, mPlaying, mWriteEmu, emuPosition, emuFailed,
                    secondary, lost, older>>
    BY <1>1 DEF ClearFlags
  <2> QED BY <2>1, <2>2
<1>2. CASE Initialize(t)
  <2>1. /\ mFlags' = TRUE
        /\ IF mPrioLevel = "WritePrimary" THEN CreateWriteEmu(TRUE)
                                           ELSE UNCHANGED emu
        /\ UNCHANGED <<mPrioLevel, mPlaying, secondary, lost, older>>
    BY <1>2 DEF Initialize
  <2> QED BY <2>1 DEF CreateWriteEmu
<1>3. CASE FailInitialize(t)
  <2>1. /\ \/ UNCHANGED emu
           \/ mPrioLevel = "WritePrimary" /\ CreateWriteEmu(FALSE)
        /\ UNCHANGED <<mFlags, mPrioLevel, mPlaying, secondary, lost, older>>
    BY <1>3 DEF FailInitialize
  <2> QED BY <2>1 DEF CreateWriteEmu
<1>4. CASE ~(ClearFlags(t) \/ Initialize(t) \/ FailInitialize(t))
  <2>1. UNCHANGED <<mFlags, mPrioLevel, mPlaying, mWriteEmu, emuPosition,
                    emuFailed, secondary, lost, older>>
    BY <1>4
    DEF Reference, AddRef, CreateSoundBuffer, AddDsRef, NeedNotInitialize,
        MustInitialize, Release, DropDsRef, DropNothing, DropTotal,
        ListenerAddRef, ListenerAddDs3dRef, ListenerRelease
  <2> QED BY <2>1
<1> QED BY <1>1, <1>2, <1>3, <1>4

LEMMA SetCooperativeLevelInv ==
  ASSUME LevelInv, SetCooperativeLevel
  PROVE  LevelInv'
<1> USE DEF LevelInv, LevelTypes, EmuFollowsLevel, OlderBuffersAreLost,
            StoppedIsReset, OlderOnlyThen, emu, buffers, references
<1>1. CASE RaiseFails
  <2>1. /\ mPrioLevel # "WritePrimary" /\ Playing # {}
        /\ lost' = lost \cup {s \in Used : \A p \in Playing : s < p}
        /\ mWriteEmu' = "None" /\ emuPosition' = 0
        /\ UNCHANGED <<emuFailed, mFlags, mPrioLevel, mPlaying, secondary, older>>
    BY <1>1 DEF RaiseFails, DestroyWriteEmu
  <2>2. \A s \in Used : (\A p \in Playing : s < p) => s \notin Playing
    BY BoundsNat DEF Used, Slots
  <2>3. \A s \in lost' : secondary[s] # "Playing"
    BY <2>1, <2>2 DEF Playing, Used
  <2> QED BY <2>1, <2>3 DEF Used
<1>2. ASSUME NEW ok \in BOOLEAN, Raise(ok) PROVE LevelInv'
  <2>1. /\ mPrioLevel # "WritePrimary" /\ Playing = {} /\ lost' = Used
        /\ IF mFlags THEN CreateWriteEmu(ok) ELSE ok /\ DestroyWriteEmu
        /\ IF ok THEN mPrioLevel' = "WritePrimary" /\ older' = Used
                 ELSE UNCHANGED <<mPrioLevel, older>>
        /\ UNCHANGED <<mFlags, mPlaying, secondary>>
    BY <1>2 DEF Raise
  <2>2. \A s \in lost' : secondary[s] # "Playing"
    BY <2>1 DEF Playing, Used
  <2> QED BY <2>1, <2>2 DEF CreateWriteEmu, DestroyWriteEmu, Used, Levels
<1>3. ASSUME NEW level \in Levels, Lower(level) PROVE LevelInv'
  BY <1>3 DEF Lower, DestroyWriteEmu, Used
<1>4. ASSUME NEW level \in Levels, SetLevel(level) PROVE LevelInv'
  BY <1>4 DEF SetLevel, Used
<1> QED BY <1>1, <1>2, <1>3, <1>4 DEF SetCooperativeLevel

(* Playing, stopping and the format of the primary buffer.                 *)
LEMMA PrimaryLevelInv ==
  ASSUME LevelInv, Play \/ Mix \/ Stop \/ SetFormat
  PROVE  LevelInv'
<1> USE DEF LevelInv, LevelTypes, EmuFollowsLevel, OlderBuffersAreLost,
            StoppedIsReset, OlderOnlyThen, Used, emu, buffers, references
<1>1. CASE Play
  BY <1>1 DEF Play
<1>2. CASE Mix
  BY <1>2 DEF Mix
<1>3. CASE Stop
  BY <1>3 DEF Stop
<1>4. CASE SetFormat
  BY <1>4 DEF SetFormat, CreateWriteEmu
<1> QED BY <1>1, <1>2, <1>3, <1>4

LEMMA SecondaryLevelInv ==
  ASSUME LevelInv, NEW s \in Slots,
         \/ CreateSecondary(s) \/ DisposeSecondary(s)
         \/ PlaySecondary(s) \/ StopSecondary(s) \/ Restore(s)
  PROVE  LevelInv'
<1> USE DEF LevelInv, LevelTypes, EmuFollowsLevel, OlderBuffersAreLost,
            StoppedIsReset, OlderOnlyThen, Used, SetSecondary, emu, references
<1>1. CASE CreateSecondary(s)
  BY <1>1 DEF CreateSecondary
<1>2. CASE DisposeSecondary(s)
  BY <1>2 DEF DisposeSecondary
<1>3. CASE PlaySecondary(s)
  BY <1>3 DEF PlaySecondary
<1>4. CASE StopSecondary(s)
  BY <1>4 DEF StopSecondary
<1>5. CASE Restore(s)
  BY <1>5 DEF Restore
<1> QED BY <1>1, <1>2, <1>3, <1>4, <1>5

-----------------------------------------------------------------------------
LEMMA ReferencesKept ==
  ASSUME RefInv, UNCHANGED references
  PROVE  RefInv'
BY DEF RefInv, references, counts, local, held, FunctionsInv, CallInv,
       CountsAreExact, At, ListenerExact, DsBounded, Counted, AllUnderway,
       Underway

LEMMA NextInv == RefInv /\ LevelInv /\ [Next]_vars => RefInv' /\ LevelInv'
<1> SUFFICES ASSUME RefInv, LevelInv, [Next]_vars PROVE RefInv' /\ LevelInv'
  OBVIOUS
<1>1. ASSUME NEW t \in Threads, Reference(t) PROVE RefInv' /\ LevelInv'
  BY <1>1, ReferenceRefInv, ReferenceLevelInv
<1>2. CASE SetCooperativeLevel
  <2>1. UNCHANGED references
    BY <1>2 DEF SetCooperativeLevel, RaiseFails, Raise, Lower, SetLevel
  <2> QED BY <1>2, <2>1, ReferencesKept, SetCooperativeLevelInv
<1>3. CASE Play \/ Mix \/ Stop \/ SetFormat
  <2>1. UNCHANGED references
    BY <1>3 DEF Play, Mix, Stop, SetFormat
  <2> QED BY <1>3, <2>1, ReferencesKept, PrimaryLevelInv
<1>4. ASSUME NEW s \in Slots,
             \/ CreateSecondary(s) \/ DisposeSecondary(s)
             \/ PlaySecondary(s) \/ StopSecondary(s) \/ Restore(s)
      PROVE  RefInv' /\ LevelInv'
  <2>1. UNCHANGED references
    BY <1>4 DEF CreateSecondary, DisposeSecondary, PlaySecondary,
                StopSecondary, Restore, SetSecondary
  <2> QED BY <1>4, <2>1, ReferencesKept, SecondaryLevelInv
<1>5. CASE UNCHANGED vars
  <2>1. RefInv'
    BY <1>5, ReferencesKept DEF vars, references
  <2>2. LevelInv'
    BY <1>5 DEF vars, emu, buffers, LevelInv, LevelTypes, EmuFollowsLevel,
                OlderBuffersAreLost, StoppedIsReset, OlderOnlyThen, Used
  <2> QED BY <2>1, <2>2
<1> QED BY <1>1, <1>2, <1>3, <1>4, <1>5 DEF Next

LEMMA Invariance == Spec => [](RefInv /\ LevelInv)
BY InitRefInv, InitLevelInv, NextInv, PTL DEF Spec

(* No counter counts more than the references there can be, though mDsRef  *)
(* may count less.                                                         *)
LEMMA CountersBounded ==
  ASSUME RefInv
  PROVE  {mTotalRef, mDsRef, mDs3dRef} \subseteq 0 .. MaxTotal
<1> DEFINE c == Cardinality(Threads)
<1>1. /\ Sum(Counted, MaxRefs) \in Nat /\ Sum(Counted, MaxRefs) <= MaxRefs * c
      /\ Sum(listenerRefs, MaxListenerRefs) \in Nat
      /\ Sum(listenerRefs, MaxListenerRefs) <= MaxListenerRefs * c
  BY SumBound, BoundsNat
<1>2. /\ Cardinality(AllUnderway) \in Nat /\ Cardinality(AllUnderway) <= c
      /\ Cardinality(Between) \in Nat /\ Cardinality(Between) <= c
  BY ThreadsFinite DEF AllUnderway, Between
<1>3. c \in Nat /\ MaxRefs * c \in Nat /\ MaxListenerRefs * c \in Nat
  BY ThreadsFinite, BoundsNat
<1>4. MaxTotal = MaxRefs * c + MaxListenerRefs * c + c + c
  BY <1>3, BoundsNat DEF MaxTotal
<1>5. /\ mTotalRef = mDsRef + mDs3dRef + Cardinality(Between)
      /\ mDs3dRef = Sum(listenerRefs, MaxListenerRefs)
      /\ mDsRef <= Sum(Counted, MaxRefs) + Cardinality(AllUnderway)
      /\ mTotalRef \in Nat /\ mDsRef \in Nat /\ mDs3dRef \in Nat
  BY DEF RefInv, CountsAreExact, At, Between, BetweenPlaces, ListenerExact,
         DsBounded
<1> HIDE DEF c
<1> QED BY <1>1, <1>2, <1>3, <1>4, <1>5

(* Whatever is released too often, no counter of the primary buffer goes   *)
(* below zero or counts references that were never made.                   *)
THEOREM TypeCorrect == Spec => []TypeOK
<1>1. RefInv /\ LevelInv => TypeOK
  BY CountersBounded DEF RefInv, FunctionsInv, Places, LevelInv, LevelTypes, TypeOK
<1> QED BY <1>1, Invariance, PTL

(* However the threads' calls interleave, the total is the sum of the      *)
(* interfaces' counts and of the calls that are between the two.           *)
THEOREM CountsExact == Spec => []CountsAreExact
<1>1. RefInv => CountsAreExact
  BY DEF RefInv
<1> QED BY <1>1, Invariance, PTL

(* The write emulation comes and goes with DSSCL_WRITEPRIMARY.             *)
THEOREM EmuFollows == Spec => []EmuFollowsLevel
<1>1. LevelInv => EmuFollowsLevel
  BY DEF LevelInv
<1> QED BY <1>1, Invariance, PTL

(* A buffer that DSSCL_WRITEPRIMARY found stays lost as long as it lasts,  *)
(* and no lost buffer plays.                                               *)
THEOREM OlderStayLost == Spec => []OlderBuffersAreLost
<1>1. LevelInv => OlderBuffersAreLost
  BY DEF LevelInv
<1> QED BY <1>1, Invariance, PTL

(* Nothing starts a write emulation of a primary buffer that was stopped.  *)
THEOREM StoppedStaysReset == Spec => []StoppedIsReset
<1>1. LevelInv => StoppedIsReset
  BY DEF LevelInv
<1> QED BY <1>1, Invariance, PTL

=============================================================================
