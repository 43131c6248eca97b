-------------------------- MODULE BufferSlotsProofs --------------------------
(***************************************************************************)
(* Proofs about BufferSlots, for any number of threads, slots and          *)
(* references.                                                             *)
(***************************************************************************)
EXTENDS BufferSlots, FiniteSetTheorems, TLAPS

-----------------------------------------------------------------------------
(* How many: a set of threads, or what a function that counts something of *)
(* each thread adds up to, which is the size of a set of pairs.            *)

Units(f, n) == {u \in Threads \X (1..n) : u[2] <= f[u[1]]}
Sum(f, n) == Cardinality(Units(f, n))

One(condition) == IF condition THEN 1 ELSE 0

LEMMA ThreadsFinite ==
  ASSUME NEW S \in SUBSET Threads
  PROVE  IsFiniteSet(S) /\ Cardinality(S) \in Nat
                        /\ Cardinality(S) <= Cardinality(Threads)
BY ThreadsAssumption, FS_Subset, FS_CardinalityType

(* One thread joins or leaves a set.                                       *)
LEMMA MemberMoved ==
  ASSUME NEW S \in SUBSET Threads, NEW R \in SUBSET Threads,
         NEW t \in Threads, S \ {t} = R \ {t}
  PROVE  Cardinality(R) = Cardinality(S) + One(t \in R) - One(t \in S)
<1>1. /\ IsFiniteSet(S) /\ IsFiniteSet(R)
      /\ Cardinality(S) \in Nat /\ Cardinality(R) \in Nat
  BY ThreadsFinite
<1>2. CASE t \in R <=> t \in S
  <2>1. R = S
    BY <1>2
  <2> QED BY <1>1, <1>2, <2>1 DEF One
<1>3. CASE t \in R /\ t \notin S
  <2>1. R = S \cup {t}
    BY <1>3
  <2> QED BY <1>1, <1>3, <2>1, FS_AddElement DEF One
<1>4. CASE t \notin R /\ t \in S
  <2>1. R = S \ {t}
    BY <1>4
  <2> QED BY <1>1, <1>4, <2>1, FS_RemoveElement DEF One
<1> QED BY <1>2, <1>3, <1>4

(* n units for each thread are n times as many as the threads.             *)
LEMMA ProductBound ==
  ASSUME NEW n \in Nat
  PROVE  /\ IsFiniteSet(Threads \X (1..n))
         /\ Cardinality(Threads \X (1..n)) = n * Cardinality(Threads)
<1>1. IsFiniteSet(1..n) /\ Cardinality(1..n) = n
  BY FS_Interval
<1>2. Cardinality(Threads) \in Nat
  BY ThreadsFinite
<1>3. /\ IsFiniteSet(Threads \X (1..n))
      /\ Cardinality(Threads \X (1..n)) = Cardinality(Threads) * Cardinality(1..n)
  BY <1>1, ThreadsAssumption, FS_Product
<1> QED BY <1>1, <1>2, <1>3

LEMMA SumBound ==
  ASSUME NEW n \in Nat, NEW f
  PROVE  /\ IsFiniteSet(Units(f, n)) /\ Sum(f, n) \in Nat
         /\ Sum(f, n) <= n * Cardinality(Threads)
<1> DEFINE P == Threads \X (1..n)
<1>1. Units(f, n) \subseteq P
  BY DEF Units
<1>2. IsFiniteSet(P) /\ Cardinality(P) = n * Cardinality(Threads)
  BY ProductBound
<1>3. /\ IsFiniteSet(Units(f, n)) /\ Cardinality(Units(f, n)) <= Cardinality(P)
  BY <1>1, <1>2, FS_Subset
<1>4. Cardinality(P) \in Nat /\ Cardinality(Units(f, n)) \in Nat
  BY <1>2, <1>3, FS_CardinalityType
<1>5. n * Cardinality(Threads) \in Nat
  BY ThreadsFinite
<1> HIDE DEF P
<1> QED BY <1>2, <1>3, <1>4, <1>5 DEF Sum

(* What one thread counts changes by at most one.                          *)
LEMMA SumMoved ==
  ASSUME NEW n \in Nat, NEW f \in [Threads -> 0..n],
         NEW g \in [Threads -> 0..n], NEW t \in Threads,
         \A u \in Threads \ {t} : g[u] = f[u],
         g[t] \in {f[t] - 1, f[t], f[t] + 1}
  PROVE  Sum(g, n) = Sum(f, n) + g[t] - f[t]
<1>1. /\ IsFiniteSet(Units(f, n)) /\ Sum(f, n) \in Nat
      /\ IsFiniteSet(Units(g, n)) /\ Sum(g, n) \in Nat
  BY SumBound
<1>2. f[t] \in 0..n /\ g[t] \in 0..n
  OBVIOUS
<1>3. CASE g[t] = f[t]
  <2>1. Units(g, n) = Units(f, n)
    BY <1>3 DEF Units
  <2> QED BY <1>1, <1>2, <1>3, <2>1 DEF Sum
<1>4. CASE g[t] = f[t] + 1
  <2> DEFINE new == <<t, g[t]>>
  <2>1. Units(g, n) = Units(f, n) \cup {new}
    BY <1>2, <1>4 DEF Units
  <2>2. new \notin Units(f, n)
    BY <1>2, <1>4 DEF Units
  <2> HIDE DEF new
  <2> QED BY <1>1, <1>2, <1>4, <2>1, <2>2, FS_AddElement DEF Sum
<1>5. CASE g[t] = f[t] - 1
  <2> DEFINE gone == <<t, f[t]>>
  <2>1. Units(g, n) = Units(f, n) \ {gone}
    BY <1>2, <1>5 DEF Units
  <2>2. gone \in Units(f, n)
    BY <1>2, <1>5 DEF Units
  <2> HIDE DEF gone
  <2> QED BY <1>1, <1>2, <1>5, <2>1, <2>2, FS_RemoveElement DEF Sum
<1> QED BY <1>3, <1>4, <1>5

-----------------------------------------------------------------------------
(* The inductive invariant.                                                *)

Places == {"Idle", "Created", "Counting", "Releasing", "Dropping", "Disposing"}

CallTypes ==
  pc \in [Threads -> Places] /\ slot \in [Threads -> Slots \cup {None}]
    /\ via \in [Threads -> Interfaces]
CountTypes ==
  /\ mTotalRef \in [Slots -> 0 .. MaxTotal]
  /\ mDsRef \in [Slots -> 0 .. MaxTotal] /\ mOtherRef \in [Slots -> 0 .. MaxTotal]
SlotTypes ==
  /\ buffer \in [Slots -> {"Free", "New", "Plain", "3D"}]
  /\ m3dBuffers \in [Slots -> 0 .. 1]
  /\ refs \in [Threads -> [Slots -> [Interfaces -> 0 .. MaxRefs]]]

(* A thread is in a call about a slot, or it is not; a new buffer is       *)
(* released through the interface that it was made with; and whoever calls *)
(* has a reference to the object.                                          *)
CallInv(t) ==
  /\ pc[t] = "Idle" <=> slot[t] = None
  /\ pc[t] = "Created" => via[t] = "Ds"
  /\ pc[t] # "Idle" => objectRefs[t] > 0

ObjectInv ==
  /\ alive \in BOOLEAN /\ objectRefs \in [Threads -> 0 .. MaxRefs]
  /\ mObjectRef = Sum(objectRefs, MaxRefs) /\ (alive <=> mObjectRef > 0)

(* A slot that is free is not held or called, one that is not has exact    *)
(* counts; and nobody but its creator has a buffer that was just made.     *)
FreeInv(s) ==
  buffer[s] = "Free" =>
    \A t \in Threads : slot[t] # s /\ \A i \in Interfaces : refs[t][s][i] = 0
UsedInv(s) ==
  buffer[s] # "Free" =>
    /\ CountsAreExact(s)
    /\ InCall(s, {"Disposing"}) = IF mTotalRef[s] = 0 THEN 1 ELSE 0
ListInv(s) ==
  m3dBuffers[s] = IF Listed(buffer[s]) /\ InCall(s, {"Created"}) = 0 THEN 1 ELSE 0
NewInv(s) ==
  \A t \in Threads : slot[t] = s /\ pc[t] = "Created" => mTotalRef[s] = 1
SlotInv(s) == FreeInv(s) /\ UsedInv(s) /\ ListInv(s) /\ NewInv(s)

IInv ==
  /\ CallTypes /\ CountTypes /\ SlotTypes /\ ObjectInv
  /\ \A t \in Threads : CallInv(t)
  /\ alive => \A s \in Slots : SlotInv(s)

-----------------------------------------------------------------------------
(* What the counts of a slot are counted of.                               *)

InPlace(t, s, places) == slot[t] = s /\ pc[t] \in places
IsDropping(t, s, i) == slot[t] = s /\ pc[t] = "Releasing" /\ via[t] = i
HeldOf(s, i) == [t \in Threads |-> refs[t][s][i]]

LEMMA TalliesAreNaturals ==
  ASSUME NEW s, NEW i
  PROVE  /\ \A places : InCall(s, places) \in Nat
         /\ DroppedRefs(s, i) \in Nat /\ HeldRefs(s, i) \in Nat
<1>1. ASSUME NEW places PROVE InCall(s, places) \in Nat
  BY ThreadsFinite, {t \in Threads : slot[t] = s /\ pc[t] \in places} \in SUBSET Threads
     DEF InCall
<1>2. DroppedRefs(s, i) \in Nat
  BY ThreadsFinite,
     {t \in Threads : slot[t] = s /\ pc[t] = "Releasing" /\ via[t] = i} \in SUBSET Threads
     DEF DroppedRefs
<1>3. HeldRefs(s, i) = Cardinality({h \in Threads \X (1 .. MaxRefs) : h[2] <= refs[h[1]][s][i]})
  BY DEF HeldRefs
<1>4. {h \in Threads \X (1 .. MaxRefs) : h[2] <= refs[h[1]][s][i]}
        \in SUBSET (Threads \X (1 .. MaxRefs))
  OBVIOUS
<1>5. IsFiniteSet(Threads \X (1 .. MaxRefs))
  BY ProductBound, BoundsAssumption
<1> QED BY <1>1, <1>2, <1>3, <1>4, <1>5, FS_Subset, FS_CardinalityType

(* When one thread steps, the calls that a slot is in change by that one.  *)
LEMMA CallMoved ==
  ASSUME NEW t \in Threads, NEW s,
         \A v \in Threads \ {t} : pc'[v] = pc[v] /\ slot'[v] = slot[v] /\ via'[v] = via[v]
  PROVE  /\ \A places : InCall(s, places)' = InCall(s, places)
                          + One(InPlace(t, s, places)') - One(InPlace(t, s, places))
         /\ \A i : DroppedRefs(s, i)' = DroppedRefs(s, i)
                     + One(IsDropping(t, s, i)') - One(IsDropping(t, s, i))
<1>1. ASSUME NEW places
      PROVE  InCall(s, places)' = InCall(s, places)
               + One(InPlace(t, s, places)') - One(InPlace(t, s, places))
  <2> DEFINE A == {v \in Threads : slot[v] = s /\ pc[v] \in places}
             B == {v \in Threads : slot'[v] = s /\ pc'[v] \in places}
  <2>1. A \in SUBSET Threads /\ B \in SUBSET Threads /\ A \ {t} = B \ {t}
    OBVIOUS
  <2>2. (t \in A <=> InPlace(t, s, places)) /\ (t \in B <=> InPlace(t, s, places)')
    BY DEF InPlace
  <2>3. InCall(s, places) = Cardinality(A) /\ InCall(s, places)' = Cardinality(B)
    BY DEF InCall
  <2> HIDE DEF A, B
  <2>4. Cardinality(B) = Cardinality(A) + One(t \in B) - One(t \in A)
    BY <2>1, MemberMoved
  <2>5. One(t \in B) = One(InPlace(t, s, places)') /\ One(t \in A) = One(InPlace(t, s, places))
    BY <2>2 DEF One
  <2> QED BY <2>3, <2>4, <2>5
<1>2. ASSUME NEW i
      PROVE  DroppedRefs(s, i)' = DroppedRefs(s, i)
               + One(IsDropping(t, s, i)') - One(IsDropping(t, s, i))
  <2> DEFINE A == {v \in Threads : slot[v] = s /\ pc[v] = "Releasing" /\ via[v] = i}
             B == {v \in Threads : slot'[v] = s /\ pc'[v] = "Releasing" /\ via'[v] = i}
  <2>1. A \in SUBSET Threads /\ B \in SUBSET Threads /\ A \ {t} = B \ {t}
    OBVIOUS
  <2>2. (t \in A <=> IsDropping(t, s, i)) /\ (t \in B <=> IsDropping(t, s, i)')
    BY DEF IsDropping
  <2>3. DroppedRefs(s, i) = Cardinality(A) /\ DroppedRefs(s, i)' = Cardinality(B)
    BY DEF DroppedRefs
  <2> HIDE DEF A, B
  <2>4. Cardinality(B) = Cardinality(A) + One(t \in B) - One(t \in A)
    BY <2>1, MemberMoved
  <2>5. One(t \in B) = One(IsDropping(t, s, i)') /\ One(t \in A) = One(IsDropping(t, s, i))
    BY <2>2 DEF One
  <2> QED BY <2>3, <2>4, <2>5
<1> QED BY <1>1, <1>2

(* The references of one thread to an interface change by one, or do not.  *)
LEMMA HeldMoved ==
  ASSUME NEW u \in Threads, NEW s \in Slots, NEW i \in Interfaces,
         SlotTypes, SlotTypes',
         \A v \in Threads \ {u} : refs'[v][s][i] = refs[v][s][i],
         refs'[u][s][i] \in {refs[u][s][i] - 1, refs[u][s][i], refs[u][s][i] + 1}
  PROVE  HeldRefs(s, i)' = HeldRefs(s, i) + refs'[u][s][i] - refs[u][s][i]
<1> DEFINE f == [t \in Threads |-> refs[t][s][i]]
           g == [t \in Threads |-> refs'[t][s][i]]
<1>1. f \in [Threads -> 0 .. MaxRefs] /\ g \in [Threads -> 0 .. MaxRefs]
  BY DEF SlotTypes
<1>2. HeldRefs(s, i) = Sum(f, MaxRefs) /\ HeldRefs(s, i)' = Sum(g, MaxRefs)
  <2>1. {h \in Threads \X (1 .. MaxRefs) : h[2] <= refs[h[1]][s][i]} = Units(f, MaxRefs)
    BY DEF Units
  <2>2. {h \in Threads \X (1 .. MaxRefs) : h[2] <= refs'[h[1]][s][i]} = Units(g, MaxRefs)
    BY DEF Units
  <2> QED BY <2>1, <2>2 DEF HeldRefs, Sum
<1>3. \A v \in Threads \ {u} : g[v] = f[v]
  OBVIOUS
<1>4. f[u] = refs[u][s][i] /\ g[u] = refs'[u][s][i]
  OBVIOUS
<1>5. g[u] \in {f[u] - 1, f[u], f[u] + 1}
  BY <1>4
<1> HIDE DEF f, g
<1>6. Sum(g, MaxRefs) = Sum(f, MaxRefs) + g[u] - f[u]
  BY <1>1, <1>3, <1>5, SumMoved, BoundsAssumption
<1> QED BY <1>2, <1>4, <1>6

(* A thread that is in a call, or holds a reference, is counted.           *)
LEMMA Counted ==
  ASSUME NEW t \in Threads, NEW s
  PROVE  /\ \A places : InPlace(t, s, places) => InCall(s, places) > 0
         /\ \A i : IsDropping(t, s, i) => DroppedRefs(s, i) > 0
<1>1. ASSUME NEW S \in SUBSET Threads, t \in S PROVE Cardinality(S) > 0
  BY <1>1, ThreadsFinite, FS_EmptySet
<1>2. ASSUME NEW places, InPlace(t, s, places) PROVE InCall(s, places) > 0
  BY <1>1, <1>2, t \in {v \in Threads : slot[v] = s /\ pc[v] \in places}
     DEF InCall, InPlace
<1>3. ASSUME NEW i, IsDropping(t, s, i) PROVE DroppedRefs(s, i) > 0
  BY <1>1, <1>3, t \in {v \in Threads : slot[v] = s /\ pc[v] = "Releasing" /\ via[v] = i}
     DEF DroppedRefs, IsDropping
<1> QED BY <1>2, <1>3

LEMMA HeldCounted ==
  ASSUME NEW t \in Threads, NEW s \in Slots, NEW i \in Interfaces, SlotTypes,
         refs[t][s][i] > 0
  PROVE  HeldRefs(s, i) > 0
<1> DEFINE S == {h \in Threads \X (1 .. MaxRefs) : h[2] <= refs[h[1]][s][i]}
<1>1. refs[t][s][i] \in 0 .. MaxRefs
  BY DEF SlotTypes
<1>2. <<t, 1>> \in S
  BY <1>1, BoundsAssumption
<1>3. IsFiniteSet(S)
  BY ProductBound, BoundsAssumption, FS_Subset
<1>4. HeldRefs(s, i) = Cardinality(S)
  BY DEF HeldRefs
<1> HIDE DEF S
<1>5. Cardinality(S) \in Nat /\ Cardinality(S) # 0
  BY <1>2, <1>3, FS_CardinalityType, FS_EmptySet
<1> QED BY <1>4, <1>5

(* Of a slot that nobody holds or calls every count is zero.               *)
LEMMA Nobody ==
  ASSUME NEW s \in Slots, SlotTypes,
         \A t \in Threads : slot[t] # s /\ \A i \in Interfaces : refs[t][s][i] = 0
  PROVE  /\ \A places : InCall(s, places) = 0
         /\ \A i \in Interfaces : DroppedRefs(s, i) = 0 /\ HeldRefs(s, i) = 0
<1>1. ASSUME NEW places PROVE InCall(s, places) = 0
  BY {t \in Threads : slot[t] = s /\ pc[t] \in places} = {}, FS_EmptySet DEF InCall
<1>2. ASSUME NEW i \in Interfaces PROVE DroppedRefs(s, i) = 0
  BY {t \in Threads : slot[t] = s /\ pc[t] = "Releasing" /\ via[t] = i} = {}, FS_EmptySet
     DEF DroppedRefs
<1>3. ASSUME NEW i \in Interfaces PROVE HeldRefs(s, i) = 0
  <2>1. {h \in Threads \X (1 .. MaxRefs) : h[2] <= refs[h[1]][s][i]} = {}
    OBVIOUS
  <2> QED BY <2>1, FS_EmptySet DEF HeldRefs
<1> QED BY <1>1, <1>2, <1>3

-----------------------------------------------------------------------------
(* No count can be larger than the references that there are, each thread  *)
(* giving or dropping one more.                                            *)

LEMMA FourApart ==
  ASSUME NEW A \in SUBSET Threads, NEW B \in SUBSET Threads,
         NEW C \in SUBSET Threads, NEW D \in SUBSET Threads,
         A \cap B = {}, (A \cup B) \cap C = {}, (A \cup B \cup C) \cap D = {}
  PROVE  Cardinality(A) + Cardinality(B) + Cardinality(C) + Cardinality(D)
           <= Cardinality(Threads)
<1>1. Cardinality(A \cup B) = Cardinality(A) + Cardinality(B)
  <2>1. Cardinality(A \cup B) = Cardinality(A) + Cardinality(B) - Cardinality(A \cap B)
    BY ThreadsFinite, FS_Union
  <2> QED BY <2>1, FS_EmptySet, ThreadsFinite
<1>2. Cardinality(A \cup B \cup C) = Cardinality(A \cup B) + Cardinality(C)
  <2>1. Cardinality((A \cup B) \cup C)
          = Cardinality(A \cup B) + Cardinality(C) - Cardinality((A \cup B) \cap C)
    BY ThreadsFinite, FS_Union
  <2> QED BY <2>1, FS_EmptySet, ThreadsFinite
<1>3. Cardinality(A \cup B \cup C \cup D) = Cardinality(A \cup B \cup C) + Cardinality(D)
  <2>1. Cardinality((A \cup B \cup C) \cup D)
          = Cardinality(A \cup B \cup C) + Cardinality(D) - Cardinality((A \cup B \cup C) \cap D)
    BY ThreadsFinite, FS_Union
  <2> QED BY <2>1, FS_EmptySet, ThreadsFinite
<1>4. Cardinality(A \cup B \cup C \cup D) <= Cardinality(Threads)
  BY ThreadsFinite
<1> QED BY <1>1, <1>2, <1>3, <1>4, ThreadsFinite

Bounded ==
  \A s \in Slots : SlotTypes /\ CallTypes /\ CountsAreExact(s) =>
    mTotalRef[s] \in 0 .. MaxTotal /\ mDsRef[s] \in 0 .. MaxTotal
      /\ mOtherRef[s] \in 0 .. MaxTotal

LEMMA CountsBounded == Bounded
<1> SUFFICES ASSUME NEW s \in Slots, SlotTypes, CallTypes, CountsAreExact(s)
             PROVE  mTotalRef[s] \in 0 .. MaxTotal /\ mDsRef[s] \in 0 .. MaxTotal
                      /\ mOtherRef[s] \in 0 .. MaxTotal
  BY DEF Bounded
<1> DEFINE A == {t \in Threads : slot[t] = s /\ pc[t] = "Releasing" /\ via[t] = "Ds"}
           B == {t \in Threads : slot[t] = s /\ pc[t] = "Releasing" /\ via[t] = "Other"}
           C == {t \in Threads : slot[t] = s /\ pc[t] \in {"Created"}}
           D == {t \in Threads : slot[t] = s /\ pc[t] \in {"Counting", "Dropping"}}
           N == Cardinality(Threads)
<1>1. Cardinality(A) + Cardinality(B) + Cardinality(C) + Cardinality(D) <= N
  BY FourApart
<1>2. /\ DroppedRefs(s, "Ds") = Cardinality(A) /\ DroppedRefs(s, "Other") = Cardinality(B)
      /\ InCall(s, {"Created"}) = Cardinality(C)
      /\ InCall(s, {"Counting", "Dropping"}) = Cardinality(D)
  BY DEF DroppedRefs, InCall
<1>3. /\ Cardinality(A) \in Nat /\ Cardinality(B) \in Nat
      /\ Cardinality(C) \in Nat /\ Cardinality(D) \in Nat /\ N \in Nat
  BY ThreadsFinite
<1>4. ASSUME NEW i \in Interfaces
      PROVE  HeldRefs(s, i) \in Nat /\ HeldRefs(s, i) <= MaxRefs * N
  <2> DEFINE f == [t \in Threads |-> refs[t][s][i]]
  <2>1. {h \in Threads \X (1 .. MaxRefs) : h[2] <= refs[h[1]][s][i]} = Units(f, MaxRefs)
    BY DEF Units
  <2>2. HeldRefs(s, i) = Sum(f, MaxRefs)
    BY <2>1 DEF HeldRefs, Sum
  <2> HIDE DEF f
  <2> QED BY <2>2, SumBound, BoundsAssumption
<1>5. MaxTotal = MaxRefs * N + MaxRefs * N + N /\ MaxRefs * N \in Nat
  BY <1>3, BoundsAssumption DEF MaxTotal
<1>6. /\ mDsRef[s] = HeldRefs(s, "Ds") + Cardinality(A) + Cardinality(C)
      /\ mOtherRef[s] = HeldRefs(s, "Other") + Cardinality(B)
      /\ mTotalRef[s] = mDsRef[s] + mOtherRef[s] + Cardinality(D)
  BY <1>2 DEF CountsAreExact
<1>7. /\ HeldRefs(s, "Ds") \in Nat /\ HeldRefs(s, "Ds") <= MaxRefs * N
      /\ HeldRefs(s, "Other") \in Nat /\ HeldRefs(s, "Other") <= MaxRefs * N
  BY <1>4 DEF Interfaces
<1> HIDE DEF A, B, C, D, N
<1> QED BY <1>1, <1>3, <1>5, <1>6, <1>7

LEMMA CountsBoundedNext == Bounded'
BY CountsBounded, PTL

(* And the other way round: a slot of which every count is zero is held    *)
(* and called by nobody.                                                   *)
Deserted ==
  \A s \in Slots :
    /\ CallTypes /\ SlotTypes /\ \A t \in Threads : CallInv(t)
    /\ InCall(s, {"Created"}) = 0 /\ InCall(s, {"Counting", "Dropping"}) = 0
    /\ InCall(s, {"Disposing"}) = 0
    /\ \A i \in Interfaces : DroppedRefs(s, i) = 0 /\ HeldRefs(s, i) = 0
    => \A t \in Threads : slot[t] # s /\ \A i \in Interfaces : refs[t][s][i] = 0

LEMMA ZeroIsDeserted == Deserted
<1> SUFFICES ASSUME NEW s \in Slots, CallTypes, SlotTypes, \A t \in Threads : CallInv(t),
                    InCall(s, {"Created"}) = 0, InCall(s, {"Counting", "Dropping"}) = 0,
                    InCall(s, {"Disposing"}) = 0,
                    \A i \in Interfaces : DroppedRefs(s, i) = 0 /\ HeldRefs(s, i) = 0,
                    NEW t \in Threads
             PROVE  slot[t] # s /\ \A i \in Interfaces : refs[t][s][i] = 0
  BY DEF Deserted
<1>1. slot[t] # s
  <2> SUFFICES ASSUME slot[t] = s PROVE FALSE
    OBVIOUS
  <2>1. pc[t] # "Idle"
    BY DEF CallInv, None, Slots
  <2>2. /\ ~InPlace(t, s, {"Created"}) /\ ~InPlace(t, s, {"Counting", "Dropping"})
        /\ ~InPlace(t, s, {"Disposing"})
        /\ \A i \in Interfaces : ~IsDropping(t, s, i)
    BY Counted
  <2>3. pc[t] \notin {"Created", "Counting", "Dropping", "Disposing"}
    BY <2>2 DEF InPlace
  <2>4. pc[t] = "Releasing" /\ via[t] \in Interfaces
    BY <2>1, <2>3 DEF CallTypes, Places
  <2> QED BY <2>2, <2>4 DEF IsDropping
<1>2. ASSUME NEW i \in Interfaces PROVE refs[t][s][i] = 0
  <2>1. refs[t][s][i] \in 0 .. MaxRefs
    BY DEF SlotTypes
  <2>2. ~(refs[t][s][i] > 0)
    BY HeldCounted
  <2> QED BY <2>1, <2>2
<1> QED BY <1>1, <1>2

LEMMA ZeroIsDesertedNext == Deserted'
BY ZeroIsDeserted, PTL

(* What an operation on a buffer may touch: the caller's own call, and the *)
(* slot it is about.                                                       *)
OnlySlot(t, s) ==
  /\ \A v \in Threads \ {t} : pc'[v] = pc[v] /\ slot'[v] = slot[v] /\ via'[v] = via[v]
  /\ slot[t] \in {None, s} /\ slot'[t] \in {None, s}
  /\ \A r \in Slots \ {s} :
       /\ buffer'[r] = buffer[r] /\ m3dBuffers'[r] = m3dBuffers[r]
       /\ mTotalRef'[r] = mTotalRef[r] /\ mDsRef'[r] = mDsRef[r]
       /\ mOtherRef'[r] = mOtherRef[r]
       /\ \A v \in Threads : refs'[v][r] = refs[v][r]

LEMMA OtherSlots ==
  ASSUME NEW t \in Threads, NEW s \in Slots, OnlySlot(t, s), CallTypes,
         NEW r \in Slots \ {s}, SlotInv(r)
  PROVE  SlotInv(r)'
<1>1. /\ \A v \in Threads : slot[v] = r <=> slot'[v] = r
      /\ \A v \in Threads : slot[v] = r => pc'[v] = pc[v] /\ via'[v] = via[v]
  BY DEF OnlySlot, None, Slots
<1>2. ASSUME NEW places PROVE InCall(r, places)' = InCall(r, places)
  <2>1. {v \in Threads : slot[v] = r /\ pc[v] \in places}
          = {v \in Threads : slot'[v] = r /\ pc'[v] \in places}
    BY <1>1
  <2> QED BY <2>1 DEF InCall
<1>3. ASSUME NEW i PROVE DroppedRefs(r, i)' = DroppedRefs(r, i)
  <2>1. {v \in Threads : slot[v] = r /\ pc[v] = "Releasing" /\ via[v] = i}
          = {v \in Threads : slot'[v] = r /\ pc'[v] = "Releasing" /\ via'[v] = i}
    BY <1>1
  <2> QED BY <2>1 DEF DroppedRefs
<1>4. \A v \in Threads : refs'[v][r] = refs[v][r]
  BY DEF OnlySlot
<1>5. ASSUME NEW i PROVE HeldRefs(r, i)' = HeldRefs(r, i)
  <2>1. {h \in Threads \X (1 .. MaxRefs) : h[2] <= refs[h[1]][r][i]}
          = {h \in Threads \X (1 .. MaxRefs) : h[2] <= refs'[h[1]][r][i]}
    BY <1>4
  <2> QED BY <2>1 DEF HeldRefs
<1>6. /\ buffer'[r] = buffer[r] /\ m3dBuffers'[r] = m3dBuffers[r]
      /\ mTotalRef'[r] = mTotalRef[r] /\ mDsRef'[r] = mDsRef[r]
      /\ mOtherRef'[r] = mOtherRef[r]
  BY DEF OnlySlot
<1>7. FreeInv(r)'
  BY <1>1, <1>4, <1>6 DEF SlotInv, FreeInv
<1>8. CountsAreExact(r) => CountsAreExact(r)'
  BY <1>2, <1>3, <1>5, <1>6 DEF CountsAreExact
<1>9. UsedInv(r)'
  BY <1>2, <1>6, <1>8 DEF SlotInv, UsedInv
<1>10. ListInv(r)'
  BY <1>2, <1>6 DEF SlotInv, ListInv
<1>11. NewInv(r)'
  BY <1>1, <1>6 DEF SlotInv, NewInv
<1> QED BY <1>7, <1>9, <1>10, <1>11 DEF SlotInv

(* So an operation on a buffer keeps the invariant when it keeps the       *)
(* caller's part of it and the slot's, and the slot's counts are exact or  *)
(* as they were.                                                           *)
LEMMA SlotStep ==
  ASSUME IInv, alive, NEW t \in Threads, NEW s \in Slots, OnlySlot(t, s),
         UNCHANGED object, CallTypes', SlotTypes', CallInv(t)', SlotInv(s)',
         mTotalRef' \in [Slots -> Int], mDsRef' \in [Slots -> Int],
         mOtherRef' \in [Slots -> Int],
         buffer'[s] # "Free" \/ UNCHANGED counts
  PROVE  IInv'
<1>1. alive' = alive /\ mObjectRef' = mObjectRef /\ objectRefs' = objectRefs
  BY DEF object
<1>2. ObjectInv'
  BY <1>1 DEF IInv, ObjectInv
<1>3. \A v \in Threads : CallInv(v)'
  <2> SUFFICES ASSUME NEW v \in Threads \ {t} PROVE CallInv(v)'
    OBVIOUS
  <2>1. pc'[v] = pc[v] /\ slot'[v] = slot[v] /\ via'[v] = via[v]
    BY DEF OnlySlot
  <2> QED BY <1>1, <2>1 DEF IInv, CallInv
<1>4. ASSUME NEW r \in Slots PROVE SlotInv(r)'
  <2>1. CASE r = s
    BY <2>1
  <2>2. CASE r # s
    <3>1. SlotInv(r) /\ CallTypes
      BY DEF IInv
    <3> QED BY <2>2, <3>1, OtherSlots
  <2> QED BY <2>1, <2>2
<1>5. CountTypes'
  <2>1. MaxTotal' = MaxTotal
    BY DEF MaxTotal
  <2>2. CASE UNCHANGED counts
    BY <2>1, <2>2 DEF IInv, CountTypes, counts
  <2>3. CASE buffer'[s] # "Free"
    <3>1. CountsAreExact(s)'
      BY <2>3 DEF SlotInv, UsedInv
    <3>2. /\ mTotalRef'[s] \in 0 .. MaxTotal /\ mDsRef'[s] \in 0 .. MaxTotal
          /\ mOtherRef'[s] \in 0 .. MaxTotal
      BY <2>1, <3>1, CountsBoundedNext DEF Bounded
    <3>3. ASSUME NEW r \in Slots \ {s}
          PROVE  /\ mTotalRef'[r] \in 0 .. MaxTotal /\ mDsRef'[r] \in 0 .. MaxTotal
                 /\ mOtherRef'[r] \in 0 .. MaxTotal
      BY DEF OnlySlot, IInv, CountTypes
    <3> QED BY <2>1, <3>2, <3>3 DEF CountTypes
  <2> QED BY <2>2, <2>3
<1> QED BY <1>2, <1>3, <1>4, <1>5 DEF IInv

-----------------------------------------------------------------------------
(* The operations on a buffer.                                             *)

(* A buffer is made in a slot that nobody holds or calls, with the one     *)
(* reference of its creator.                                               *)
LEMMA ConstructKeeps ==
  ASSUME IInv, alive, NEW t \in Threads, NEW s \in Slots,
         NEW kind \in {"New", "Plain", "3D"}, Construct(t, s, kind)
  PROVE  IInv'
<1>1. /\ buffer[s] = "Free" /\ pc[t] = "Idle" /\ objectRefs[t] > 0
      /\ pc' = [pc EXCEPT ![t] = "Created"] /\ slot' = [slot EXCEPT ![t] = s]
      /\ via' = [via EXCEPT ![t] = "Ds"] /\ buffer' = [buffer EXCEPT ![s] = kind]
      /\ mTotalRef' = [mTotalRef EXCEPT ![s] = 1]
      /\ mDsRef' = [mDsRef EXCEPT ![s] = 1] /\ mOtherRef' = [mOtherRef EXCEPT ![s] = 0]
      /\ UNCHANGED object /\ objectRefs' = objectRefs
      /\ m3dBuffers' = m3dBuffers /\ refs' = refs
  BY DEF Construct, FirstFree, Begin, CanCall, object
<1>2. CallTypes /\ SlotTypes /\ CountTypes /\ SlotInv(s) /\ CallInv(t)
  BY DEF IInv
<1>3. CallTypes'
  BY <1>1, <1>2 DEF CallTypes, Places, Interfaces
<1>4. SlotTypes'
  BY <1>1, <1>2 DEF SlotTypes
<1>5. /\ pc'[t] = "Created" /\ slot'[t] = s /\ via'[t] = "Ds" /\ slot[t] = None
      /\ buffer'[s] = kind /\ mTotalRef'[s] = 1 /\ mDsRef'[s] = 1 /\ mOtherRef'[s] = 0
      /\ m3dBuffers'[s] = m3dBuffers[s]
  BY <1>1, <1>2 DEF CallTypes, SlotTypes, CountTypes, CallInv
<1>6. OnlySlot(t, s)
  BY <1>1, <1>2, <1>5 DEF OnlySlot, CallTypes, SlotTypes, CountTypes
<1>7. \A v \in Threads : slot[v] # s /\ \A i \in Interfaces : refs[v][s][i] = 0
  BY <1>1, <1>2 DEF SlotInv, FreeInv
<1>8. /\ \A places : InCall(s, places) = 0
      /\ \A i \in Interfaces : DroppedRefs(s, i) = 0 /\ HeldRefs(s, i) = 0
  BY <1>2, <1>7, Nobody
<1>9. /\ \A places : InCall(s, places)' = InCall(s, places)
                       + One(InPlace(t, s, places)') - One(InPlace(t, s, places))
      /\ \A i : DroppedRefs(s, i)' = DroppedRefs(s, i)
                  + One(IsDropping(t, s, i)') - One(IsDropping(t, s, i))
  BY <1>6, CallMoved DEF OnlySlot
<1>10. /\ InCall(s, {"Created"})' = 1 /\ InCall(s, {"Counting", "Dropping"})' = 0
       /\ InCall(s, {"Disposing"})' = 0
  BY <1>5, <1>7, <1>8, <1>9 DEF InPlace, One
<1>11. \A i \in Interfaces : DroppedRefs(s, i)' = 0
  BY <1>5, <1>7, <1>8, <1>9 DEF IsDropping, One
<1>12. \A i \in Interfaces : HeldRefs(s, i)' = 0
  BY <1>1, <1>8 DEF HeldRefs
<1>13. FreeInv(s)'
  BY <1>5 DEF FreeInv
<1>14. CountsAreExact(s)'
  BY <1>5, <1>10, <1>11, <1>12 DEF CountsAreExact, Interfaces
<1>15. UsedInv(s)'
  BY <1>5, <1>10, <1>14 DEF UsedInv
<1>16. ListInv(s)'
  BY <1>1, <1>2, <1>5, <1>10 DEF SlotInv, ListInv, Listed
<1>17. NewInv(s)'
  BY <1>5 DEF NewInv
<1>18. SlotInv(s)'
  BY <1>13, <1>15, <1>16, <1>17 DEF SlotInv
<1>19. CallInv(t)'
  BY <1>1, <1>5 DEF CallInv, None, Slots
<1>20. /\ mTotalRef' \in [Slots -> Int] /\ mDsRef' \in [Slots -> Int]
       /\ mOtherRef' \in [Slots -> Int]
  BY <1>1, <1>2 DEF CountTypes
<1> QED BY <1>1, <1>3, <1>4, <1>5, <1>6, <1>18, <1>19, <1>20, SlotStep

(* A thread that has a reference to the object finds it alive.             *)
LEMMA HolderFindsObject ==
  ASSUME IInv, NEW t \in Threads, objectRefs[t] > 0
  PROVE  alive
<1>1. ObjectInv
  BY DEF IInv
<1>2. <<t, 1>> \in Units(objectRefs, MaxRefs)
  BY <1>1, BoundsAssumption DEF ObjectInv, Units
<1>3. IsFiniteSet(Units(objectRefs, MaxRefs)) /\ Sum(objectRefs, MaxRefs) \in Nat
  BY SumBound, BoundsAssumption
<1>4. Sum(objectRefs, MaxRefs) # 0
  BY <1>2, <1>3, FS_EmptySet DEF Sum
<1> QED BY <1>1, <1>3, <1>4 DEF ObjectInv

(* The buffer of a thread that is in a call exists, and so does the object. *)
LEMMA Called ==
  ASSUME IInv, NEW t \in Threads, pc[t] # "Idle"
  PROVE  alive /\ slot[t] \in Slots /\ SlotInv(slot[t]) /\ buffer[slot[t]] # "Free"
           /\ CountsAreExact(slot[t])
<1>1. CallInv(t) /\ CallTypes /\ SlotTypes /\ ObjectInv
  BY DEF IInv
<1>2. slot[t] \in Slots /\ objectRefs[t] > 0
  BY <1>1 DEF CallInv, CallTypes
<1>3. alive
  BY <1>2, HolderFindsObject
<1>4. SlotInv(slot[t])
  BY <1>2, <1>3 DEF IInv
<1>5. buffer[slot[t]] # "Free"
  BY <1>2, <1>4 DEF SlotInv, FreeInv
<1> QED BY <1>2, <1>3, <1>4, <1>5 DEF SlotInv, UsedInv

(* The buffer that a thread has just made has one reference, its creator's *)
(* own, and so nobody else can reach it.                                   *)
LEMMA JustMade ==
  ASSUME IInv, NEW t \in Threads, NEW s \in Slots, slot[t] = s, pc[t] = "Created"
  PROVE  /\ mTotalRef[s] = 1 /\ mDsRef[s] = 1 /\ mOtherRef[s] = 0 /\ via[t] = "Ds"
         /\ InCall(s, {"Created"}) = 1 /\ InCall(s, {"Counting", "Dropping"}) = 0
         /\ InCall(s, {"Disposing"}) = 0 /\ m3dBuffers[s] = 0
         /\ \A i \in Interfaces : DroppedRefs(s, i) = 0 /\ HeldRefs(s, i) = 0
         /\ refs[t][s]["Ds"] = 0
<1>1. /\ alive /\ SlotInv(s) /\ buffer[s] # "Free" /\ CountsAreExact(s)
      /\ CallInv(t) /\ SlotTypes /\ CountTypes
  BY Called DEF IInv
<1>2. mTotalRef[s] = 1 /\ via[t] = "Ds"
  BY <1>1 DEF SlotInv, NewInv, CallInv
<1>3. InCall(s, {"Created"}) > 0
  BY Counted DEF InPlace
<1>4. /\ InCall(s, {"Created"}) \in Nat /\ InCall(s, {"Counting", "Dropping"}) \in Nat
      /\ DroppedRefs(s, "Ds") \in Nat /\ HeldRefs(s, "Ds") \in Nat
      /\ DroppedRefs(s, "Other") \in Nat /\ HeldRefs(s, "Other") \in Nat
  BY TalliesAreNaturals
<1>5. /\ mDsRef[s] = HeldRefs(s, "Ds") + DroppedRefs(s, "Ds") + InCall(s, {"Created"})
      /\ mOtherRef[s] = HeldRefs(s, "Other") + DroppedRefs(s, "Other")
      /\ mTotalRef[s] = mDsRef[s] + mOtherRef[s] + InCall(s, {"Counting", "Dropping"})
  BY <1>1 DEF CountsAreExact
<1>6. /\ mDsRef[s] = 1 /\ mOtherRef[s] = 0
      /\ InCall(s, {"Created"}) = 1 /\ InCall(s, {"Counting", "Dropping"}) = 0
      /\ DroppedRefs(s, "Ds") = 0 /\ HeldRefs(s, "Ds") = 0
      /\ DroppedRefs(s, "Other") = 0 /\ HeldRefs(s, "Other") = 0
  <2>1. HeldRefs(s, "Ds") + DroppedRefs(s, "Ds") + InCall(s, {"Created"})
          + HeldRefs(s, "Other") + DroppedRefs(s, "Other")
          + InCall(s, {"Counting", "Dropping"}) = 1
    BY <1>2, <1>4, <1>5
  <2>2. /\ InCall(s, {"Created"}) = 1 /\ InCall(s, {"Counting", "Dropping"}) = 0
        /\ DroppedRefs(s, "Ds") = 0 /\ HeldRefs(s, "Ds") = 0
        /\ DroppedRefs(s, "Other") = 0 /\ HeldRefs(s, "Other") = 0
    BY <1>3, <1>4, <2>1
  <2> QED BY <1>5, <2>2
<1>7. InCall(s, {"Disposing"}) = 0 /\ m3dBuffers[s] = 0
  BY <1>1, <1>2, <1>6 DEF SlotInv, UsedInv, ListInv
<1>8. refs[t][s]["Ds"] = 0
  <2>1. refs[t][s]["Ds"] \in 0 .. MaxRefs
    BY <1>1 DEF SlotTypes, Interfaces
  <2>2. ~(refs[t][s]["Ds"] > 0)
    BY <1>1, <1>6, HeldCounted DEF Interfaces
  <2> QED BY <2>1, <2>2
<1> QED BY <1>2, <1>6, <1>7, <1>8 DEF Interfaces

LEMMA InitializeKeeps ==
  ASSUME IInv, NEW t \in Threads, NEW s \in Slots, slot[t] = s, Initialize(t)
  PROVE  IInv'
<1>1. PICK kind \in {"Plain", "3D"} : SetBuffer(s, kind)
  BY DEF Initialize
<1>2. /\ pc[t] = "Created"
      /\ pc' = [pc EXCEPT ![t] = "Idle"] /\ slot' = [slot EXCEPT ![t] = None]
      /\ via' = [via EXCEPT ![t] = "Ds"]
      /\ buffer' = [buffer EXCEPT ![s] = kind]
      /\ m3dBuffers' = [m3dBuffers EXCEPT ![s] = IF Listed(kind) THEN @ + 1 ELSE @]
      /\ refs' = [refs EXCEPT ![t][s]["Ds"] = @ + 1]
      /\ UNCHANGED object /\ objectRefs' = objectRefs
      /\ mTotalRef' = mTotalRef /\ mDsRef' = mDsRef /\ mOtherRef' = mOtherRef
  BY <1>1 DEF Initialize, End, SetBuffer, object, counts
<1>3. /\ mTotalRef[s] = 1 /\ mDsRef[s] = 1 /\ mOtherRef[s] = 0
      /\ InCall(s, {"Created"}) = 1 /\ InCall(s, {"Counting", "Dropping"}) = 0
      /\ InCall(s, {"Disposing"}) = 0 /\ m3dBuffers[s] = 0
      /\ \A i \in Interfaces : DroppedRefs(s, i) = 0 /\ HeldRefs(s, i) = 0
      /\ refs[t][s]["Ds"] = 0
  BY <1>2, JustMade
<1>4. /\ alive /\ CallTypes /\ SlotTypes /\ CountTypes /\ CallInv(t)
  BY <1>2, Called DEF IInv
<1>5. slot[t] = s
  OBVIOUS
<1>6. CallTypes'
  BY <1>2, <1>4 DEF CallTypes, Places, Interfaces
<1>7. /\ pc'[t] = "Idle" /\ slot'[t] = None /\ buffer'[s] = kind
      /\ m3dBuffers'[s] = IF Listed(kind) THEN 1 ELSE 0
  BY <1>2, <1>3, <1>4 DEF CallTypes, SlotTypes
<1>8. SlotTypes'
  <2>1. buffer' \in [Slots -> {"Free", "New", "Plain", "3D"}]
    BY <1>2, <1>4 DEF SlotTypes
  <2>2. m3dBuffers' \in [Slots -> 0 .. 1]
    BY <1>2, <1>3, <1>4 DEF SlotTypes
  <2>3. refs' \in [Threads -> [Slots -> [Interfaces -> 0 .. MaxRefs]]]
    BY <1>2, <1>3, <1>4, BoundsAssumption DEF SlotTypes, Interfaces
  <2> QED BY <2>1, <2>2, <2>3 DEF SlotTypes
<1>9. OnlySlot(t, s)
  BY <1>2, <1>4, <1>5, <1>7 DEF OnlySlot, CallTypes, SlotTypes
<1>10. /\ InPlace(t, s, {"Created"}) /\ ~InPlace(t, s, {"Counting", "Dropping"})
       /\ ~InPlace(t, s, {"Disposing"}) /\ \A i : ~IsDropping(t, s, i)
  BY <1>2, <1>5 DEF InPlace, IsDropping
<1>11. /\ \A places : ~InPlace(t, s, places)' /\ \A i : ~IsDropping(t, s, i)'
  BY <1>4, <1>7 DEF InPlace, IsDropping, None, Slots
<1>12. /\ \A places : InCall(s, places)' = InCall(s, places)
                        + One(InPlace(t, s, places)') - One(InPlace(t, s, places))
       /\ \A i : DroppedRefs(s, i)' = DroppedRefs(s, i)
                   + One(IsDropping(t, s, i)') - One(IsDropping(t, s, i))
  BY <1>9, CallMoved DEF OnlySlot
<1>13. /\ InCall(s, {"Created"})' = 0 /\ InCall(s, {"Counting", "Dropping"})' = 0
       /\ InCall(s, {"Disposing"})' = 0
  BY <1>3, <1>10, <1>11, <1>12 DEF One
<1>14. \A i \in Interfaces : DroppedRefs(s, i)' = 0
  BY <1>3, <1>10, <1>11, <1>12 DEF One
<1>15. HeldRefs(s, "Ds")' = 1 /\ HeldRefs(s, "Other")' = 0
  <2>1. /\ \A v \in Threads \ {t} : refs'[v] = refs[v]
        /\ refs'[t][s]["Ds"] = 1 /\ refs'[t][s]["Other"] = refs[t][s]["Other"]
    BY <1>2, <1>3, <1>4 DEF SlotTypes, Interfaces
  <2>2. HeldRefs(s, "Ds")' = HeldRefs(s, "Ds") + refs'[t][s]["Ds"] - refs[t][s]["Ds"]
    BY <1>3, <1>4, <1>8, <2>1, HeldMoved DEF Interfaces
  <2>3. HeldRefs(s, "Other")'
          = HeldRefs(s, "Other") + refs'[t][s]["Other"] - refs[t][s]["Other"]
    BY <1>4, <1>8, <2>1, HeldMoved DEF Interfaces
  <2>4. refs[t][s]["Other"] \in 0 .. MaxRefs
    BY <1>4 DEF SlotTypes, Interfaces
  <2> QED BY <1>3, <2>1, <2>2, <2>3, <2>4 DEF Interfaces
<1>16. /\ mTotalRef'[s] = 1 /\ mDsRef'[s] = 1 /\ mOtherRef'[s] = 0
  BY <1>2, <1>3
<1>17. CountsAreExact(s)'
  BY <1>13, <1>14, <1>15, <1>16 DEF CountsAreExact, Interfaces
<1>18. UsedInv(s)'
  BY <1>13, <1>16, <1>17 DEF UsedInv
<1>19. ListInv(s)'
  BY <1>7, <1>13 DEF ListInv
<1>20. FreeInv(s)' /\ NewInv(s)'
  BY <1>7, <1>16 DEF FreeInv, NewInv
<1>21. SlotInv(s)'
  BY <1>18, <1>19, <1>20 DEF SlotInv
<1>22. CallInv(t)'
  BY <1>7 DEF CallInv
<1>23. /\ mTotalRef' \in [Slots -> Int] /\ mDsRef' \in [Slots -> Int]
       /\ mOtherRef' \in [Slots -> Int] /\ UNCHANGED counts
  BY <1>2, <1>4 DEF CountTypes, counts
<1> QED BY <1>2, <1>4, <1>6, <1>8, <1>9, <1>21, <1>22, <1>23, SlotStep

LEMMA FailInitializeKeeps ==
  ASSUME IInv, NEW t \in Threads, NEW s \in Slots, slot[t] = s, FailInitialize(t)
  PROVE  IInv'
<1>1. /\ mTotalRef[s] = 1 /\ mDsRef[s] = 1 /\ mOtherRef[s] = 0 /\ via[t] = "Ds"
      /\ InCall(s, {"Created"}) = 1 /\ InCall(s, {"Counting", "Dropping"}) = 0
      /\ InCall(s, {"Disposing"}) = 0 /\ m3dBuffers[s] = 0
      /\ \A i \in Interfaces : DroppedRefs(s, i) = 0 /\ HeldRefs(s, i) = 0
  BY JustMade DEF FailInitialize
<1>2. /\ alive /\ buffer[s] # "Free"
      /\ CallTypes /\ SlotTypes /\ CountTypes /\ CallInv(t) /\ SlotInv(s)
  BY Called DEF IInv, FailInitialize
<1>3. /\ pc[t] = "Created" /\ pc' = [pc EXCEPT ![t] = "Releasing"]
      /\ slot' = slot /\ via' = via /\ refs' = refs
      /\ UNCHANGED object /\ objectRefs' = objectRefs
      /\ mTotalRef' = mTotalRef /\ mDsRef' = mDsRef /\ mOtherRef' = mOtherRef
  BY DEF FailInitialize, Continue, object, counts
<1>4. /\ buffer' \in [Slots -> {"Free", "New", "Plain", "3D"}] /\ buffer'[s] # "Free"
      /\ m3dBuffers' \in [Slots -> 0 .. 1]
      /\ m3dBuffers'[s] = IF Listed(buffer'[s]) THEN 1 ELSE 0
      /\ \A r \in Slots \ {s} : buffer'[r] = buffer[r] /\ m3dBuffers'[r] = m3dBuffers[r]
  <2>1. CASE buffer[s] = "New" /\ UNCHANGED <<buffer, m3dBuffers>>
    BY <1>1, <1>2, <2>1 DEF SlotTypes, Listed
  <2>2. CASE \E kind \in {"Plain", "3D"} : SetBuffer(s, kind)
    <3>1. PICK kind \in {"Plain", "3D"} : SetBuffer(s, kind)
      BY <2>2
    <3>2. /\ buffer' = [buffer EXCEPT ![s] = kind]
          /\ m3dBuffers' = [m3dBuffers EXCEPT ![s] = IF Listed(kind) THEN @ + 1 ELSE @]
      BY <3>1 DEF SetBuffer
    <3> QED BY <1>1, <1>2, <3>2 DEF SlotTypes
  <2> QED BY <2>1, <2>2 DEF FailInitialize
<1>5. slot[t] = s
  OBVIOUS
<1>6. CallTypes'
  BY <1>2, <1>3 DEF CallTypes, Places
<1>7. SlotTypes'
  BY <1>2, <1>3, <1>4 DEF SlotTypes
<1>8. pc'[t] = "Releasing" /\ slot'[t] = s /\ via'[t] = "Ds"
  BY <1>1, <1>2, <1>3, <1>5 DEF CallTypes
<1>9. OnlySlot(t, s)
  BY <1>2, <1>3, <1>4, <1>5 DEF OnlySlot, CallTypes
<1>10. /\ InPlace(t, s, {"Created"}) /\ ~InPlace(t, s, {"Counting", "Dropping"})
       /\ ~InPlace(t, s, {"Disposing"}) /\ \A i : ~IsDropping(t, s, i)
  BY <1>3, <1>5 DEF InPlace, IsDropping
<1>11. /\ ~InPlace(t, s, {"Created"})' /\ ~InPlace(t, s, {"Counting", "Dropping"})'
       /\ ~InPlace(t, s, {"Disposing"})' /\ IsDropping(t, s, "Ds")'
       /\ ~IsDropping(t, s, "Other")'
  BY <1>8 DEF InPlace, IsDropping
<1>12. /\ \A places : InCall(s, places)' = InCall(s, places)
                        + One(InPlace(t, s, places)') - One(InPlace(t, s, places))
       /\ \A i : DroppedRefs(s, i)' = DroppedRefs(s, i)
                   + One(IsDropping(t, s, i)') - One(IsDropping(t, s, i))
  BY <1>9, CallMoved DEF OnlySlot
<1>13. /\ InCall(s, {"Created"})' = 0 /\ InCall(s, {"Counting", "Dropping"})' = 0
       /\ InCall(s, {"Disposing"})' = 0
  BY <1>1, <1>10, <1>11, <1>12 DEF One
<1>14. DroppedRefs(s, "Ds")' = 1 /\ DroppedRefs(s, "Other")' = 0
  BY <1>1, <1>10, <1>11, <1>12 DEF One, Interfaces
<1>15. \A i \in Interfaces : HeldRefs(s, i)' = 0
  BY <1>1, <1>3 DEF HeldRefs
<1>16. CountsAreExact(s)'
  BY <1>1, <1>3, <1>13, <1>14, <1>15 DEF CountsAreExact, Interfaces
<1>17. UsedInv(s)' /\ ListInv(s)' /\ FreeInv(s)' /\ NewInv(s)'
  BY <1>1, <1>3, <1>4, <1>13, <1>16 DEF UsedInv, ListInv, FreeInv, NewInv
<1>18. SlotInv(s)'
  BY <1>17 DEF SlotInv
<1>19. CallInv(t)'
  BY <1>2, <1>3, <1>8 DEF CallInv, None, Slots
<1>20. /\ mTotalRef' \in [Slots -> Int] /\ mDsRef' \in [Slots -> Int]
       /\ mOtherRef' \in [Slots -> Int] /\ UNCHANGED counts
  BY <1>2, <1>3 DEF CountTypes, counts
<1> QED BY <1>2, <1>3, <1>6, <1>7, <1>9, <1>18, <1>19, <1>20, SlotStep

(* A thread that holds a reference holds it to a buffer that exists.       *)
LEMMA HeldIsUsed ==
  ASSUME IInv, alive, NEW t \in Threads, NEW s \in Slots, NEW i \in Interfaces,
         refs[t][s][i] > 0
  PROVE  buffer[s] # "Free" /\ CountsAreExact(s) /\ HeldRefs(s, i) > 0
<1>1. SlotInv(s) /\ SlotTypes
  BY DEF IInv
<1>2. buffer[s] # "Free"
  BY <1>1 DEF SlotInv, FreeInv
<1> QED BY <1>1, <1>2, HeldCounted DEF SlotInv, UsedInv

LEMMA AddRefKeeps ==
  ASSUME IInv, alive, NEW t \in Threads, NEW s \in Slots, NEW i \in Interfaces,
         AddRef(t, s, i)
  PROVE  IInv'
<1>1. /\ pc[t] = "Idle" /\ objectRefs[t] > 0 /\ Holds(t, s)
      /\ pc' = [pc EXCEPT ![t] = "Counting"] /\ slot' = [slot EXCEPT ![t] = s]
      /\ via' = [via EXCEPT ![t] = i]
      /\ mTotalRef' = [mTotalRef EXCEPT ![s] = @ + 1]
      /\ UNCHANGED object /\ objectRefs' = objectRefs
      /\ buffer' = buffer /\ m3dBuffers' = m3dBuffers /\ mDsRef' = mDsRef
      /\ mOtherRef' = mOtherRef /\ refs' = refs
  BY DEF AddRef, Begin, CanCall, object
<1>2. CallTypes /\ SlotTypes /\ CountTypes /\ SlotInv(s) /\ CallInv(t)
  BY DEF IInv
<1>3. PICK j \in Interfaces : refs[t][s][j] > 0
  BY <1>1 DEF Holds
<1>4. buffer[s] # "Free" /\ CountsAreExact(s) /\ HeldRefs(s, j) > 0
  BY <1>3, HeldIsUsed
<1>5. CallTypes' /\ SlotTypes'
  BY <1>1, <1>2 DEF CallTypes, SlotTypes, Places
<1>6. /\ pc'[t] = "Counting" /\ slot'[t] = s /\ slot[t] = None
      /\ mTotalRef'[s] = mTotalRef[s] + 1
  BY <1>1, <1>2 DEF CallTypes, CountTypes, CallInv
<1>7. OnlySlot(t, s)
  BY <1>1, <1>2, <1>6 DEF OnlySlot, CallTypes, CountTypes
<1>8. /\ \A places : ~InPlace(t, s, places) /\ \A k : ~IsDropping(t, s, k)
  BY <1>6 DEF InPlace, IsDropping, None, Slots
<1>9. /\ ~InPlace(t, s, {"Created"})' /\ InPlace(t, s, {"Counting", "Dropping"})'
      /\ ~InPlace(t, s, {"Disposing"})' /\ \A k : ~IsDropping(t, s, k)'
  BY <1>6 DEF InPlace, IsDropping
<1>10. /\ \A places : InCall(s, places)' = InCall(s, places)
                        + One(InPlace(t, s, places)') - One(InPlace(t, s, places))
       /\ \A k : DroppedRefs(s, k)' = DroppedRefs(s, k)
                   + One(IsDropping(t, s, k)') - One(IsDropping(t, s, k))
  BY <1>7, CallMoved DEF OnlySlot
<1>11. /\ \A places : InCall(s, places) \in Nat
       /\ \A k : DroppedRefs(s, k) \in Nat /\ HeldRefs(s, k) \in Nat
  BY TalliesAreNaturals
<1>12. /\ InCall(s, {"Created"})' = InCall(s, {"Created"})
       /\ InCall(s, {"Counting", "Dropping"})' = InCall(s, {"Counting", "Dropping"}) + 1
       /\ InCall(s, {"Disposing"})' = InCall(s, {"Disposing"})
       /\ DroppedRefs(s, "Ds")' = DroppedRefs(s, "Ds")
       /\ DroppedRefs(s, "Other")' = DroppedRefs(s, "Other")
  BY <1>8, <1>9, <1>10, <1>11 DEF One
<1>13. \A k : HeldRefs(s, k)' = HeldRefs(s, k)
  BY <1>1 DEF HeldRefs
<1>14. /\ mDsRef[s] = HeldRefs(s, "Ds") + DroppedRefs(s, "Ds") + InCall(s, {"Created"})
       /\ mOtherRef[s] = HeldRefs(s, "Other") + DroppedRefs(s, "Other")
       /\ mTotalRef[s] = mDsRef[s] + mOtherRef[s] + InCall(s, {"Counting", "Dropping"})
  BY <1>4 DEF CountsAreExact
<1>15. CountsAreExact(s)'
  BY <1>1, <1>6, <1>11, <1>12, <1>13, <1>14 DEF CountsAreExact
<1>16. mTotalRef[s] \in Nat /\ mTotalRef[s] # 0
  <2>1. mDsRef[s] + mOtherRef[s] > 0 /\ mDsRef[s] + mOtherRef[s] \in Nat
    BY <1>4, <1>11, <1>14 DEF Interfaces
  <2> QED BY <1>11, <1>14, <2>1
<1>17. UsedInv(s)'
  BY <1>2, <1>4, <1>6, <1>12, <1>15, <1>16 DEF SlotInv, UsedInv
<1>18. ListInv(s)' /\ FreeInv(s)'
  BY <1>1, <1>2, <1>4, <1>12 DEF SlotInv, ListInv, FreeInv
<1>19. NewInv(s)'
  <2> SUFFICES ASSUME NEW v \in Threads, slot'[v] = s, pc'[v] = "Created" PROVE FALSE
    BY DEF NewInv
  <2>1. slot[v] = s /\ pc[v] = "Created"
    BY <1>6, <1>7 DEF OnlySlot
  <2>2. HeldRefs(s, j) = 0
    BY <2>1, JustMade
  <2> QED BY <1>4, <2>2
<1>20. SlotInv(s)'
  BY <1>17, <1>18, <1>19 DEF SlotInv
<1>21. CallInv(t)'
  BY <1>1, <1>6 DEF CallInv, None, Slots
<1>22. /\ mTotalRef' \in [Slots -> Int] /\ mDsRef' \in [Slots -> Int]
       /\ mOtherRef' \in [Slots -> Int] /\ buffer'[s] # "Free"
  BY <1>1, <1>2, <1>4 DEF CountTypes
<1> QED BY <1>1, <1>5, <1>7, <1>20, <1>21, <1>22, SlotStep

(* The count of one interface.                                             *)
LEMMA OneInterface ==
  ASSUME CountTypes, NEW s \in Slots, NEW i \in Interfaces
  PROVE  /\ Add(mDsRef, s, i, "Ds")
              = [mDsRef EXCEPT ![s] = @ + One(i = "Ds")]
         /\ Add(mOtherRef, s, i, "Other")
              = [mOtherRef EXCEPT ![s] = @ + One(i = "Other")]
         /\ Drop(mDsRef, s, i, "Ds")
              = [mDsRef EXCEPT ![s] = @ - One(i = "Ds")]
         /\ Drop(mOtherRef, s, i, "Other")
              = [mOtherRef EXCEPT ![s] = @ - One(i = "Other")]
<1>1. mDsRef \in [Slots -> Int] /\ mOtherRef \in [Slots -> Int]
  BY DEF CountTypes
<1>2. CASE i = "Ds"
  <2>1. One(i = "Ds") = 1 /\ One(i = "Other") = 0
    BY <1>2 DEF One
  <2>2. [mOtherRef EXCEPT ![s] = @ + 0] = mOtherRef /\ [mOtherRef EXCEPT ![s] = @ - 0] = mOtherRef
    BY <1>1
  <2> QED BY <1>2, <2>1, <2>2 DEF Add, Drop
<1>3. CASE i = "Other"
  <2>1. One(i = "Ds") = 0 /\ One(i = "Other") = 1
    BY <1>3 DEF One
  <2>2. [mDsRef EXCEPT ![s] = @ + 0] = mDsRef /\ [mDsRef EXCEPT ![s] = @ - 0] = mDsRef
    BY <1>1
  <2> QED BY <1>3, <2>1, <2>2 DEF Add, Drop
<1> QED BY <1>2, <1>3 DEF Interfaces

LEMMA AddInterfaceRefKeeps ==
  ASSUME IInv, NEW t \in Threads, NEW u \in Threads, NEW s \in Slots, slot[t] = s,
         AddInterfaceRef(t, u)
  PROVE  IInv'
<1>1. PICK i \in Interfaces : via[t] = i
  BY DEF IInv, CallTypes
<1>2. CallTypes /\ SlotTypes /\ CountTypes /\ CallInv(t)
  BY DEF IInv
<1>3. /\ pc[t] = "Counting" /\ refs[u][s][i] < MaxRefs
      /\ pc' = [pc EXCEPT ![t] = "Idle"] /\ slot' = [slot EXCEPT ![t] = None]
      /\ via' = [via EXCEPT ![t] = "Ds"]
      /\ mDsRef' = Add(mDsRef, s, i, "Ds") /\ mOtherRef' = Add(mOtherRef, s, i, "Other")
      /\ refs' = [refs EXCEPT ![u][s][i] = @ + 1]
      /\ UNCHANGED object /\ objectRefs' = objectRefs
      /\ buffer' = buffer /\ m3dBuffers' = m3dBuffers /\ mTotalRef' = mTotalRef
  BY <1>1 DEF AddInterfaceRef, End, object
<1>4. /\ mDsRef' = [mDsRef EXCEPT ![s] = @ + One(i = "Ds")]
      /\ mOtherRef' = [mOtherRef EXCEPT ![s] = @ + One(i = "Other")]
  BY <1>2, <1>3, OneInterface
<1>5. alive /\ SlotInv(s) /\ buffer[s] # "Free" /\ CountsAreExact(s)
  BY <1>3, Called
<1>6. CallTypes'
  BY <1>2, <1>3 DEF CallTypes, Places, Interfaces
<1>7. SlotTypes'
  BY <1>2, <1>3, BoundsAssumption DEF SlotTypes
<1>8. /\ pc'[t] = "Idle" /\ slot'[t] = None
      /\ mDsRef'[s] = mDsRef[s] + One(i = "Ds")
      /\ mOtherRef'[s] = mOtherRef[s] + One(i = "Other")
      /\ refs'[u][s][i] = refs[u][s][i] + 1
      /\ \A k \in Interfaces \ {i} : refs'[u][s][k] = refs[u][s][k]
  BY <1>2, <1>3, <1>4 DEF CallTypes, CountTypes, SlotTypes
<1>9. OnlySlot(t, s)
  BY <1>2, <1>3, <1>4, <1>8 DEF OnlySlot, CallTypes, CountTypes, SlotTypes
<1>10. /\ ~InPlace(t, s, {"Created"}) /\ InPlace(t, s, {"Counting", "Dropping"})
       /\ ~InPlace(t, s, {"Disposing"}) /\ \A k : ~IsDropping(t, s, k)
  BY <1>3 DEF InPlace, IsDropping
<1>11. /\ \A places : ~InPlace(t, s, places)' /\ \A k : ~IsDropping(t, s, k)'
  BY <1>8 DEF InPlace, IsDropping, None, Slots
<1>12. /\ \A places : InCall(s, places)' = InCall(s, places)
                        + One(InPlace(t, s, places)') - One(InPlace(t, s, places))
       /\ \A k : DroppedRefs(s, k)' = DroppedRefs(s, k)
                   + One(IsDropping(t, s, k)') - One(IsDropping(t, s, k))
  BY <1>9, CallMoved DEF OnlySlot
<1>13. /\ \A places : InCall(s, places) \in Nat
       /\ \A k : DroppedRefs(s, k) \in Nat /\ HeldRefs(s, k) \in Nat
  BY TalliesAreNaturals
<1>14. /\ InCall(s, {"Created"})' = InCall(s, {"Created"})
       /\ InCall(s, {"Counting", "Dropping"})' = InCall(s, {"Counting", "Dropping"}) - 1
       /\ InCall(s, {"Disposing"})' = InCall(s, {"Disposing"})
       /\ DroppedRefs(s, "Ds")' = DroppedRefs(s, "Ds")
       /\ DroppedRefs(s, "Other")' = DroppedRefs(s, "Other")
  BY <1>10, <1>11, <1>12, <1>13 DEF One
<1>15. /\ HeldRefs(s, "Ds")' = HeldRefs(s, "Ds") + One(i = "Ds")
       /\ HeldRefs(s, "Other")' = HeldRefs(s, "Other") + One(i = "Other")
  <2> SUFFICES ASSUME NEW k \in Interfaces
               PROVE  HeldRefs(s, k)' = HeldRefs(s, k) + One(i = k)
    BY DEF Interfaces
  <2>1. \A v \in Threads \ {u} : refs'[v][s][k] = refs[v][s][k]
    BY <1>2, <1>3 DEF SlotTypes
  <2>2. refs[u][s][k] \in 0 .. MaxRefs /\ refs'[u][s][k] = refs[u][s][k] + One(i = k)
    BY <1>2, <1>8 DEF SlotTypes, One
  <2>3. refs'[u][s][k] \in {refs[u][s][k] - 1, refs[u][s][k], refs[u][s][k] + 1}
    BY <2>2 DEF One
  <2>4. HeldRefs(s, k)' = HeldRefs(s, k) + refs'[u][s][k] - refs[u][s][k]
    BY <1>2, <1>7, <2>1, <2>3, HeldMoved
  <2> QED BY <1>13, <2>2, <2>4 DEF One
<1>16. /\ mDsRef[s] = HeldRefs(s, "Ds") + DroppedRefs(s, "Ds") + InCall(s, {"Created"})
       /\ mOtherRef[s] = HeldRefs(s, "Other") + DroppedRefs(s, "Other")
       /\ mTotalRef[s] = mDsRef[s] + mOtherRef[s] + InCall(s, {"Counting", "Dropping"})
  BY <1>5 DEF CountsAreExact
<1>17. CountsAreExact(s)'
  BY <1>1, <1>3, <1>8, <1>13, <1>14, <1>15, <1>16 DEF CountsAreExact, Interfaces, One
<1>18. UsedInv(s)' /\ ListInv(s)' /\ FreeInv(s)'
  BY <1>3, <1>5, <1>14, <1>17 DEF SlotInv, UsedInv, ListInv, FreeInv
<1>19. NewInv(s)'
  BY <1>3, <1>5, <1>8, <1>9 DEF SlotInv, NewInv, OnlySlot
<1>20. SlotInv(s)'
  BY <1>18, <1>19 DEF SlotInv
<1>21. CallInv(t)'
  BY <1>8 DEF CallInv
<1>22. /\ mTotalRef' \in [Slots -> Int] /\ mDsRef' \in [Slots -> Int]
       /\ mOtherRef' \in [Slots -> Int] /\ buffer'[s] # "Free"
  BY <1>2, <1>3, <1>4, <1>5 DEF CountTypes, One
<1> QED BY <1>3, <1>5, <1>6, <1>7, <1>9, <1>20, <1>21, <1>22, SlotStep

LEMMA ReleaseKeeps ==
  ASSUME IInv, alive, NEW t \in Threads, NEW s \in Slots, NEW i \in Interfaces,
         Release(t, s, i)
  PROVE  IInv'
<1>1. /\ pc[t] = "Idle" /\ objectRefs[t] > 0 /\ refs[t][s][i] > 0
      /\ pc' = [pc EXCEPT ![t] = "Releasing"] /\ slot' = [slot EXCEPT ![t] = s]
      /\ via' = [via EXCEPT ![t] = i]
      /\ refs' = [refs EXCEPT ![t][s][i] = @ - 1]
      /\ UNCHANGED object /\ objectRefs' = objectRefs /\ UNCHANGED counts
      /\ mTotalRef' = mTotalRef /\ mDsRef' = mDsRef /\ mOtherRef' = mOtherRef
      /\ buffer' = buffer /\ m3dBuffers' = m3dBuffers
  BY DEF Release, Begin, CanCall, object, counts
<1>2. CallTypes /\ SlotTypes /\ CountTypes /\ SlotInv(s) /\ CallInv(t)
  BY DEF IInv
<1>3. buffer[s] # "Free" /\ CountsAreExact(s) /\ HeldRefs(s, i) > 0
  BY <1>1, HeldIsUsed
<1>4. CallTypes'
  BY <1>1, <1>2 DEF CallTypes, Places
<1>5. SlotTypes'
  BY <1>1, <1>2, BoundsAssumption DEF SlotTypes
<1>6. /\ pc'[t] = "Releasing" /\ slot'[t] = s /\ via'[t] = i /\ slot[t] = None
      /\ refs'[t][s][i] = refs[t][s][i] - 1
      /\ \A k \in Interfaces \ {i} : refs'[t][s][k] = refs[t][s][k]
  BY <1>1, <1>2 DEF CallTypes, SlotTypes, CallInv
<1>7. OnlySlot(t, s)
  BY <1>1, <1>2, <1>6 DEF OnlySlot, CallTypes, SlotTypes
<1>8. /\ \A places : ~InPlace(t, s, places) /\ \A k : ~IsDropping(t, s, k)
  BY <1>6 DEF InPlace, IsDropping, None, Slots
<1>9. /\ ~InPlace(t, s, {"Created"})' /\ ~InPlace(t, s, {"Counting", "Dropping"})'
      /\ ~InPlace(t, s, {"Disposing"})' /\ \A k : IsDropping(t, s, k)' <=> i = k
  BY <1>6 DEF InPlace, IsDropping
<1>10. /\ \A places : InCall(s, places)' = InCall(s, places)
                        + One(InPlace(t, s, places)') - One(InPlace(t, s, places))
       /\ \A k : DroppedRefs(s, k)' = DroppedRefs(s, k)
                   + One(IsDropping(t, s, k)') - One(IsDropping(t, s, k))
  BY <1>7, CallMoved DEF OnlySlot
<1>11. /\ \A places : InCall(s, places) \in Nat
       /\ \A k : DroppedRefs(s, k) \in Nat /\ HeldRefs(s, k) \in Nat
  BY TalliesAreNaturals
<1>12. /\ InCall(s, {"Created"})' = InCall(s, {"Created"})
       /\ InCall(s, {"Counting", "Dropping"})' = InCall(s, {"Counting", "Dropping"})
       /\ InCall(s, {"Disposing"})' = InCall(s, {"Disposing"})
       /\ DroppedRefs(s, "Ds")' = DroppedRefs(s, "Ds") + One(i = "Ds")
       /\ DroppedRefs(s, "Other")' = DroppedRefs(s, "Other") + One(i = "Other")
  BY <1>8, <1>9, <1>10, <1>11 DEF One
<1>13. /\ HeldRefs(s, "Ds")' = HeldRefs(s, "Ds") - One(i = "Ds")
       /\ HeldRefs(s, "Other")' = HeldRefs(s, "Other") - One(i = "Other")
  <2> SUFFICES ASSUME NEW k \in Interfaces
               PROVE  HeldRefs(s, k)' = HeldRefs(s, k) - One(i = k)
    BY DEF Interfaces
  <2>1. \A v \in Threads \ {t} : refs'[v][s][k] = refs[v][s][k]
    BY <1>1, <1>2 DEF SlotTypes
  <2>2. refs[t][s][k] \in 0 .. MaxRefs /\ refs'[t][s][k] = refs[t][s][k] - One(i = k)
    BY <1>2, <1>6 DEF SlotTypes, One
  <2>3. refs'[t][s][k] \in {refs[t][s][k] - 1, refs[t][s][k], refs[t][s][k] + 1}
    BY <2>2 DEF One
  <2>4. HeldRefs(s, k)' = HeldRefs(s, k) + refs'[t][s][k] - refs[t][s][k]
    BY <1>2, <1>5, <2>1, <2>3, HeldMoved
  <2> QED BY <1>11, <2>2, <2>4 DEF One
<1>14. /\ mDsRef[s] = HeldRefs(s, "Ds") + DroppedRefs(s, "Ds") + InCall(s, {"Created"})
       /\ mOtherRef[s] = HeldRefs(s, "Other") + DroppedRefs(s, "Other")
       /\ mTotalRef[s] = mDsRef[s] + mOtherRef[s] + InCall(s, {"Counting", "Dropping"})
  BY <1>3 DEF CountsAreExact
<1>15. CountsAreExact(s)'
  BY <1>1, <1>11, <1>12, <1>13, <1>14 DEF CountsAreExact, One
<1>16. UsedInv(s)' /\ ListInv(s)' /\ FreeInv(s)'
  BY <1>1, <1>2, <1>3, <1>12, <1>15 DEF SlotInv, UsedInv, ListInv, FreeInv
<1>17. NewInv(s)'
  BY <1>1, <1>2, <1>6, <1>7 DEF SlotInv, NewInv, OnlySlot
<1>18. SlotInv(s)'
  BY <1>16, <1>17 DEF SlotInv
<1>19. CallInv(t)'
  BY <1>1, <1>6 DEF CallInv, None, Slots
<1>20. /\ mTotalRef' \in [Slots -> Int] /\ mDsRef' \in [Slots -> Int]
       /\ mOtherRef' \in [Slots -> Int]
  BY <1>1, <1>2 DEF CountTypes
<1> QED BY <1>1, <1>4, <1>5, <1>7, <1>18, <1>19, <1>20, SlotStep

LEMMA DropInterfaceRefKeeps ==
  ASSUME IInv, NEW t \in Threads, NEW s \in Slots, slot[t] = s, DropInterfaceRef(t)
  PROVE  IInv'
<1>1. PICK i \in Interfaces : via[t] = i
  BY DEF IInv, CallTypes
<1>2. CallTypes /\ SlotTypes /\ CountTypes /\ CallInv(t)
  BY DEF IInv
<1>3. /\ pc[t] = "Releasing" /\ pc' = [pc EXCEPT ![t] = "Dropping"]
      /\ slot' = slot /\ via' = via
      /\ mDsRef' = Drop(mDsRef, s, i, "Ds") /\ mOtherRef' = Drop(mOtherRef, s, i, "Other")
      /\ UNCHANGED object /\ objectRefs' = objectRefs
      /\ buffer' = buffer /\ m3dBuffers' = m3dBuffers /\ mTotalRef' = mTotalRef
      /\ refs' = refs
  BY <1>1 DEF DropInterfaceRef, Continue, object
<1>4. /\ mDsRef' = [mDsRef EXCEPT ![s] = @ - One(i = "Ds")]
      /\ mOtherRef' = [mOtherRef EXCEPT ![s] = @ - One(i = "Other")]
  BY <1>2, <1>3, OneInterface
<1>5. alive /\ SlotInv(s) /\ buffer[s] # "Free" /\ CountsAreExact(s)
  BY <1>3, Called
<1>6. CallTypes' /\ SlotTypes'
  BY <1>2, <1>3 DEF CallTypes, SlotTypes, Places
<1>7. /\ pc'[t] = "Dropping" /\ slot'[t] = s
      /\ mDsRef'[s] = mDsRef[s] - One(i = "Ds")
      /\ mOtherRef'[s] = mOtherRef[s] - One(i = "Other")
  BY <1>2, <1>3, <1>4 DEF CallTypes, CountTypes
<1>8. OnlySlot(t, s)
  BY <1>2, <1>3, <1>4, <1>7 DEF OnlySlot, CallTypes, CountTypes
<1>9. /\ ~InPlace(t, s, {"Created"}) /\ ~InPlace(t, s, {"Counting", "Dropping"})
      /\ ~InPlace(t, s, {"Disposing"}) /\ \A k : IsDropping(t, s, k) <=> i = k
  BY <1>1, <1>3 DEF InPlace, IsDropping
<1>10. /\ ~InPlace(t, s, {"Created"})' /\ InPlace(t, s, {"Counting", "Dropping"})'
       /\ ~InPlace(t, s, {"Disposing"})' /\ \A k : ~IsDropping(t, s, k)'
  BY <1>7 DEF InPlace, IsDropping
<1>11. /\ \A places : InCall(s, places)' = InCall(s, places)
                        + One(InPlace(t, s, places)') - One(InPlace(t, s, places))
       /\ \A k : DroppedRefs(s, k)' = DroppedRefs(s, k)
                   + One(IsDropping(t, s, k)') - One(IsDropping(t, s, k))
  BY <1>8, CallMoved DEF OnlySlot
<1>12. /\ \A places : InCall(s, places) \in Nat
       /\ \A k : DroppedRefs(s, k) \in Nat /\ HeldRefs(s, k) \in Nat
  BY TalliesAreNaturals
<1>13. /\ InCall(s, {"Created"})' = InCall(s, {"Created"})
       /\ InCall(s, {"Counting", "Dropping"})' = InCall(s, {"Counting", "Dropping"}) + 1
       /\ InCall(s, {"Disposing"})' = InCall(s, {"Disposing"})
       /\ DroppedRefs(s, "Ds")' = DroppedRefs(s, "Ds") - One(i = "Ds")
       /\ DroppedRefs(s, "Other")' = DroppedRefs(s, "Other") - One(i = "Other")
  BY <1>9, <1>10, <1>11, <1>12 DEF One
<1>14. \A k : HeldRefs(s, k)' = HeldRefs(s, k)
  BY <1>3 DEF HeldRefs
<1>15. /\ mDsRef[s] = HeldRefs(s, "Ds") + DroppedRefs(s, "Ds") + InCall(s, {"Created"})
       /\ mOtherRef[s] = HeldRefs(s, "Other") + DroppedRefs(s, "Other")
       /\ mTotalRef[s] = mDsRef[s] + mOtherRef[s] + InCall(s, {"Counting", "Dropping"})
  BY <1>5 DEF CountsAreExact
<1>16. CountsAreExact(s)'
  BY <1>1, <1>3, <1>7, <1>12, <1>13, <1>14, <1>15 DEF CountsAreExact, Interfaces, One
<1>17. UsedInv(s)' /\ ListInv(s)' /\ FreeInv(s)'
  BY <1>3, <1>5, <1>13, <1>16 DEF SlotInv, UsedInv, ListInv, FreeInv
<1>18. NewInv(s)'
  BY <1>3, <1>5, <1>7, <1>8 DEF SlotInv, NewInv, OnlySlot
<1>19. SlotInv(s)'
  BY <1>17, <1>18 DEF SlotInv
<1>20. CallInv(t)'
  BY <1>2, <1>3, <1>7 DEF CallInv, None, Slots
<1>21. /\ mTotalRef' \in [Slots -> Int] /\ mDsRef' \in [Slots -> Int]
       /\ mOtherRef' \in [Slots -> Int] /\ buffer'[s] # "Free"
  BY <1>2, <1>3, <1>4, <1>5 DEF CountTypes, One
<1> QED BY <1>3, <1>5, <1>6, <1>8, <1>19, <1>20, <1>21, SlotStep

(* Whoever drops the last reference of the total is alone with the buffer  *)
(* and goes on to dispose of it, and nobody else does.                     *)
LEMMA DropTotalKeeps ==
  ASSUME IInv, NEW t \in Threads, NEW s \in Slots, slot[t] = s, DropTotal(t)
  PROVE  IInv'
<1>1. CallTypes /\ SlotTypes /\ CountTypes /\ CallInv(t)
  BY DEF IInv
<1>2. /\ pc[t] = "Dropping" /\ mTotalRef' = [mTotalRef EXCEPT ![s] = @ - 1]
      /\ UNCHANGED object /\ objectRefs' = objectRefs
      /\ buffer' = buffer /\ m3dBuffers' = m3dBuffers /\ refs' = refs
      /\ mDsRef' = mDsRef /\ mOtherRef' = mOtherRef
  BY DEF DropTotal, object
<1>3. alive /\ SlotInv(s) /\ buffer[s] # "Free" /\ CountsAreExact(s)
  BY <1>2, Called
<1>4. mTotalRef'[s] = mTotalRef[s] - 1
  BY <1>1, <1>2 DEF CountTypes
<1>5. \/ /\ mTotalRef[s] = 1 /\ pc' = [pc EXCEPT ![t] = "Disposing"]
         /\ slot' = slot /\ via' = via
      \/ /\ mTotalRef[s] # 1 /\ pc' = [pc EXCEPT ![t] = "Idle"]
         /\ slot' = [slot EXCEPT ![t] = None] /\ via' = [via EXCEPT ![t] = "Ds"]
  BY DEF DropTotal, Continue, End
<1>6. CallTypes' /\ SlotTypes'
  BY <1>1, <1>2, <1>5 DEF CallTypes, SlotTypes, Places, Interfaces
<1>7. \/ mTotalRef[s] = 1 /\ pc'[t] = "Disposing" /\ slot'[t] = s
      \/ mTotalRef[s] # 1 /\ pc'[t] = "Idle" /\ slot'[t] = None
  BY <1>1, <1>5 DEF CallTypes
<1>8. OnlySlot(t, s)
  <2>1. \A v \in Threads \ {t} : pc'[v] = pc[v] /\ slot'[v] = slot[v] /\ via'[v] = via[v]
    BY <1>1, <1>5 DEF CallTypes
  <2>2. slot'[t] \in {None, s}
    BY <1>7
  <2> QED BY <1>1, <1>2, <2>1, <2>2 DEF OnlySlot, CountTypes
<1>9. /\ ~InPlace(t, s, {"Created"}) /\ InPlace(t, s, {"Counting", "Dropping"})
      /\ ~InPlace(t, s, {"Disposing"}) /\ \A k : ~IsDropping(t, s, k)
  BY <1>2 DEF InPlace, IsDropping
<1>10. /\ ~InPlace(t, s, {"Created"})' /\ ~InPlace(t, s, {"Counting", "Dropping"})'
       /\ (InPlace(t, s, {"Disposing"})' <=> mTotalRef[s] = 1) /\ \A k : ~IsDropping(t, s, k)'
  BY <1>7 DEF InPlace, IsDropping
<1>11. /\ \A places : InCall(s, places)' = InCall(s, places)
                        + One(InPlace(t, s, places)') - One(InPlace(t, s, places))
       /\ \A k : DroppedRefs(s, k)' = DroppedRefs(s, k)
                   + One(IsDropping(t, s, k)') - One(IsDropping(t, s, k))
  BY <1>8, CallMoved DEF OnlySlot
<1>12. /\ \A places : InCall(s, places) \in Nat
       /\ \A k : DroppedRefs(s, k) \in Nat /\ HeldRefs(s, k) \in Nat
  BY TalliesAreNaturals
<1>13. /\ InCall(s, {"Created"})' = InCall(s, {"Created"})
       /\ InCall(s, {"Counting", "Dropping"})' = InCall(s, {"Counting", "Dropping"}) - 1
       /\ InCall(s, {"Disposing"})' = InCall(s, {"Disposing"}) + One(mTotalRef[s] = 1)
       /\ DroppedRefs(s, "Ds")' = DroppedRefs(s, "Ds")
       /\ DroppedRefs(s, "Other")' = DroppedRefs(s, "Other")
  BY <1>9, <1>10, <1>11, <1>12 DEF One
<1>14. \A k : HeldRefs(s, k)' = HeldRefs(s, k)
  BY <1>2 DEF HeldRefs
<1>15. /\ mDsRef[s] = HeldRefs(s, "Ds") + DroppedRefs(s, "Ds") + InCall(s, {"Created"})
       /\ mOtherRef[s] = HeldRefs(s, "Other") + DroppedRefs(s, "Other")
       /\ mTotalRef[s] = mDsRef[s] + mOtherRef[s] + InCall(s, {"Counting", "Dropping"})
  BY <1>3 DEF CountsAreExact
<1>16. InCall(s, {"Counting", "Dropping"}) > 0
  BY <1>9, Counted
<1>17. mTotalRef[s] \in Nat /\ mTotalRef[s] > 0
  <2>1. mDsRef[s] + mOtherRef[s] \in Nat
    BY <1>12, <1>15
  <2> QED BY <1>12, <1>15, <1>16, <2>1
<1>18. CountsAreExact(s)'
  BY <1>2, <1>4, <1>12, <1>13, <1>14, <1>15 DEF CountsAreExact
<1>19. InCall(s, {"Disposing"})' = IF mTotalRef'[s] = 0 THEN 1 ELSE 0
  <2>1. InCall(s, {"Disposing"}) = 0
    BY <1>3, <1>17 DEF SlotInv, UsedInv
  <2> QED BY <1>4, <1>13, <1>17, <2>1 DEF One
<1>20. UsedInv(s)' /\ ListInv(s)' /\ FreeInv(s)'
  BY <1>2, <1>3, <1>13, <1>18, <1>19 DEF SlotInv, UsedInv, ListInv, FreeInv
<1>21. NewInv(s)'
  <2> SUFFICES ASSUME NEW v \in Threads, slot'[v] = s, pc'[v] = "Created" PROVE FALSE
    BY DEF NewInv
  <2>1. slot[v] = s /\ pc[v] = "Created"
    BY <1>7, <1>8 DEF OnlySlot
  <2>2. InCall(s, {"Counting", "Dropping"}) = 0
    BY <2>1, JustMade
  <2> QED BY <1>16, <2>2
<1>22. SlotInv(s)'
  BY <1>20, <1>21 DEF SlotInv
<1>23. CallInv(t)'
  BY <1>1, <1>2, <1>7 DEF CallInv, None, Slots
<1>24. /\ mTotalRef' \in [Slots -> Int] /\ mDsRef' \in [Slots -> Int]
       /\ mOtherRef' \in [Slots -> Int] /\ buffer'[s] # "Free"
  BY <1>1, <1>2, <1>3 DEF CountTypes
<1> QED BY <1>2, <1>3, <1>6, <1>8, <1>22, <1>23, <1>24, SlotStep

(* When a buffer is destroyed nobody holds it or is in a call about it.    *)
LEMMA DisposeKeeps ==
  ASSUME IInv, NEW t \in Threads, NEW s \in Slots, slot[t] = s, Dispose(t)
  PROVE  IInv'
<1>1. CallTypes /\ SlotTypes /\ CountTypes /\ CallInv(t)
  BY DEF IInv
<1>2. /\ pc[t] = "Disposing"
      /\ m3dBuffers' = [m3dBuffers EXCEPT ![s] = IF Listed(buffer[s]) THEN 0 ELSE @]
      /\ buffer' = [buffer EXCEPT ![s] = "Free"]
      /\ pc' = [pc EXCEPT ![t] = "Idle"] /\ slot' = [slot EXCEPT ![t] = None]
      /\ via' = [via EXCEPT ![t] = "Ds"]
      /\ UNCHANGED object /\ objectRefs' = objectRefs /\ UNCHANGED counts
      /\ mTotalRef' = mTotalRef /\ mDsRef' = mDsRef /\ mOtherRef' = mOtherRef
      /\ refs' = refs
  BY DEF Dispose, End, object, counts
<1>3. alive /\ SlotInv(s) /\ buffer[s] # "Free" /\ CountsAreExact(s)
  BY <1>2, Called
<1>4. CallTypes'
  BY <1>1, <1>2 DEF CallTypes, Places, Interfaces
<1>5. SlotTypes'
  BY <1>1, <1>2 DEF SlotTypes
<1>6. pc'[t] = "Idle" /\ slot'[t] = None /\ buffer'[s] = "Free"
  BY <1>1, <1>2 DEF CallTypes, SlotTypes
<1>7. OnlySlot(t, s)
  BY <1>1, <1>2, <1>6 DEF OnlySlot, CallTypes, SlotTypes
<1>8. /\ ~InPlace(t, s, {"Created"}) /\ ~InPlace(t, s, {"Counting", "Dropping"})
      /\ InPlace(t, s, {"Disposing"}) /\ \A k : ~IsDropping(t, s, k)
  BY <1>2 DEF InPlace, IsDropping
<1>9. /\ \A places : ~InPlace(t, s, places)' /\ \A k : ~IsDropping(t, s, k)'
  BY <1>6 DEF InPlace, IsDropping, None, Slots
<1>10. /\ \A places : InCall(s, places)' = InCall(s, places)
                        + One(InPlace(t, s, places)') - One(InPlace(t, s, places))
       /\ \A k : DroppedRefs(s, k)' = DroppedRefs(s, k)
                   + One(IsDropping(t, s, k)') - One(IsDropping(t, s, k))
  BY <1>7, CallMoved DEF OnlySlot
<1>11. /\ \A places : InCall(s, places) \in Nat
       /\ \A k : DroppedRefs(s, k) \in Nat /\ HeldRefs(s, k) \in Nat
  BY TalliesAreNaturals
<1>12. InCall(s, {"Disposing"}) = 1 /\ mTotalRef[s] = 0
  <2>1. InCall(s, {"Disposing"}) > 0
    BY <1>8, Counted
  <2> QED BY <1>3, <2>1 DEF SlotInv, UsedInv
<1>13. /\ InCall(s, {"Created"}) = 0 /\ InCall(s, {"Counting", "Dropping"}) = 0
       /\ \A i \in Interfaces : DroppedRefs(s, i) = 0 /\ HeldRefs(s, i) = 0
  <2>1. /\ mDsRef[s] = HeldRefs(s, "Ds") + DroppedRefs(s, "Ds") + InCall(s, {"Created"})
        /\ mOtherRef[s] = HeldRefs(s, "Other") + DroppedRefs(s, "Other")
        /\ mTotalRef[s] = mDsRef[s] + mOtherRef[s] + InCall(s, {"Counting", "Dropping"})
    BY <1>3 DEF CountsAreExact
  <2>2. HeldRefs(s, "Ds") + DroppedRefs(s, "Ds") + InCall(s, {"Created"})
          + HeldRefs(s, "Other") + DroppedRefs(s, "Other")
          + InCall(s, {"Counting", "Dropping"}) = 0
    BY <1>11, <1>12, <2>1
  <2>3. /\ InCall(s, {"Created"}) = 0 /\ InCall(s, {"Counting", "Dropping"}) = 0
        /\ DroppedRefs(s, "Ds") = 0 /\ HeldRefs(s, "Ds") = 0
        /\ DroppedRefs(s, "Other") = 0 /\ HeldRefs(s, "Other") = 0
    BY <1>11, <2>2
  <2> QED BY <2>3 DEF Interfaces
<1>14. /\ InCall(s, {"Created"})' = 0 /\ InCall(s, {"Counting", "Dropping"})' = 0
       /\ InCall(s, {"Disposing"})' = 0
  BY <1>8, <1>9, <1>10, <1>12, <1>13 DEF One
<1>15. \A i \in Interfaces : DroppedRefs(s, i)' = 0
  BY <1>8, <1>9, <1>10, <1>13 DEF One
<1>16. \A i \in Interfaces : HeldRefs(s, i)' = 0
  BY <1>2, <1>13 DEF HeldRefs
<1>17. \A v \in Threads : CallInv(v)'
  <2> SUFFICES ASSUME NEW v \in Threads PROVE CallInv(v)'
    OBVIOUS
  <2>1. CASE v = t
    BY <1>6, <2>1 DEF CallInv
  <2>2. CASE v # t
    <3>1. CallInv(v) /\ pc'[v] = pc[v] /\ slot'[v] = slot[v] /\ via'[v] = via[v]
      BY <1>7, <2>2 DEF OnlySlot, IInv
    <3> QED BY <1>2, <3>1 DEF CallInv
  <2> QED BY <2>1, <2>2
<1>18. \A v \in Threads : slot'[v] # s /\ \A i \in Interfaces : refs'[v][s][i] = 0
  BY <1>4, <1>5, <1>14, <1>15, <1>16, <1>17, ZeroIsDesertedNext DEF Deserted
<1>19. FreeInv(s)' /\ NewInv(s)' /\ UsedInv(s)'
  BY <1>6, <1>18 DEF FreeInv, NewInv, UsedInv
<1>20. ListInv(s)'
  <2>1. m3dBuffers'[s] = IF Listed(buffer[s]) THEN 0 ELSE m3dBuffers[s]
    BY <1>1, <1>2 DEF SlotTypes
  <2>2. m3dBuffers'[s] = 0
    BY <1>3, <2>1 DEF SlotInv, ListInv
  <2> QED BY <1>6, <2>2 DEF ListInv, Listed
<1>21. SlotInv(s)'
  BY <1>19, <1>20 DEF SlotInv
<1>22. /\ mTotalRef' \in [Slots -> Int] /\ mDsRef' \in [Slots -> Int]
       /\ mOtherRef' \in [Slots -> Int]
  BY <1>1, <1>2 DEF CountTypes
<1> QED BY <1>2, <1>3, <1>4, <1>5, <1>7, <1>17, <1>21, <1>22, SlotStep

-----------------------------------------------------------------------------
(* The object: a thread that is in a call has a reference of its own, so   *)
(* that the last one is released when nobody is.                           *)

LEMMA AddObjectRefKeeps ==
  ASSUME IInv, NEW t \in Threads, NEW u \in Threads, AddObjectRef(t, u)
  PROVE  IInv'
<1>1. /\ objectRefs[t] > 0 /\ objectRefs[u] < MaxRefs /\ mObjectRef' = mObjectRef + 1
      /\ objectRefs' = [objectRefs EXCEPT ![u] = @ + 1] /\ alive' = alive
      /\ buffer' = buffer /\ m3dBuffers' = m3dBuffers /\ refs' = refs
      /\ mTotalRef' = mTotalRef /\ mDsRef' = mDsRef /\ mOtherRef' = mOtherRef
      /\ pc' = pc /\ slot' = slot /\ via' = via
  BY DEF AddObjectRef, CanCall, counts, call
<1>2. ObjectInv
  BY DEF IInv
<1>3. objectRefs' \in [Threads -> 0 .. MaxRefs]
  BY <1>1, <1>2, BoundsAssumption DEF ObjectInv
<1>4. /\ objectRefs'[u] = objectRefs[u] + 1
      /\ \A v \in Threads \ {u} : objectRefs'[v] = objectRefs[v]
  BY <1>1, <1>2 DEF ObjectInv
<1>5. objectRefs'[u] \in {objectRefs[u] - 1, objectRefs[u], objectRefs[u] + 1}
  BY <1>4
<1>6. Sum(objectRefs', MaxRefs) = Sum(objectRefs, MaxRefs) + objectRefs'[u] - objectRefs[u]
  BY <1>2, <1>3, <1>4, <1>5, SumMoved, BoundsAssumption DEF ObjectInv
<1>7. Sum(objectRefs, MaxRefs) \in Nat /\ objectRefs[u] \in Nat
  BY <1>2, SumBound, BoundsAssumption DEF ObjectInv
<1>8. mObjectRef' = Sum(objectRefs', MaxRefs) /\ (alive' <=> mObjectRef' > 0)
  <2>1. alive
    BY <1>1, HolderFindsObject
  <2> QED BY <1>1, <1>2, <1>4, <1>6, <1>7, <2>1 DEF ObjectInv
<1>9. ObjectInv'
  BY <1>1, <1>2, <1>3, <1>8 DEF ObjectInv, Sum, Units
<1>10. CallTypes' /\ CountTypes' /\ SlotTypes'
  BY <1>1 DEF IInv, CallTypes, CountTypes, SlotTypes, MaxTotal
<1>11. \A v \in Threads : CallInv(v)'
  <2> SUFFICES ASSUME NEW v \in Threads PROVE CallInv(v)'
    OBVIOUS
  <2>1. objectRefs[v] > 0 => objectRefs'[v] > 0
    BY <1>4, <1>7
  <2> QED BY <1>1, <2>1 DEF IInv, CallInv
<1>12. ASSUME alive, NEW s \in Slots PROVE SlotInv(s)'
  <2>1. SlotInv(s)
    BY <1>12 DEF IInv
  <2> QED BY <1>1, <2>1 DEF SlotInv, FreeInv, UsedInv, ListInv, NewInv, CountsAreExact,
                            InCall, HeldRefs, DroppedRefs
<1> QED BY <1>1, <1>9, <1>10, <1>11, <1>12 DEF IInv

LEMMA ReleaseObjectKeeps ==
  ASSUME IInv, NEW t \in Threads, ReleaseObject(t)
  PROVE  IInv'
<1>1. /\ pc[t] = "Idle" /\ objectRefs[t] > 0 /\ mObjectRef' = mObjectRef - 1
      /\ objectRefs' = [objectRefs EXCEPT ![t] = @ - 1]
      /\ refs' = refs
      /\ mTotalRef' = mTotalRef /\ mDsRef' = mDsRef /\ mOtherRef' = mOtherRef
      /\ pc' = pc /\ slot' = slot /\ via' = via
  BY DEF ReleaseObject, CanCall, counts, call
<1>2. \/ /\ mObjectRef = 1 /\ alive' = FALSE
         /\ buffer' = [s \in Slots |-> "Free"] /\ m3dBuffers' = [s \in Slots |-> 0]
      \/ mObjectRef # 1 /\ alive' = alive /\ buffer' = buffer /\ m3dBuffers' = m3dBuffers
  BY DEF ReleaseObject
<1>3. ObjectInv
  BY DEF IInv
<1>4. objectRefs' \in [Threads -> 0 .. MaxRefs]
  BY <1>1, <1>3, BoundsAssumption DEF ObjectInv
<1>5. /\ objectRefs'[t] = objectRefs[t] - 1
      /\ \A v \in Threads \ {t} : objectRefs'[v] = objectRefs[v]
  BY <1>1, <1>3 DEF ObjectInv
<1>6. objectRefs'[t] \in {objectRefs[t] - 1, objectRefs[t], objectRefs[t] + 1}
  BY <1>5
<1>7. Sum(objectRefs', MaxRefs) = Sum(objectRefs, MaxRefs) + objectRefs'[t] - objectRefs[t]
  BY <1>3, <1>4, <1>5, <1>6, SumMoved, BoundsAssumption DEF ObjectInv
<1>8. /\ Sum(objectRefs, MaxRefs) \in Nat /\ Sum(objectRefs', MaxRefs) \in Nat
      /\ objectRefs[t] \in Nat
  BY <1>3, SumBound, BoundsAssumption DEF ObjectInv
<1>9. mObjectRef' = Sum(objectRefs', MaxRefs) /\ mObjectRef \in Nat /\ mObjectRef # 0
  BY <1>1, <1>3, <1>5, <1>7, <1>8 DEF ObjectInv
<1>10. ObjectInv'
  <2>1. mObjectRef > 0 /\ (mObjectRef = 1 <=> ~(mObjectRef' > 0))
    BY <1>1, <1>9
  <2>2. alive' \in BOOLEAN /\ (alive' <=> mObjectRef' > 0)
    <3>1. alive = TRUE
      BY <1>3, <2>1, Zenon DEF ObjectInv
    <3>2. \/ mObjectRef = 1 /\ alive' = FALSE
          \/ mObjectRef # 1 /\ alive' = TRUE
      BY <1>2, <3>1
    <3> QED BY <2>1, <3>2, Zenon
  <2> QED BY <1>4, <1>9, <2>2 DEF ObjectInv, Sum, Units
<1>11. CallTypes' /\ CountTypes'
  BY <1>1 DEF IInv, CallTypes, CountTypes, MaxTotal
<1>12. SlotTypes'
  BY <1>1, <1>2 DEF IInv, SlotTypes
<1>13. \A v \in Threads : CallInv(v)'
  <2> SUFFICES ASSUME NEW v \in Threads PROVE CallInv(v)'
    OBVIOUS
  <2>1. CASE v = t
    BY <1>1, <2>1 DEF IInv, CallInv
  <2>2. CASE v # t
    BY <1>1, <1>5, <2>2 DEF IInv, CallInv
  <2> QED BY <2>1, <2>2
<1>14. ASSUME alive', NEW s \in Slots PROVE SlotInv(s)'
  <2>1. alive /\ buffer' = buffer /\ m3dBuffers' = m3dBuffers
    BY <1>2, <1>14
  <2>2. SlotInv(s)
    BY <2>1 DEF IInv
  <2> QED BY <1>1, <2>1, <2>2 DEF SlotInv, FreeInv, UsedInv, ListInv, NewInv,
                                  CountsAreExact, InCall, HeldRefs, DroppedRefs
<1> QED BY <1>10, <1>11, <1>12, <1>13, <1>14 DEF IInv

-----------------------------------------------------------------------------
(* The theorems.                                                           *)

LEMMA InitIInv == Init => IInv
<1> SUFFICES ASSUME Init PROVE IInv
  OBVIOUS
<1>1. CallTypes /\ CountTypes /\ SlotTypes
  <2>1. MaxTotal \in Nat
    BY ThreadsFinite, BoundsAssumption DEF MaxTotal
  <2> QED BY <2>1, BoundsAssumption DEF Init, CallTypes, CountTypes, SlotTypes, Places, Interfaces
<1>2. ObjectInv
  <2>1. PICK t \in Threads : objectRefs = [u \in Threads |-> IF u = t THEN 1 ELSE 0]
    BY DEF Init
  <2>2. Units(objectRefs, MaxRefs) = {<<t, 1>>}
    BY <2>1, BoundsAssumption DEF Units
  <2>3. Sum(objectRefs, MaxRefs) = 1
    BY <2>2, FS_Singleton DEF Sum
  <2> QED BY <2>1, <2>3, BoundsAssumption DEF Init, ObjectInv
<1>3. \A t \in Threads : CallInv(t)
  BY DEF Init, CallInv
<1>4. ASSUME NEW s \in Slots PROVE SlotInv(s)
  BY DEF Init, SlotInv, FreeInv, UsedInv, ListInv, NewInv, Listed, None, Slots
<1> QED BY <1>1, <1>2, <1>3, <1>4 DEF IInv

LEMMA NextIInv == IInv /\ [Next]_vars => IInv'
<1> SUFFICES ASSUME IInv, [Next]_vars PROVE IInv'
  OBVIOUS
<1>1. CASE UNCHANGED vars
  <2>1. /\ alive' = alive /\ mObjectRef' = mObjectRef /\ objectRefs' = objectRefs
        /\ buffer' = buffer /\ m3dBuffers' = m3dBuffers /\ refs' = refs
        /\ mTotalRef' = mTotalRef /\ mDsRef' = mDsRef /\ mOtherRef' = mOtherRef
        /\ pc' = pc /\ slot' = slot /\ via' = via
    BY <1>1 DEF vars, object, counts, call
  <2>2. CallTypes' /\ CountTypes' /\ SlotTypes'
    BY <2>1 DEF IInv, CallTypes, CountTypes, SlotTypes, MaxTotal
  <2>3. ObjectInv'
    BY <2>1 DEF IInv, ObjectInv, Sum, Units
  <2>4. \A t \in Threads : CallInv(t)'
    BY <2>1 DEF IInv, CallInv
  <2>5. ASSUME alive, NEW s \in Slots PROVE SlotInv(s)'
    <3>1. SlotInv(s)
      BY <2>5 DEF IInv
    <3> QED BY <2>1, <3>1 DEF SlotInv, FreeInv, UsedInv, ListInv, NewInv, CountsAreExact,
                              InCall, HeldRefs, DroppedRefs
  <2> QED BY <2>1, <2>2, <2>3, <2>4, <2>5 DEF IInv
<1>2. CASE Next
  <2>1. PICK t \in Threads :
          \/ ReleaseObject(t)
          \/ \E s \in Slots :
               \/ CreateSoundBuffer(t, s)
               \/ \E o \in Slots : DuplicateSoundBuffer(t, o, s)
               \/ \E i \in Interfaces : AddRef(t, s, i) \/ Release(t, s, i)
          \/ Initialize(t) \/ FailInitialize(t)
          \/ \E u \in Threads : AddObjectRef(t, u) \/ AddInterfaceRef(t, u)
          \/ DropInterfaceRef(t) \/ DropTotal(t) \/ Dispose(t)
    BY <1>2 DEF Next
  <2>2. ASSUME NEW s \in Slots, CreateSoundBuffer(t, s) PROVE IInv'
    <3>1. Construct(t, s, "New") /\ objectRefs[t] > 0
      BY <2>2 DEF CreateSoundBuffer, Construct, Begin, CanCall
    <3> QED BY <3>1, HolderFindsObject, ConstructKeeps
  <2>3. ASSUME NEW s \in Slots, NEW o \in Slots, DuplicateSoundBuffer(t, o, s) PROVE IInv'
    <3>1. Construct(t, s, buffer[o]) /\ objectRefs[t] > 0 /\ buffer[o] # "Free"
      BY <2>3 DEF DuplicateSoundBuffer, Construct, Begin, CanCall
    <3>2. PICK kind \in {"New", "Plain", "3D"} : buffer[o] = kind
      BY <3>1 DEF IInv, SlotTypes
    <3>3. Construct(t, s, kind)
      BY <3>1, <3>2
    <3> QED BY <3>1, <3>3, HolderFindsObject, ConstructKeeps
  <2>4. ASSUME NEW s \in Slots, NEW i \in Interfaces, AddRef(t, s, i) PROVE IInv'
    <3>1. objectRefs[t] > 0
      BY <2>4 DEF AddRef, Begin, CanCall
    <3> QED BY <2>4, <3>1, HolderFindsObject, AddRefKeeps
  <2>5. ASSUME NEW s \in Slots, NEW i \in Interfaces, Release(t, s, i) PROVE IInv'
    <3>1. objectRefs[t] > 0
      BY <2>5 DEF Release, Begin, CanCall
    <3> QED BY <2>5, <3>1, HolderFindsObject, ReleaseKeeps
  <2>6. ASSUME pc[t] # "Idle" PROVE \E s \in Slots : slot[t] = s
    BY <2>6, Called
  <2>7. CASE Initialize(t) \/ FailInitialize(t)
    <3>1. pc[t] # "Idle"
      BY <2>7 DEF Initialize, FailInitialize
    <3>2. PICK s \in Slots : slot[t] = s
      BY <2>6, <3>1
    <3> QED BY <2>7, <3>2, InitializeKeeps, FailInitializeKeeps
  <2>8. ASSUME NEW u \in Threads, AddInterfaceRef(t, u) PROVE IInv'
    <3>1. pc[t] # "Idle"
      BY <2>8 DEF AddInterfaceRef
    <3>2. PICK s \in Slots : slot[t] = s
      BY <2>6, <3>1
    <3> QED BY <2>8, <3>2, AddInterfaceRefKeeps
  <2>9. CASE DropInterfaceRef(t) \/ DropTotal(t) \/ Dispose(t)
    <3>1. pc[t] # "Idle"
      BY <2>9 DEF DropInterfaceRef, DropTotal, Dispose
    <3>2. PICK s \in Slots : slot[t] = s
      BY <2>6, <3>1
    <3> QED BY <2>9, <3>2, DropInterfaceRefKeeps, DropTotalKeeps, DisposeKeeps
  <2>10. CASE ReleaseObject(t)
    BY <2>10, ReleaseObjectKeeps
  <2>11. ASSUME NEW u \in Threads, AddObjectRef(t, u) PROVE IInv'
    BY <2>11, AddObjectRefKeeps
  <2>12. CASE \E s \in Slots :
                \/ CreateSoundBuffer(t, s)
                \/ \E o \in Slots : DuplicateSoundBuffer(t, o, s)
                \/ \E i \in Interfaces : AddRef(t, s, i) \/ Release(t, s, i)
    BY <2>2, <2>3, <2>4, <2>5, <2>12
  <2>13. CASE \E u \in Threads : AddObjectRef(t, u) \/ AddInterfaceRef(t, u)
    BY <2>8, <2>11, <2>13
  <2> QED BY <2>1, <2>7, <2>9, <2>10, <2>12, <2>13
<1> QED BY <1>1, <1>2

(* The inductive invariant holds in every state that the program reaches. *)
THEOREM Invariance == Spec => []IInv
<1>1. Init => IInv
  BY InitIInv
<1>2. IInv /\ [Next]_vars => IInv'
  BY NextIInv
<1> QED BY <1>1, <1>2, PTL DEF Spec

(* Every variable has the values of its type, no count goes below zero or  *)
(* above what the threads can hold, and a thread that calls a buffer, or   *)
(* holds a reference to it while the object exists, calls one that has not *)
(* been destroyed.                                                         *)
THEOREM TypeCorrect == Spec => []TypeOK
<1>1. IInv => TypeOK
  <2> SUFFICES ASSUME IInv PROVE TypeOK
    OBVIOUS
  <2>1. CallTypes /\ CountTypes /\ SlotTypes /\ ObjectInv
    BY DEF IInv
  <2>2. mObjectRef \in 0 .. MaxRefs * Cardinality(Threads)
    BY <2>1, SumBound, ThreadsFinite, BoundsAssumption DEF ObjectInv
  <2>3. ASSUME NEW t \in Threads, pc[t] # "Idle" PROVE buffer[slot[t]] # "Free"
    BY <2>3, Called
  <2>4. ASSUME NEW t \in Threads, alive, NEW s \in Slots, Holds(t, s)
        PROVE  buffer[s] # "Free"
    BY <2>4, HeldIsUsed DEF Holds
  <2> QED BY <2>1, <2>2, <2>3, <2>4
          DEF TypeOK, CallTypes, CountTypes, SlotTypes, ObjectInv, Places
<1> QED BY <1>1, Invariance, PTL

(* While the object exists each buffer's counts are the references held,   *)
(* given and dropped; exactly one thread disposes of a buffer without a    *)
(* reference, and none of another; and m3dBuffers lists each 3D buffer     *)
(* once from Initialize to its destruction, and nothing else.              *)
THEOREM BuffersExact == Spec => []BuffersAreExact
<1>1. IInv => BuffersAreExact
  BY DEF IInv, BuffersAreExact, SlotInv, UsedInv, ListInv
<1> QED BY <1>1, Invariance, PTL
=============================================================================
