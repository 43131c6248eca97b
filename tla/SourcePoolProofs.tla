-------------------------- MODULE SourcePoolProofs --------------------------
(***************************************************************************)
(* Proofs about SourcePool, for any number of objects, buffers and voices, *)
(* and about VoiceLimits, for whatever OpenAL reports.                     *)
(***************************************************************************)
EXTENDS SourcePool, VoiceLimits, FiniteSetTheorems, TLAPS

(* A call in progress is about a buffer of its own object, which has no    *)
(* location while the call looks for one and is not playing; a             *)
(* compare-exchange is tried only with a value below the maximum.          *)
CallInv ==
  \A o \in Objects : call[o] # Idle =>
    /\ Parent[call[o].buf] = o
    /\ location[call[o].buf] = "None"
    /\ buffer[call[o].buf] \in {"fixed", "deferred"}
    /\ call[o].pc = "cas" => call[o].cur # MaxOf(call[o].kind)

(* The inductive invariant of the counters.                                *)
IInv == TypeOK /\ CallInv /\ CountersExact /\ CountersBounded

-----------------------------------------------------------------------------
(* The shapes a call can have.                                             *)
LEMMA CallShape ==
  ASSUME NEW c \in Calls
  PROVE  /\ c.pc \in {"idle", "load", "cas", "place", "fail"}
         /\ c.pc = "idle" <=> c = Idle
         /\ c.pc # "idle" => c.buf \in Buffers
         /\ c.pc \in {"load", "cas"} =>
              c.want \in Wants /\ c.kind \in Kinds /\ c.cur \in Nat
         /\ c.pc = "place" => c.kind \in Kinds
BY DEF Calls, Idle

LEMMA NewCalls ==
  ASSUME NEW b \in Buffers, NEW k \in Kinds, NEW w \in Wants, NEW n \in Nat
  PROVE  /\ [pc |-> "load", buf |-> b, want |-> w, kind |-> k, cur |-> n]
              \in Calls
         /\ [pc |-> "cas", buf |-> b, want |-> w, kind |-> k, cur |-> n]
              \in Calls
         /\ [pc |-> "place", buf |-> b, kind |-> k] \in Calls
         /\ [pc |-> "fail", buf |-> b] \in Calls
         /\ Idle \in Calls
BY DEF Calls, Idle

(* Found keeps the buffer and yields a well-formed call.                   *)
LEMMA FoundLemma ==
  ASSUME NEW o \in Objects, call[o] \in Calls,
         call[o].pc \in {"load", "cas"}, NEW n \in Nat
  PROVE  /\ Found(o, n) \in Calls
         /\ Found(o, n).pc \in {"load", "cas", "fail"}
         /\ Found(o, n).buf = call[o].buf
         /\ Found(o, n).pc = "cas" =>
              Found(o, n).cur = n /\ n # MaxOf(Found(o, n).kind)
<1> DEFINE c == call[o]
<1>1. c \in [pc : {"load", "cas"}, buf : Buffers, want : Wants, kind : Kinds,
             cur : Nat]
  BY DEF Calls
<1>2. CASE n # MaxOf(c.kind)
  BY <1>1, <1>2 DEF Found, Calls
<1>3. CASE n = MaxOf(c.kind) /\ c.kind = "Hardware" /\ c.want = "Any"
  BY <1>1, <1>3 DEF Found, Calls, Kinds
<1>4. CASE n = MaxOf(c.kind) /\ ~(c.kind = "Hardware" /\ c.want = "Any")
  BY <1>1, <1>4 DEF Found, Calls
<1> QED BY <1>2, <1>3, <1>4

-----------------------------------------------------------------------------
(* Who holds a voice, and how many.                                        *)

LEMMA HoldersFinite ==
  ASSUME NEW k \in Kinds
  PROVE  IsFiniteSet(Holders(k)) /\ Cardinality(Holders(k)) \in Nat
<1>1. Holders(k) \subseteq Buffers
  BY DEF Holders
<1> QED BY <1>1, FiniteAssumption, FS_Subset, FS_CardinalityType

LEMMA MaxNat == \A k \in Kinds : MaxOf(k) \in Nat
BY MaxAssumption DEF MaxOf

(* Taking a voice of kind k for buffer b.                                  *)
LEMMA OneMore ==
  ASSUME CountersExact, TypeOK, NEW k \in Kinds, NEW b \in Buffers,
         b \notin Holders(k),
         count' = [count EXCEPT ![k] = @ + 1],
         Holders(k)' = Holders(k) \cup {b},
         \A j \in Kinds \ {k} : Holders(j)' = Holders(j)
  PROVE  CountersExact'
<1>1. Cardinality(Holders(k)') = Cardinality(Holders(k)) + 1
  BY HoldersFinite, FS_AddElement
<1>2. count'[k] = count[k] + 1 /\ \A j \in Kinds \ {k} : count'[j] = count[j]
  BY DEF TypeOK
<1> QED BY <1>1, <1>2 DEF CountersExact

(* Giving back the voice of kind k that buffer b holds.                    *)
LEMMA OneLess ==
  ASSUME CountersExact, TypeOK, NEW k \in Kinds, NEW b \in Holders(k),
         count' = [count EXCEPT ![k] = @ - 1],
         Holders(k)' = Holders(k) \ {b},
         \A j \in Kinds \ {k} : Holders(j)' = Holders(j)
  PROVE  /\ CountersExact'
         /\ count[k] > 0
<1>1. /\ Cardinality(Holders(k)') = Cardinality(Holders(k)) - 1
      /\ Cardinality(Holders(k)) > 0
  <2>1. IsFiniteSet(Holders(k)) /\ Cardinality(Holders(k)) \in Nat
    BY HoldersFinite
  <2>2. Cardinality(Holders(k) \ {b}) = Cardinality(Holders(k)) - 1
    BY <2>1, FS_RemoveElement
  <2>3. Cardinality(Holders(k)) # 0
    BY <2>1, FS_EmptySet
  <2> QED BY <2>1, <2>2, <2>3
<1>2. count'[k] = count[k] - 1 /\ \A j \in Kinds \ {k} : count'[j] = count[j]
  BY DEF TypeOK
<1> QED BY <1>1, <1>2 DEF CountersExact

(* No voice changes hands.                                                 *)
LEMMA NoneMoved ==
  ASSUME CountersExact, UNCHANGED count,
         \A k \in Kinds : Holders(k)' = Holders(k)
  PROVE  CountersExact'
BY DEF CountersExact

(* The counters that count are bounded below; above, one that grew was     *)
(* below its maximum.                                                      *)
LEMMA BoundKept ==
  ASSUME TypeOK, CountersBounded, CountersExact', count' \in [Kinds -> Int],
         \A k \in Kinds : count'[k] <= count[k] \/ count'[k] <= MaxOf(k)
  PROVE  CountersBounded'
<1> SUFFICES ASSUME NEW k \in Kinds PROVE count'[k] \in 0..MaxOf(k)
  BY DEF CountersBounded, MaxOf
<1>1. Cardinality(Holders(k)') \in Nat
  <2>1. Holders(k)' \subseteq Buffers
    BY DEF Holders
  <2> QED BY <2>1, FiniteAssumption, FS_Subset, FS_CardinalityType
<1>2. count'[k] \in Nat
  BY <1>1 DEF CountersExact
<1> QED BY <1>2, MaxNat DEF CountersBounded, TypeOK

-----------------------------------------------------------------------------
LEMMA InitIInv == Init => IInv
<1> SUFFICES ASSUME Init PROVE IInv
  OBVIOUS
<1>1. TypeOK
  <2>1. Idle \in Calls
    BY DEF Calls, Idle
  <2>2. call \in [Objects -> Calls]
    BY <2>1 DEF Init
  <2>3. count \in [Kinds -> Int]
    BY DEF Init
  <2>4. buffer \in [Buffers -> BufferStates]
    BY DEF Init, BufferStates
  <2>5. location \in [Buffers -> LocStatus]
    BY DEF Init, LocStatus
  <2>6. sources \subseteq Buffers /\ strayed \in BOOLEAN
    BY DEF Init
  <2> QED BY <2>2, <2>3, <2>4, <2>5, <2>6 DEF TypeOK
<1>2. CallInv
  BY DEF Init, CallInv
<1>3. \A k \in Kinds : Holders(k) = {}
  BY ParentAssumption DEF Init, Holders, Idle, Kinds
<1>4. CountersExact /\ CountersBounded
  BY <1>3, FS_EmptySet, MaxNat DEF Init, CountersExact, CountersBounded
<1> QED BY <1>1, <1>2, <1>4 DEF IInv

(* The start of a call of setLocation gives back the voice the buffer has. *)
LEMMA BeginLocationIInv ==
  ASSUME IInv, NEW b \in Buffers, NEW want \in Wants, Unlocked(b),
         BeginLocation(b, want),
         \/ buffer[b] = "deferred" /\ UNCHANGED buffer
         \/ buffer[b] = "free" /\ buffer' = [buffer EXCEPT ![b] = "fixed"],
         strayed' \in BOOLEAN
  PROVE  IInv' /\ \A k \in Kinds : Holders(k)' = Holders(k) \ {b}
<1> DEFINE o == Parent[b]
           new == [pc |-> "load", buf |-> b, want |-> want,
                   kind |-> FirstKind(want), cur |-> 0]
<1>1. o \in Objects /\ call[o] = Idle /\ new \in Calls
  BY ParentAssumption, NewCalls DEF Unlocked, FirstKind, Kinds
<1>2. call' = [call EXCEPT ![o] = new]
  BY DEF BeginLocation
<1>3. TypeOK'
  BY <1>1, <1>2 DEF IInv, TypeOK, BeginLocation, LocStatus, BufferStates
<1>4. /\ location' = [location EXCEPT ![b] = "None"]
      /\ \A c \in Buffers : c # b => buffer'[c] = buffer[c]
      /\ buffer'[b] \in {"fixed", "deferred"}
  BY DEF IInv, TypeOK, BeginLocation
<1>5. CallInv'
  <2> SUFFICES ASSUME NEW p \in Objects, call'[p] # Idle
               PROVE  /\ Parent[call'[p].buf] = p
                      /\ location'[call'[p].buf] = "None"
                      /\ buffer'[call'[p].buf] \in {"fixed", "deferred"}
                      /\ call'[p].pc = "cas" =>
                           call'[p].cur # MaxOf(call'[p].kind)
    BY DEF CallInv, MaxOf
  <2>1. CASE p = o
    BY <1>1, <1>2, <1>4, <2>1 DEF IInv, TypeOK
  <2>2. CASE p # o
    <3>1. call'[p] = call[p] /\ call[p] # Idle
      BY <1>2, <2>2 DEF IInv, TypeOK
    <3>2. call[p].buf \in Buffers /\ call[p].buf # b
      BY <2>2, <3>1, CallShape DEF IInv, TypeOK, CallInv
    <3> QED BY <1>4, <3>1, <3>2 DEF IInv, TypeOK, CallInv
  <2> QED BY <2>1, <2>2
<1>6. \A k \in Kinds : Holders(k)' = Holders(k) \ {b}
  BY <1>1, <1>2, <1>4, ParentAssumption
  DEF Holders, IInv, TypeOK, CallInv, Kinds, Idle
<1>7. CountersExact' /\ \A k \in Kinds : count'[k] <= count[k]
  <2>1. CASE location[b] = "None"
    <3>1. \A k \in Kinds : b \notin Holders(k)
      BY <1>1, <2>1 DEF Holders, Kinds, Idle
    <3>2. \A k \in Kinds : Holders(k)' = Holders(k)
      BY <1>6, <3>1
    <3>3. UNCHANGED count
      BY <2>1 DEF BeginLocation
    <3>4. CountersExact'
      BY <3>2, <3>3, NoneMoved DEF IInv
    <3> QED BY <3>3, <3>4 DEF IInv, TypeOK
  <2>2. CASE location[b] # "None"
    <3>1. location[b] \in Kinds /\ b \in Holders(location[b])
      BY <2>2 DEF IInv, TypeOK, LocStatus, Holders
    <3>2. \A j \in Kinds \ {location[b]} : b \notin Holders(j)
      BY <1>1, <2>2 DEF Holders, Kinds, Idle
    <3>3. count' = [count EXCEPT ![location[b]] = @ - 1]
      BY <2>2 DEF BeginLocation
    <3>4. \A j \in Kinds \ {location[b]} : Holders(j)' = Holders(j)
      BY <1>6, <3>2
    <3>5. CountersExact'
      BY <1>6, <3>1, <3>3, <3>4, OneLess DEF IInv
    <3> QED BY <3>1, <3>3, <3>5 DEF IInv, TypeOK
  <2> QED BY <2>1, <2>2
<1>8. CountersBounded'
  BY <1>3, <1>7, BoundKept DEF IInv, TypeOK
<1> QED BY <1>3, <1>5, <1>6, <1>7, <1>8 DEF IInv

(* Found: no voice moves, and the call goes on about the same buffer.      *)
LEMMA StayingIInv ==
  ASSUME IInv, NEW o \in Objects, NEW c \in Calls, call[o] # Idle,
         call[o].pc # "place",
         c # Idle, c.pc # "place", c.buf = call[o].buf,
         c.pc = "cas" => c.cur # MaxOf(c.kind),
         call' = [call EXCEPT ![o] = c],
         UNCHANGED <<count, buffer, location, sources, strayed>>
  PROVE  IInv' /\ \A k \in Kinds : Holders(k)' = Holders(k)
<1>1. TypeOK'
  BY DEF IInv, TypeOK
<1>2. CallInv'
  BY DEF IInv, TypeOK, CallInv, MaxOf
<1>3. \A k \in Kinds : Holders(k)' = Holders(k)
  BY ParentAssumption DEF Holders, IInv, TypeOK
<1>4. CountersExact'
  BY <1>3, NoneMoved DEF IInv
<1>5. CountersBounded'
  BY DEF IInv, CountersBounded, MaxOf
<1> QED BY <1>1, <1>2, <1>3, <1>4, <1>5 DEF IInv

LEMMA LoadOrCasFailsIInv ==
  ASSUME IInv, NEW o \in Objects, LoadCount(o) \/ CasFails(o)
  PROVE  IInv' /\ \A k \in Kinds : Holders(k)' = Holders(k)
<1>1. /\ call[o] \in Calls /\ call[o].pc \in {"load", "cas"}
      /\ call[o] # Idle
  BY DEF LoadCount, CasFails, IInv, TypeOK, Idle
<1>2. call[o].kind \in Kinds
  BY <1>1, CallShape
<1>3. count[call[o].kind] \in Nat
  BY <1>2, MaxNat DEF IInv, CountersBounded
<1> DEFINE c == Found(o, count[call[o].kind])
<1>4. /\ c \in Calls /\ c.pc \in {"load", "cas", "fail"}
      /\ c.buf = call[o].buf
      /\ c.pc = "cas" => c.cur # MaxOf(c.kind)
  BY <1>1, <1>3, FoundLemma
<1>5. c # Idle /\ c.pc # "place"
  BY <1>4 DEF Idle
<1>6. /\ call' = [call EXCEPT ![o] = c]
      /\ UNCHANGED <<count, buffer, location, sources, strayed>>
  BY DEF LoadCount, CasFails
<1> HIDE DEF c
<1> QED BY <1>1, <1>4, <1>5, <1>6, StayingIInv

(* The buffer of the call takes a voice, of which there was one left.      *)
LEMMA CasSucceedsIInv ==
  ASSUME IInv, NEW o \in Objects, CasSucceeds(o)
  PROVE  /\ IInv'
         /\ \E b \in Buffers, k \in Kinds :
              /\ \A j \in Kinds : b \notin Holders(j)
              /\ count[k] < MaxOf(k)
              /\ Holders(k)' = Holders(k) \cup {b}
              /\ \A j \in Kinds \ {k} : Holders(j)' = Holders(j)
<1>0. PICK b, k : b = call[o].buf /\ k = call[o].kind
  OBVIOUS
<1> DEFINE new == [pc |-> "place", buf |-> b, kind |-> k]
<1>1. /\ call[o] \in Calls /\ call[o].pc = "cas" /\ call[o] # Idle
      /\ b \in Buffers /\ k \in Kinds /\ call[o].cur \in Nat
  BY <1>0, CallShape DEF CasSucceeds, IInv, TypeOK, Idle
<1>2. /\ Parent[b] = o /\ location[b] = "None"
      /\ buffer[b] \in {"fixed", "deferred"} /\ call[o].cur # MaxOf(k)
  BY <1>0, <1>1 DEF IInv, CallInv
<1>3. new \in Calls /\ new # Idle /\ new.pc = "place" /\ new.buf = b
  BY <1>1 DEF Calls, Idle
<1>4. /\ call' = [call EXCEPT ![o] = new]
      /\ count' = [count EXCEPT ![k] = @ + 1]
      /\ count[k] = call[o].cur
      /\ UNCHANGED <<buffer, location, sources, strayed>>
  BY <1>0 DEF CasSucceeds
<1>5. TypeOK'
  BY <1>1, <1>3, <1>4 DEF IInv, TypeOK
<1>6. CallInv'
  BY <1>0, <1>1, <1>2, <1>3, <1>4 DEF IInv, TypeOK, CallInv, MaxOf
<1>7. \A j \in Kinds : b \notin Holders(j)
  BY <1>0, <1>1, <1>2, ParentAssumption DEF Holders, Kinds
<1>8. Holders(k)' = Holders(k) \cup {b}
  BY <1>0, <1>1, <1>2, <1>4, ParentAssumption DEF Holders, IInv, TypeOK
<1>9. \A j \in Kinds \ {k} : Holders(j)' = Holders(j)
  BY <1>0, <1>1, <1>2, <1>4, ParentAssumption DEF Holders, IInv, TypeOK
<1>10. CountersExact'
  BY <1>1, <1>4, <1>7, <1>8, <1>9, OneMore DEF IInv
<1>11. count'[k] <= MaxOf(k) /\ \A j \in Kinds : j # k => count'[j] <= count[j]
  BY <1>1, <1>2, <1>4, MaxNat DEF IInv, TypeOK, CountersBounded
<1>12. CountersBounded'
  BY <1>5, <1>10, <1>11, BoundKept DEF IInv, TypeOK
<1>13. count[k] < MaxOf(k)
  BY <1>1, <1>2, <1>4, MaxNat DEF IInv, CountersBounded
<1> QED
  BY <1>1, <1>5, <1>6, <1>7, <1>8, <1>9, <1>10, <1>12, <1>13 DEF IInv

LEMMA PlaceBufferIInv ==
  ASSUME IInv, NEW o \in Objects, PlaceBuffer(o)
  PROVE  /\ IInv'
         /\ \A k \in Kinds : Holders(k)' = Holders(k)
<1>0. PICK b, k : b = call[o].buf /\ k = call[o].kind
  OBVIOUS
<1>1. /\ call[o] \in Calls /\ call[o].pc = "place" /\ call[o] # Idle
      /\ b \in Buffers /\ k \in Kinds
  BY <1>0, CallShape DEF PlaceBuffer, IInv, TypeOK, Idle
<1>2. Parent[b] = o /\ location[b] = "None"
  BY <1>0, <1>1 DEF IInv, CallInv
<1>3. /\ call' = [call EXCEPT ![o] = Idle]
      /\ location' = [location EXCEPT ![b] = k]
      /\ sources' \subseteq sources \cup {b}
      /\ UNCHANGED <<count, strayed>>
  BY <1>0 DEF PlaceBuffer, Generate
<1>b. \/ buffer' = buffer
      \/ buffer' = [buffer EXCEPT ![b] = "deferredPlaying"]
  BY <1>0 DEF PlaceBuffer
<1>4. Idle \in Calls /\ Idle.pc # "place"
  BY DEF Calls, Idle
<1>5. TypeOK'
  BY <1>1, <1>3, <1>b, <1>4 DEF IInv, TypeOK, LocStatus, BufferStates
<1>6. CallInv'
  <2> SUFFICES ASSUME NEW p \in Objects, call'[p] # Idle
               PROVE  /\ Parent[call'[p].buf] = p
                      /\ location'[call'[p].buf] = "None"
                      /\ buffer'[call'[p].buf] \in {"fixed", "deferred"}
                      /\ call'[p].pc = "cas" =>
                           call'[p].cur # MaxOf(call'[p].kind)
    BY DEF CallInv, MaxOf
  <2>1. p # o /\ call'[p] = call[p]
    BY <1>3 DEF IInv, TypeOK
  <2>2. call[p].buf \in Buffers /\ call[p].buf # b
    BY <1>2, <2>1, CallShape DEF IInv, TypeOK, CallInv
  <2> QED BY <1>3, <1>b, <2>1, <2>2 DEF IInv, TypeOK, CallInv
<1>7. \A j \in Kinds : Holders(j)' = Holders(j)
  <2> SUFFICES ASSUME NEW j \in Kinds, NEW c \in Buffers
               PROVE  c \in Holders(j)' <=> c \in Holders(j)
    BY DEF Holders
  <2>1. CASE c = b
    BY <1>0, <1>1, <1>2, <1>3, <1>4, <2>1 DEF Holders, IInv, TypeOK, Kinds
  <2>2. CASE c # b /\ Parent[c] = o
    BY <1>0, <1>1, <1>2, <1>3, <1>4, <2>2 DEF Holders, IInv, TypeOK
  <2>3. CASE Parent[c] # o
    BY <1>2, <1>3, <2>3, ParentAssumption DEF Holders, IInv, TypeOK
  <2> QED BY <2>1, <2>2, <2>3
<1>8. CountersExact'
  BY <1>3, <1>7, NoneMoved DEF IInv
<1>9. CountersBounded'
  BY <1>3 DEF IInv, CountersBounded, MaxOf
<1> QED BY <1>5, <1>6, <1>7, <1>8, <1>9 DEF IInv

(* Calls that take and give back nothing.                                  *)
LEMMA QuietIInv ==
  ASSUME IInv, UNCHANGED <<count, location>>,
         sources' \subseteq Buffers, strayed' \in BOOLEAN,
         buffer' \in [Buffers -> BufferStates],
         call' \in [Objects -> Calls],
         \A o \in Objects :
           \/ call'[o] = call[o]
           \/ call'[o] = Idle /\ call[o].pc # "place",
         \A o \in Objects : call'[o] # Idle =>
                 buffer'[call[o].buf] \in {"fixed", "deferred"}
  PROVE  /\ IInv'
         /\ \A k \in Kinds : Holders(k)' = Holders(k)
<1>1. TypeOK'
  BY DEF IInv, TypeOK
<1>2. CallInv'
  BY DEF IInv, CallInv, MaxOf
<1>3. \A k \in Kinds : Holders(k)' = Holders(k)
  <2> SUFFICES ASSUME NEW j \in Kinds, NEW c \in Buffers
               PROVE  c \in Holders(j)' <=> c \in Holders(j)
    BY DEF Holders
  <2>1. Parent[c] \in Objects
    BY ParentAssumption
  <2> QED BY <2>1 DEF Holders, Idle
<1>4. CountersExact' /\ CountersBounded'
  BY <1>3, NoneMoved DEF IInv, CountersBounded, MaxOf
<1> QED BY <1>1, <1>2, <1>3, <1>4 DEF IInv

LEMMA FailLocationIInv ==
  ASSUME IInv, NEW o \in Objects, FailLocation(o)
  PROVE  IInv' /\ \A k \in Kinds : Holders(k)' = Holders(k)
<1>0. PICK b : b = call[o].buf
  OBVIOUS
<1>1. /\ call[o].pc = "fail" /\ call[o] # Idle /\ b \in Buffers
      /\ Idle \in Calls
  BY <1>0, CallShape DEF FailLocation, IInv, TypeOK, Idle, Calls
<1>2. /\ Parent[b] = o
      /\ buffer' = [buffer EXCEPT ![b] = IF @ = "fixed" THEN "failed" ELSE @]
      /\ call' = [call EXCEPT ![o] = Idle]
      /\ UNCHANGED <<count, location, sources, strayed>>
  BY <1>0, <1>1 DEF FailLocation, IInv, CallInv
<1>3. buffer' \in [Buffers -> BufferStates]
  BY <1>2 DEF IInv, TypeOK, BufferStates
<1>4. \A p \in Objects : call'[p] # Idle =>
         buffer'[call[p].buf] \in {"fixed", "deferred"}
  <2> SUFFICES ASSUME NEW p \in Objects, call'[p] # Idle
               PROVE  buffer'[call[p].buf] \in {"fixed", "deferred"}
    OBVIOUS
  <2>1. p # o /\ call[p] # Idle
    BY <1>2 DEF IInv, TypeOK
  <2>2. call[p].buf \in Buffers /\ call[p].buf # b
    BY <1>2, <2>1, CallShape DEF IInv, TypeOK, CallInv
  <2> QED BY <1>2, <2>1, <2>2 DEF IInv, TypeOK, CallInv
<1>5. /\ call' \in [Objects -> Calls]
      /\ \A p \in Objects :
           \/ call'[p] = call[p]
           \/ call'[p] = Idle /\ call[p].pc # "place"
  <2>1. call[o].pc # "place"
    BY <1>1
  <2>2. call \in [Objects -> Calls]
    BY DEF IInv, TypeOK
  <2> HIDE DEF Idle
  <2> QED BY <1>1, <1>2, <2>1, <2>2
<1>6. sources' \subseteq Buffers /\ strayed' \in BOOLEAN
  BY <1>2 DEF IInv, TypeOK
<1> QED BY <1>2, <1>3, <1>4, <1>5, <1>6, QuietIInv

LEMMA QuietCallsIInv ==
  ASSUME IInv, NEW b \in Buffers,
         CreateDeferred(b) \/ Start(b) \/ Halt(b) \/ SetEaxProperty(b)
  PROVE  IInv' /\ \A k \in Kinds : Holders(k)' = Holders(k)
<1>1. /\ UNCHANGED <<count, location, call>>
      /\ sources' \subseteq sources \cup {b}
      /\ strayed' \in BOOLEAN
  BY DEF CreateDeferred, Start, Halt, SetEaxProperty, Generate, IInv, TypeOK
<1>2. buffer' \in [Buffers -> BufferStates]
  BY DEF CreateDeferred, Start, Halt, SetEaxProperty, IInv, TypeOK,
     BufferStates
<1>3. \A c \in Buffers : c # b => buffer'[c] = buffer[c]
  BY DEF CreateDeferred, Start, Halt, SetEaxProperty, IInv, TypeOK
<1>4. \A p \in Objects : call[p] # Idle =>
         call[p].buf \in Buffers /\ (call[p].buf = b => p = Parent[b])
  BY CallShape DEF IInv, TypeOK, CallInv
<1>5. \A p \in Objects : call'[p] # Idle =>
         buffer'[call[p].buf] \in {"fixed", "deferred"}
  <2> SUFFICES ASSUME NEW p \in Objects, call[p] # Idle
               PROVE  buffer'[call[p].buf] \in {"fixed", "deferred"}
    BY <1>1
  <2>1. CASE call[p].buf # b
    BY <1>3, <1>4, <2>1 DEF IInv, CallInv
  <2>2. CASE call[p].buf = b
    <3>1. ~Unlocked(b) /\ buffer[b] \in {"fixed", "deferred"}
      BY <1>4, <2>2 DEF Unlocked, IInv, CallInv
    <3>2. Halt(b)
      BY <3>1 DEF CreateDeferred, Start, SetEaxProperty
    <3>3. Playing(b)
      BY <3>2 DEF Halt
    <3> QED BY <3>1, <3>3 DEF Playing
  <2> QED BY <2>1, <2>2
<1> QED BY <1>1, <1>2, <1>5, QuietIInv DEF IInv, TypeOK

LEMMA DisposeIInv ==
  ASSUME IInv, NEW b \in Buffers, Dispose(b)
  PROVE  IInv' /\ \A k \in Kinds : Holders(k)' = Holders(k) \ {b}
<1>1. /\ buffer' = [buffer EXCEPT ![b] = "free"]
      /\ location' = [location EXCEPT ![b] = "None"]
      /\ sources' = sources \ {b}
      /\ count' = IF location[b] = "None" THEN count
                  ELSE [count EXCEPT ![location[b]] = @ - 1]
      /\ UNCHANGED <<call, strayed>>
      /\ call[Parent[b]] = Idle
  BY DEF Dispose, Unlocked
<1>2. TypeOK'
  <2>1. count' \in [Kinds -> Int]
    BY <1>1 DEF IInv, TypeOK, LocStatus
  <2>2. /\ buffer' \in [Buffers -> BufferStates]
        /\ location' \in [Buffers -> LocStatus]
    BY <1>1 DEF IInv, TypeOK, LocStatus, BufferStates
  <2> QED BY <1>1, <2>1, <2>2 DEF IInv, TypeOK
<1>3. CallInv'
  <2> SUFFICES ASSUME NEW p \in Objects, call[p] # Idle
               PROVE  /\ Parent[call[p].buf] = p
                      /\ location'[call[p].buf] = "None"
                      /\ buffer'[call[p].buf] \in {"fixed", "deferred"}
                      /\ call[p].pc = "cas" =>
                           call[p].cur # MaxOf(call[p].kind)
    BY <1>1 DEF CallInv, MaxOf
  <2>1. call[p].buf \in Buffers /\ call[p].buf # b
    BY <1>1, CallShape DEF IInv, TypeOK, CallInv
  <2> QED BY <1>1, <2>1 DEF IInv, TypeOK, CallInv
<1>4. \A k \in Kinds : Holders(k)' = Holders(k) \ {b}
  <2> SUFFICES ASSUME NEW k \in Kinds, NEW c \in Buffers
               PROVE  c \in Holders(k)' <=> c \in Holders(k) /\ c # b
    BY DEF Holders
  <2>1. CASE c = b
    BY <1>1, <2>1 DEF Holders, IInv, TypeOK, Kinds, Idle
  <2>2. CASE c # b
    BY <1>1, <2>2 DEF Holders, IInv, TypeOK
  <2> QED BY <2>1, <2>2
<1>5. CountersExact' /\ \A k \in Kinds : count'[k] <= count[k]
  <2>1. CASE location[b] = "None"
    <3>1. \A k \in Kinds : b \notin Holders(k)
      BY <1>1, <2>1 DEF Holders, Kinds, Idle
    <3>2. \A k \in Kinds : Holders(k)' = Holders(k)
      BY <1>4, <3>1
    <3>3. UNCHANGED count
      BY <1>1, <2>1
    <3>4. CountersExact'
      BY <3>2, <3>3, NoneMoved DEF IInv
    <3> QED BY <3>3, <3>4 DEF IInv, TypeOK
  <2>2. CASE location[b] # "None"
    <3>0. PICK k \in Kinds : k = location[b]
      BY <2>2 DEF IInv, TypeOK, LocStatus
    <3>1. b \in Holders(k) /\ \A j \in Kinds \ {k} : b \notin Holders(j)
      BY <1>1, <3>0 DEF Holders, Kinds, Idle
    <3>2. count' = [count EXCEPT ![k] = @ - 1]
      BY <1>1, <2>2, <3>0
    <3>3. \A j \in Kinds \ {k} : Holders(j)' = Holders(j)
      BY <1>4, <3>1
    <3>4. CountersExact'
      BY <1>4, <3>1, <3>2, <3>3, OneLess DEF IInv
    <3> QED BY <3>2, <3>4 DEF IInv, TypeOK
  <2> QED BY <2>1, <2>2
<1>6. CountersBounded'
  BY <1>2, <1>5, BoundKept DEF IInv, TypeOK
<1> QED BY <1>2, <1>3, <1>4, <1>5, <1>6 DEF IInv

LEMMA NextIInv == IInv /\ [Next]_vars => IInv'
<1> SUFFICES ASSUME IInv, [Next]_vars PROVE IInv'
  OBVIOUS
<1>1. ASSUME NEW b \in Buffers, CreateFixed(b) \/ Locate(b) PROVE IInv'
  <2>1. PICK want \in Wants : BeginLocation(b, want)
    BY <1>1 DEF CreateFixed, Locate
  <2> QED
    BY <1>1, <2>1, BeginLocationIInv DEF CreateFixed, Locate, IInv, TypeOK
<1>2. ASSUME NEW b \in Buffers,
             CreateDeferred(b) \/ Start(b) \/ Halt(b) \/ SetEaxProperty(b)
      PROVE IInv'
  BY <1>2, QuietCallsIInv
<1>3. ASSUME NEW b \in Buffers, Dispose(b) PROVE IInv'
  BY <1>3, DisposeIInv
<1>4. ASSUME NEW o \in Objects, CallStep(o) PROVE IInv'
  BY <1>4, LoadOrCasFailsIInv, CasSucceedsIInv, PlaceBufferIInv,
     FailLocationIInv DEF CallStep
<1>5. CASE UNCHANGED vars
  BY <1>5 DEF vars, IInv, TypeOK, CallInv, MaxOf, CountersExact,
     CountersBounded, Holders
<1> QED BY <1>1, <1>2, <1>3, <1>4, <1>5 DEF Next, BufferCall

(* The inductive invariant holds in every reachable state.                 *)
THEOREM Invariance == Spec => []IInv
  BY InitIInv, NextIInv, PTL DEF Spec

(* All variables keep their types.                                         *)
THEOREM TypeCorrect == Spec => []TypeOK
  BY Invariance, PTL DEF IInv

(* However the compare-exchange loops of the objects interleave, the       *)
(* counters are the numbers of voices that are held.                       *)
THEOREM CountersAreExact == Spec => []CountersExact
  BY Invariance, PTL DEF IInv

(* The counters never pass their maximum and never fall below zero.        *)
THEOREM CountersAreBounded == Spec => []CountersBounded
  BY Invariance, PTL DEF IInv

-----------------------------------------------------------------------------
(* The counters implement VoicePool: the successful compare-exchange is    *)
(* the step that takes a voice, the start of a setLocation that moves a    *)
(* buffer and the disposal of a buffer are the steps that give one back.   *)

(* Nobody holds two voices.                                                *)
LEMMA OneVoice ==
  ASSUME IInv, NEW b \in Buffers, NEW j \in Kinds, NEW k \in Kinds,
         b \in Holders(j), b \in Holders(k)
  PROVE  j = k
BY ParentAssumption DEF Holders, IInv, CallInv, Idle, Kinds

(* What a step may do to the voices that are held.                         *)
LEMMA VoicesMove ==
  ASSUME IInv, [Next]_vars
  PROVE  \/ \A k \in Kinds : Holders(k)' = Holders(k)
         \/ \E b \in Buffers :
              \A k \in Kinds : Holders(k)' = Holders(k) \ {b}
         \/ \E b \in Buffers, k \in Kinds :
              /\ \A j \in Kinds : b \notin Holders(j)
              /\ count[k] < MaxOf(k)
              /\ Holders(k)' = Holders(k) \cup {b}
              /\ \A j \in Kinds \ {k} : Holders(j)' = Holders(j)
<1>1. ASSUME NEW b \in Buffers, CreateFixed(b) \/ Locate(b)
      PROVE  \A k \in Kinds : Holders(k)' = Holders(k) \ {b}
  <2>1. PICK want \in Wants : BeginLocation(b, want)
    BY <1>1 DEF CreateFixed, Locate
  <2> QED
    BY <1>1, <2>1, BeginLocationIInv DEF CreateFixed, Locate, IInv, TypeOK
<1>2. ASSUME NEW b \in Buffers,
             CreateDeferred(b) \/ Start(b) \/ Halt(b) \/ SetEaxProperty(b)
      PROVE  \A k \in Kinds : Holders(k)' = Holders(k)
  BY <1>2, QuietCallsIInv
<1>3. ASSUME NEW o \in Objects,
             \/ LoadCount(o) \/ CasFails(o) \/ PlaceBuffer(o)
             \/ FailLocation(o)
      PROVE  \A k \in Kinds : Holders(k)' = Holders(k)
  BY <1>3, LoadOrCasFailsIInv, PlaceBufferIInv, FailLocationIInv
<1>4. CASE UNCHANGED vars
  BY <1>4 DEF vars, Holders
<1> QED
  BY <1>1, <1>2, <1>3, <1>4, DisposeIInv, CasSucceedsIInv
  DEF Next, BufferCall, CallStep

(* The pool counts as the counters do.                                     *)
LEMMA SameCardinality == \A S : Pool!Cardinality(S) = Cardinality(S)
BY DEF Pool!Cardinality, Cardinality

(* A step that leaves the voices, gives one back or takes one is a step of *)
(* the pool.                                                               *)
LEMMA PoolStep ==
  IInv /\ [Next]_vars => [Pool!Next]_([k \in Kinds |-> Holders(k)])
<1> SUFFICES ASSUME IInv, [Next]_vars
             PROVE  [Pool!Next]_([k \in Kinds |-> Holders(k)])
  OBVIOUS
<1> DEFINE held == [k \in Kinds |-> Holders(k)]
<1>1. CASE \A k \in Kinds : Holders(k)' = Holders(k)
  BY <1>1
<1>2. ASSUME NEW b \in Buffers,
             \A k \in Kinds : Holders(k)' = Holders(k) \ {b}
      PROVE  held' = held \/ \E k \in Kinds : Pool!GiveBack(b, k)
  <2>1. CASE \A k \in Kinds : b \notin Holders(k)
    BY <1>2, <2>1
  <2>2. ASSUME NEW k \in Kinds, b \in Holders(k)
        PROVE  Pool!GiveBack(b, k)
    <3>1. \A j \in Kinds \ {k} : b \notin Holders(j)
      BY <2>2, OneVoice
    <3>2. held' = [held EXCEPT ![k] = @ \ {b}]
      BY <1>2, <3>1
    <3> QED BY <2>2, <3>2 DEF Pool!GiveBack
  <2> QED BY <2>1, <2>2
<1>3. ASSUME NEW b \in Buffers, NEW k \in Kinds,
             \A j \in Kinds : b \notin Holders(j),
             count[k] < MaxOf(k),
             Holders(k)' = Holders(k) \cup {b},
             \A j \in Kinds \ {k} : Holders(j)' = Holders(j)
      PROVE  Pool!Take(b, k)
  <2>1. held' = [held EXCEPT ![k] = @ \cup {b}]
    BY <1>3
  <2>2. Cardinality(Holders(k)) < MaxOf(k)
    BY <1>3 DEF IInv, CountersExact
  <2> QED BY <1>3, <2>1, <2>2, SameCardinality DEF Pool!Take, Pool!Holds
<1> QED BY <1>1, <1>2, <1>3, VoicesMove DEF Pool!Next

(* The compare-exchange loops of any number of objects together do what an *)
(* atomic pool does: a voice is taken in one step, by somebody who has     *)
(* none, and only while one is left.                                       *)
THEOREM CountersImplementPool == Spec => ImplementsVoicePool
<1>1. Init => Pool!Init
  <2> SUFFICES ASSUME Init
               PROVE  [k \in Kinds |-> Holders(k)] = [k \in Kinds |-> {}]
    BY DEF Pool!Init
  <2>1. \A k \in Kinds : Holders(k) = {}
    BY ParentAssumption DEF Init, Holders, Idle, Kinds
  <2> QED BY <2>1
<1> QED
  BY <1>1, Invariance, PoolStep, PTL DEF Spec, ImplementsVoicePool, Pool!Spec

-----------------------------------------------------------------------------
(* Every source of a buffer that has no voice was generated by a property, *)
(* which the history tells.                                                *)
SourcesLocated ==
  ~strayed => \A b \in sources : location[b] # "None"

BackedInv == IInv /\ SourcesLocated /\ VoicesAreBacked

(* When a buffer that took a voice is about to generate its source, OpenAL *)
(* has one left: the sources there are belong to other buffers that hold a *)
(* voice, and there are as many sources as voices.                         *)
LEMMA SourceIsLeft ==
  ASSUME BackedInv, ~strayed, NEW o \in Objects, call[o].pc = "place"
  PROVE  Cardinality(sources) < MaxHw + MaxSw
<1>0. PICK b : b = call[o].buf
  OBVIOUS
<1> DEFINE H == Holders("Hardware")
           S == Holders("Software")
<1>1. /\ b \in Buffers /\ call[o].kind \in Kinds
      /\ Parent[b] = o /\ location[b] = "None"
  BY <1>0, CallShape DEF BackedInv, IInv, TypeOK, CallInv, Idle
<1>2. b \in H \cup S /\ b \notin sources
  BY <1>0, <1>1 DEF BackedInv, SourcesLocated, Holders, Kinds
<1>3. sources \cup {b} \subseteq H \cup S
  <2> SUFFICES ASSUME NEW c \in sources PROVE c \in H \cup S
    BY <1>2
  <2> QED BY DEF BackedInv, SourcesLocated, IInv, TypeOK, LocStatus, Kinds,
              Holders
<1>4. IsFiniteSet(H) /\ IsFiniteSet(S) /\ H \cap S = {}
  BY HoldersFinite, OneVoice DEF Kinds, Holders, BackedInv
<1>5. /\ IsFiniteSet(H \cup S)
      /\ Cardinality(H \cup S) = Cardinality(H) + Cardinality(S)
  <2>1. /\ IsFiniteSet(H \cup S)
        /\ Cardinality(H \cup S) =
             Cardinality(H) + Cardinality(S) - Cardinality(H \cap S)
    BY <1>4, FS_Union
  <2>2. Cardinality(H \cap S) = 0
    BY <1>4, FS_EmptySet
  <2> QED BY <2>1, <2>2, HoldersFinite DEF Kinds
<1>6. Cardinality(H) <= MaxHw /\ Cardinality(S) <= MaxSw
  BY DEF BackedInv, IInv, CountersExact, CountersBounded, MaxOf, Kinds
<1>7. /\ IsFiniteSet(sources) /\ Cardinality(sources) \in Nat
      /\ Cardinality(sources \cup {b}) = Cardinality(sources) + 1
      /\ Cardinality(sources \cup {b}) <= Cardinality(H \cup S)
  <2>1. IsFiniteSet(sources)
    BY FiniteAssumption, FS_Subset DEF BackedInv, IInv, TypeOK
  <2> QED
    BY <1>2, <1>3, <1>5, <2>1, FS_Subset, FS_AddElement, FS_CardinalityType
<1> QED
  BY <1>5, <1>6, <1>7, HoldersFinite, MaxAssumption DEF Kinds

LEMMA InitBackedInv == Init => BackedInv
BY InitIInv DEF Init, BackedInv, SourcesLocated, VoicesAreBacked, Playing

LEMMA BeginLocationBackedInv ==
  ASSUME BackedInv, NEW b \in Buffers, CreateFixed(b) \/ Locate(b)
  PROVE  SourcesLocated' /\ VoicesAreBacked'
<1>1. PICK want \in Wants : BeginLocation(b, want)
  BY DEF CreateFixed, Locate
<1>2. /\ UNCHANGED strayed
      /\ ~Playing(b) /\ ~Playing(b)'
      /\ \A c \in Buffers \ {b} : buffer'[c] = buffer[c]
  BY DEF CreateFixed, Locate, Playing, BackedInv, IInv, TypeOK
<1>3. \/ UNCHANGED <<location, sources>>
      \/ /\ location' = [location EXCEPT ![b] = "None"]
         /\ sources' = sources \ {b}
  BY <1>1 DEF BeginLocation
<1> QED
  BY <1>2, <1>3
  DEF BackedInv, SourcesLocated, VoicesAreBacked, Playing, IInv, TypeOK

LEMMA PlaceBufferBackedInv ==
  ASSUME BackedInv, NEW o \in Objects, PlaceBuffer(o)
  PROVE  SourcesLocated' /\ VoicesAreBacked'
<1>0. PICK b : b = call[o].buf
  OBVIOUS
<1>1. /\ b \in Buffers /\ call[o].kind \in Kinds
      /\ location[b] = "None" /\ ~Playing(b)
  BY <1>0, CallShape
  DEF BackedInv, IInv, TypeOK, CallInv, Idle, PlaceBuffer, Playing
<1>2. /\ location' = [location EXCEPT ![b] = call[o].kind]
      /\ sources' = IF b \in sources \/ Cardinality(sources) < MaxHw + MaxSw
                    THEN sources \cup {b} ELSE sources
      /\ \/ UNCHANGED buffer
         \/ /\ b \in sources'
            /\ buffer' = [buffer EXCEPT ![b] = "deferredPlaying"]
      /\ UNCHANGED strayed
  BY <1>0 DEF PlaceBuffer, Generate
<1>3. call[o].kind # "None"
  BY <1>1 DEF Kinds
<1>4. ~strayed => sources' = sources \cup {b}
  BY <1>2, SourceIsLeft DEF PlaceBuffer
<1> QED
  BY <1>1, <1>2, <1>3, <1>4
  DEF BackedInv, SourcesLocated, VoicesAreBacked, Playing, IInv, TypeOK

LEMMA NextBackedInv == BackedInv /\ [Next]_vars => BackedInv'
<1> SUFFICES ASSUME BackedInv, [Next]_vars
             PROVE  SourcesLocated' /\ VoicesAreBacked'
  BY NextIInv DEF BackedInv
<1> USE DEF BackedInv, SourcesLocated, VoicesAreBacked, Playing, IInv, TypeOK
<1>1. ASSUME NEW b \in Buffers, CreateDeferred(b) \/ Start(b) \/ Halt(b)
      PROVE  SourcesLocated' /\ VoicesAreBacked'
  BY <1>1 DEF CreateDeferred, Start, Halt
<1>2. ASSUME NEW b \in Buffers, SetEaxProperty(b)
      PROVE  SourcesLocated' /\ VoicesAreBacked'
  BY <1>2 DEF SetEaxProperty, Generate
<1>3. ASSUME NEW b \in Buffers, Dispose(b)
      PROVE  SourcesLocated' /\ VoicesAreBacked'
  BY <1>3 DEF Dispose
<1>4. ASSUME NEW o \in Objects,
             LoadCount(o) \/ CasSucceeds(o) \/ CasFails(o)
      PROVE  SourcesLocated' /\ VoicesAreBacked'
  BY <1>4 DEF LoadCount, CasSucceeds, CasFails
<1>5. ASSUME NEW o \in Objects, FailLocation(o)
      PROVE  SourcesLocated' /\ VoicesAreBacked'
  BY <1>5 DEF FailLocation
<1>6. CASE UNCHANGED vars
  BY <1>6 DEF vars
<1> QED
  BY <1>1, <1>2, <1>3, <1>4, <1>5, <1>6, BeginLocationBackedInv,
     PlaceBufferBackedInv
  DEF Next, BufferCall, CallStep

LEMMA Backed == Spec => []BackedInv
BY InitBackedInv, NextBackedInv, PTL DEF Spec

(* alGenSources does not fail when setLocation calls it, though its result *)
(* is not looked at, as long as no property generated a source without a   *)
(* voice; and a buffer that plays always has a voice and a source.         *)
THEOREM VoicesBacked == Spec => []VoicesAreBacked
BY Backed, PTL DEF BackedInv

(* No call of any object takes the voice or the source of a buffer that    *)
(* plays.                                                                  *)
THEOREM PlayingKeeps == Spec => PlayingKeepsVoice
<1>1. BackedInv /\ [Next]_vars =>
        [\A b \in Buffers : Playing(b) /\ Playing(b)' =>
           location'[b] = location[b] /\ (b \in sources' <=> b \in sources)]_vars
  <2> SUFFICES ASSUME BackedInv, Next, NEW b \in Buffers,
                      Playing(b), Playing(b)'
               PROVE  /\ location'[b] = location[b]
                      /\ b \in sources' <=> b \in sources
    OBVIOUS
  <2> USE DEF BackedInv, IInv, TypeOK, Playing
  <2>1. ASSUME NEW c \in Buffers, CreateFixed(c) \/ Locate(c)
        PROVE  /\ location'[b] = location[b]
               /\ b \in sources' <=> b \in sources
    <3>1. c # b
      BY <2>1 DEF CreateFixed, Locate
    <3> QED BY <2>1, <3>1 DEF CreateFixed, Locate, BeginLocation
  <2>2. ASSUME NEW c \in Buffers,
               CreateDeferred(c) \/ Start(c) \/ Halt(c) \/ SetEaxProperty(c)
        PROVE  /\ location'[b] = location[b]
               /\ b \in sources' <=> b \in sources
    BY <2>2 DEF CreateDeferred, Start, Halt, SetEaxProperty, Generate
  <2>3. ASSUME NEW c \in Buffers, Dispose(c)
        PROVE  /\ location'[b] = location[b]
               /\ b \in sources' <=> b \in sources
    BY <2>3 DEF Dispose
  <2>4. ASSUME NEW o \in Objects, PlaceBuffer(o)
        PROVE  /\ location'[b] = location[b]
               /\ b \in sources' <=> b \in sources
    <3>1. call[o].buf # b
      BY <2>4 DEF PlaceBuffer, CallInv, Idle
    <3> QED BY <2>4, <3>1 DEF PlaceBuffer, Generate
  <2>5. ASSUME NEW o \in Objects,
               \/ LoadCount(o) \/ CasSucceeds(o) \/ CasFails(o)
               \/ FailLocation(o)
        PROVE  /\ location'[b] = location[b]
               /\ b \in sources' <=> b \in sources
    BY <2>5 DEF LoadCount, CasSucceeds, CasFails, FailLocation
  <2> QED BY <2>1, <2>2, <2>3, <2>4, <2>5 DEF Next, BufferCall, CallStep
<1> QED BY <1>1, Backed, PTL DEF Spec, PlayingKeepsVoice

-----------------------------------------------------------------------------
(* Dividing and rounding down, for a positive divisor.                     *)
LEMMA Quotient ==
  ASSUME NEW a \in Nat, NEW d \in Nat \ {0}
  PROVE  /\ a \div d \in Nat
         /\ d * (a \div d) <= a /\ a < d * (a \div d) + d
  OBVIOUS

(* CreateDeviceShare splits what alcGetIntegerv reports, of any size.      *)
THEOREM SplitIsExact ==
  ASSUME NEW mono \in Int, NEW stereo \in Int
  PROVE  VoicesAreSources(mono, stereo)
  BY LimitsAssumption
  DEF VoicesAreSources, TotalSources, AtLeastZero, IsAccepted, HwLimit, SwLimit

(* DSound8OAL::Initialize prepares enough groups for any number of voices. *)
THEOREM GroupsAreEnough ==
  ASSUME NEW hw \in Nat
  PROVE  GroupsSuffice(hw)
<1> DEFINE a == hw + GroupSize - 1
<1>1. a \in Nat /\ GroupSize \in Nat \ {0}
  BY LimitsAssumption
<1>2. /\ Groups(hw) \in Nat
      /\ GroupSize * Groups(hw) <= a /\ a < GroupSize * Groups(hw) + GroupSize
  BY <1>1, Quotient DEF Groups
<1>3. GroupSize * Groups(hw) = Groups(hw) * GroupSize
  BY <1>1, <1>2
<1> QED BY <1>1, <1>2, <1>3 DEF GroupsSuffice

(* notifyThread waits, and not for too long, at any rate of the device.    *)
THEOREM PollsArePaced ==
  ASSUME NEW r \in Int
  PROVE  ThreadIsPaced(r)
<1> DEFINE n == Refresh(r)
           q == 1000 \div n
<1>1. n \in Nat \ {0} /\ 20 <= n /\ n <= 100
  BY DEF Refresh
<1>2. q \in Nat /\ n * q <= 1000 /\ 1000 < n * q + n
  BY <1>1, Quotient
<1>3. q >= 2
  <2> SUFFICES ASSUME q < 2 PROVE FALSE  BY <1>2
  <2>1. q = 0 \/ q = 1  BY <1>2
  <2> QED BY <1>1, <1>2, <2>1
<1>4. WaitTime(n) = (3 * q) \div 5
  BY <1>2 DEF WaitTime
<1>5. WaitTime(n) \in Nat /\ 0 < WaitTime(n) /\ 5 * WaitTime(n) <= 3 * q
  <2> HIDE DEF q, n
  <2> QED BY <1>2, <1>3, <1>4
<1>6. 5 * (n * WaitTime(n)) <= 3 * (n * q)
  <2>1. n * (5 * WaitTime(n)) <= n * (3 * q)
    BY <1>1, <1>2, <1>5
  <2> QED BY <1>1, <1>2, <1>5, <2>1
<1>7. n * WaitTime(n) <= 600
  BY <1>1, <1>2, <1>5, <1>6
<1> QED BY <1>1, <1>5, <1>7 DEF ThreadIsPaced
=============================================================================
