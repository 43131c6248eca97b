---------------------------- MODULE CaptureProofs ----------------------------
(***************************************************************************)
(* Capture for any size of the ring, the frame and the reads, any number   *)
(* of threads and any notifications; LockRegions, by which an application  *)
(* gets at the ring and at the data of a buffer, for every size, offset    *)
(* and width of a DWORD; and WaveFormats for every format, channel mask,   *)
(* rate and size, and for every set of OpenAL extensions.                  *)
(***************************************************************************)
EXTENDS Capture, WaveFormats, FiniteSetTheorems, TLAPS

-----------------------------------------------------------------------------
(* Division.                                                               *)

LEMMA SmallMod ==
  ASSUME NEW n \in Nat, NEW m \in Nat, n < m
  PROVE  n % m = n
OBVIOUS

LEMMA WrappedMod ==
  ASSUME NEW n \in Nat, NEW m \in Nat \ {0}, m <= n, n < 2 * m
  PROVE  n % m = n - m
OBVIOUS

LEMMA DivMod ==
  ASSUME NEW n \in Nat, NEW m \in Nat \ {0}
  PROVE  n \div m \in Nat /\ n - (n % m) = (n \div m) * m
OBVIOUS

LEMMA ModBounds ==
  ASSUME NEW n \in Nat, NEW m \in Nat \ {0}
  PROVE  n % m \in 0 .. m - 1 /\ n % m <= n
OBVIOUS

\* A quotient is known by what it leaves.
LEMMA Quotient ==
  ASSUME NEW n \in Int, NEW m \in Nat \ {0}, NEW q \in Int, NEW r \in 0 .. m - 1,
         n = q * m + r
  PROVE  n \div m = q /\ n % m = r
OBVIOUS

LEMMA IntDivMod ==
  ASSUME NEW n \in Int, NEW m \in Nat \ {0}
  PROVE  /\ n \div m \in Int /\ n % m \in 0 .. m - 1
         /\ n = (n \div m) * m + (n % m)
OBVIOUS

LEMMA Shifted ==
  ASSUME NEW n \in Int, NEW m \in Nat \ {0}, NEW k \in Int
  PROVE  (n + k * m) \div m = n \div m + k /\ (n + k * m) % m = n % m
<1> DEFINE q == n \div m
           r == n % m
<1>1. q \in Int /\ r \in 0 .. m - 1 /\ n = q * m + r
  BY IntDivMod
<1> HIDE DEF q, r
<1>2. n + k * m = (q + k) * m + r /\ n + k * m \in Int
  BY <1>1
<1>3. (n + k * m) \div m = q + k /\ (n + k * m) % m = r
  <2> DEFINE p == n + k * m
  <2>1. p = (q + k) * m + r /\ p \in Int /\ q + k \in Int
    BY <1>1, <1>2
  <2> HIDE DEF p
  <2>2. p \div m = q + k /\ p % m = r
    BY <1>1, <2>1, Quotient
  <2> QED BY <2>2 DEF p
<1> QED BY <1>3 DEF q, r

LEMMA SumMod ==
  ASSUME NEW n \in Int, NEW m \in Nat \ {0}, NEW k \in Int
  PROVE  ((n % m) + k) % m = (n + k) % m
<1> DEFINE q == n \div m
           r == n % m
<1>1. q \in Int /\ r \in 0 .. m - 1 /\ n = q * m + r
  BY IntDivMod
<1> HIDE DEF q, r
<1>2. n + k = (r + k) + q * m
  BY <1>1
<1>3. PICK s \in Int : s = r + k
  BY <1>1
<1>4. (s + q * m) % m = s % m
  BY <1>1, <1>3, Shifted
<1> QED BY <1>2, <1>3, <1>4 DEF r

\* Counted from the other end of n whole frames.
LEMMA Mirrored ==
  ASSUME NEW n \in Nat, NEW m \in Nat \ {0}, NEW x \in Nat
  PROVE  (n * m - 1 - x) \div m = n - 1 - (x \div m)
<1> DEFINE q == x \div m
           r == x % m
           y == n * m - 1 - x
<1>1. q \in Int /\ r \in 0 .. m - 1 /\ x = q * m + r
  BY IntDivMod
<1> HIDE DEF q, r
<1>2. y = (n - 1 - q) * m + (m - 1 - r)
  BY <1>1
<1>3. y \in Int /\ n - 1 - q \in Int /\ m - 1 - r \in 0 .. m - 1
  BY <1>1
<1> HIDE DEF y
<1>4. y \div m = n - 1 - q
  BY <1>2, <1>3, Quotient
<1> QED BY <1>4 DEF q, y

LEMMA Turned ==
  ASSUME NEW m \in Nat \ {0}, NEW n \in Int, -m <= n, n < 2 * m
  PROVE  n % m = IF n < 0 THEN n + m ELSE IF n < m THEN n ELSE n - m
<1>1. CASE n < 0
  <2>1. n = (-1) * m + (n + m) /\ n + m \in 0 .. m - 1
    BY <1>1
  <2> QED BY <1>1, <2>1, Quotient
<1>2. CASE 0 <= n /\ n < m
  BY <1>2, SmallMod
<1>3. CASE m <= n
  <2>1. n = 1 * m + (n - m) /\ n - m \in 0 .. m - 1
    BY <1>3
  <2>2. n % m = n - m
    BY <2>1, Quotient
  <2> QED BY <1>3, <2>2
<1> QED BY <1>1, <1>2, <1>3

\* A multiple that is less than another is so by a whole frame.
LEMMA WholeFrames ==
  ASSUME NEW m \in Nat \ {0}, NEW a \in Nat, NEW b \in Nat,
         a % m = 0, b % m = 0, a < b
  PROVE  a + m <= b
<1> DEFINE p == a \div m
           q == b \div m
<1>1. p \in Nat /\ q \in Nat /\ a = p * m /\ b = q * m
  BY DivMod
<1> HIDE DEF p, q
<1>2. p < q
  <2> SUFFICES ASSUME q <= p PROVE FALSE
    BY <1>1
  <2>1. p = q + (p - q) /\ p - q \in Nat
    BY <1>1
  <2>2. PICK d \in Nat : p = q + d
    BY <2>1
  <2>3. p * m = q * m + d * m /\ d * m \in Nat
    BY <1>1, <2>2
  <2> QED BY <1>1, <2>3
<1>3. PICK d \in Nat : q = p + 1 + d
  <2>1. q - p - 1 \in Nat /\ q = p + 1 + (q - p - 1)
    BY <1>1, <1>2
  <2> QED BY <2>1
<1>4. q * m = p * m + m + d * m /\ d * m \in Nat
  BY <1>1, <1>3
<1> QED BY <1>1, <1>4

-----------------------------------------------------------------------------
(* The references of all threads, which are the size of a set of pairs.    *)

Units(f) == {h \in Threads \X (1 .. MaxRefs) : h[2] <= f[h[1]]}
Sum(f) == Cardinality(Units(f))

LEMMA SumBound ==
  ASSUME NEW f
  PROVE  /\ IsFiniteSet(Units(f)) /\ Sum(f) \in 0 .. MaxRefs * Cardinality(Threads)
<1> DEFINE P == Threads \X (1 .. MaxRefs)
<1>1. IsFiniteSet(1 .. MaxRefs) /\ Cardinality(1 .. MaxRefs) = MaxRefs
  BY RefsAssumption, FS_Interval
<1>2. Cardinality(Threads) \in Nat
  BY RefsAssumption, FS_CardinalityType
<1>3. IsFiniteSet(P) /\ Cardinality(P) = Cardinality(Threads) * Cardinality(1 .. MaxRefs)
  BY <1>1, RefsAssumption, FS_Product
<1>4. Cardinality(P) = MaxRefs * Cardinality(Threads) /\ Cardinality(P) \in Nat
  BY <1>1, <1>2, <1>3, RefsAssumption
<1>5. Units(f) \subseteq P
  BY DEF Units
<1> HIDE DEF P
<1>6. IsFiniteSet(Units(f)) /\ Cardinality(Units(f)) <= Cardinality(P)
  BY <1>3, <1>5, FS_Subset
<1>7. Cardinality(Units(f)) \in Nat
  BY <1>6, FS_CardinalityType
<1> QED BY <1>4, <1>6, <1>7 DEF Sum

(* One thread gets a reference or drops one.                               *)
LEMMA SumGrows ==
  ASSUME NEW f \in [Threads -> 0 .. MaxRefs], NEW t \in Threads, f[t] < MaxRefs
  PROVE  Sum([f EXCEPT ![t] = @ + 1]) = Sum(f) + 1
<1> DEFINE g == [f EXCEPT ![t] = @ + 1]
           new == <<t, f[t] + 1>>
<1>1. Units(g) = Units(f) \cup {new}
  BY RefsAssumption DEF Units
<1>2. new \notin Units(f)
  BY RefsAssumption DEF Units
<1>3. IsFiniteSet(Units(f)) /\ Sum(f) \in Nat
  BY SumBound, RefsAssumption, FS_CardinalityType DEF Sum
<1> HIDE DEF new, g
<1>4. Sum(g) = Sum(f) + 1
  BY <1>1, <1>2, <1>3, FS_AddElement DEF Sum
<1> QED BY <1>4 DEF g

LEMMA SumShrinks ==
  ASSUME NEW f \in [Threads -> 0 .. MaxRefs], NEW t \in Threads, f[t] > 0
  PROVE  Sum([f EXCEPT ![t] = @ - 1]) = Sum(f) - 1
<1> DEFINE g == [f EXCEPT ![t] = @ - 1]
           gone == <<t, f[t]>>
<1>1. Units(g) = Units(f) \ {gone}
  BY RefsAssumption DEF Units
<1>2. gone \in Units(f)
  BY RefsAssumption DEF Units
<1>3. IsFiniteSet(Units(f)) /\ Sum(f) \in Nat /\ Sum(g) \in Nat
  BY SumBound, RefsAssumption, FS_CardinalityType DEF Sum
<1> HIDE DEF gone, g
<1>4. Sum(g) = Sum(f) - 1
  BY <1>1, <1>2, <1>3, FS_RemoveElement DEF Sum
<1> QED BY <1>3, <1>4 DEF g

LEMMA SumOfSome ==
  ASSUME NEW f \in [Threads -> 0 .. MaxRefs], NEW t \in Threads, f[t] > 0
  PROVE  Sum(f) > 0
<1>1. Sum([f EXCEPT ![t] = @ - 1]) = Sum(f) - 1
  BY SumShrinks
<1>2. Sum(f) \in 0 .. MaxRefs * Cardinality(Threads)
      /\ Sum([f EXCEPT ![t] = @ - 1]) \in 0 .. MaxRefs * Cardinality(Threads)
  BY SumBound
<1>3. MaxRefs * Cardinality(Threads) \in Nat
  BY RefsAssumption, FS_CardinalityType
<1> QED BY <1>1, <1>2, <1>3

LEMMA SumOfNone ==
  ASSUME NEW f \in [Threads -> 0 .. MaxRefs]
  PROVE  Sum(f) = 0 <=> \A t \in Threads : f[t] = 0
<1>1. ASSUME Sum(f) = 0, NEW t \in Threads, f[t] # 0
      PROVE  FALSE
  <2>1. f[t] \in 0 .. MaxRefs /\ f[t] > 0
    BY <1>1, RefsAssumption
  <2>2. Sum(f) > 0
    BY <2>1, SumOfSome
  <2> QED BY <1>1, <2>2
<1>2. ASSUME \A t \in Threads : f[t] = 0
      PROVE  Sum(f) = 0
  <2>1. Units(f) = {}
    BY <1>2 DEF Units
  <2> QED BY <2>1, FS_EmptySet DEF Sum
<1> QED BY <1>1, <1>2

-----------------------------------------------------------------------------
(* The inductive invariant.                                                *)

InStop == {"Stopping", "Joining", "Joined"}
Places == {"Entering", "Checking", "Sleeping", "Reading", "Notifying", "Exited"}

Types ==
  /\ mCapturing \in BOOLEAN /\ mQuitNow \in BOOLEAN /\ recording \in BOOLEAN
  /\ thread \in Places \cup {"None"}
  /\ refs \in [Threads -> 0 .. MaxRefs]
  /\ pc \in [Threads -> InStop \cup {"Idle", "Closing"}]

(* A thread in Stop holds a reference; of those in the destructor there is *)
(* one at most, and it holds none.                                         *)
CallInv ==
  /\ mTotalRef = Sum(refs)
  /\ \A t \in Threads :
       /\ pc[t] \in InStop =>
            t \in Stoppers /\ refs[t] > 0 /\ mCapturing /\ ~recording
       /\ pc[t] = "Joined" => thread = "None"
       /\ pc[t] = "Closing" =>
            mTotalRef = 0 /\ \A u \in Threads : pc[u] = "Closing" => u = t

Exists == mTotalRef > 0 \/ \E t \in Threads : pc[t] = "Closing"

Blank ==
  /\ mWritePos = 0 /\ writepos = 0 /\ oldpos = 0 /\ passed = 0
  /\ ~mCapturing /\ mNotifies = {} /\ fired = {} /\ avail = 0 /\ taken = 0

(* The object exists from CreateCaptureBuffer to the end of its destructor,*)
(* and it captures as long as it has a thread.                             *)
LifeInv ==
  /\ size \in Sizes \cup {0} /\ size % Align = 0
  /\ size > 0 <=> Exists
  /\ ~Exists => Blank
  /\ ~mCapturing => thread = "None" /\ ~recording

CountInv ==
  /\ avail \in Nat /\ availframes \in Nat /\ taken \in Nat /\ passed \in Nat
  /\ taken + avail <= MaxSamples /\ availframes <= avail /\ passed <= taken
  /\ thread # "Reading" => availframes = 0
  /\ thread = "Entering" => passed = 0

Position(p) == p \in Nat /\ p % Align = 0 /\ (size > 0 => p < size)

(* The thread's variables are apart by what it read since it woke up.      *)
PlaceInv ==
  /\ Position(mWritePos) /\ Position(writepos) /\ Position(oldpos)
  /\ thread = "Reading" => oldpos = mWritePos
  /\ thread = "Reading" \/ passed > 0 =>
       writepos = (oldpos + passed * Align) % size

NoteInv ==
  /\ mNotifies \subseteq {o \in Offsets : o < size \/ o = StopOffset}
  /\ fired \subseteq mNotifies \cup {StopOffset}
  /\ ~mCapturing => fired \subseteq {StopOffset}
  /\ StopOffset \in fired => thread = "None"
  /\ thread = "Checking" /\ passed > 0 => fired = {o \in mNotifies : Captured(o)}

(* How many frames byte j is back from a position, around the ring, and    *)
(* where the latest frame ends: every byte that was written holds the      *)
(* sample of its distance.                                                 *)
BackOf(end, j) ==
  1 + ((IF j < end THEN end - 1 - j ELSE end + size - 1 - j) \div Align)
End == IF thread = "Reading" THEN writepos ELSE mWritePos

RingInv ==
  /\ mBuffer = [j \in 0 .. size - 1 |-> mBuffer[j]]
  /\ \A j \in 0 .. size - 1 :
       /\ mBuffer[j] \in 0 .. MaxSamples
       /\ BackOf(End, j) <= taken => mBuffer[j] = taken - BackOf(End, j) + 1

Facts == Types /\ CallInv /\ LifeInv /\ CountInv /\ PlaceInv /\ NoteInv
IInv == Facts /\ RingInv

-----------------------------------------------------------------------------
(* What the invariant says of an object that captures.                     *)
LEMMA Capturing ==
  ASSUME LifeInv, mCapturing \/ thread # "None" \/ recording
  PROVE  mCapturing /\ Exists /\ size \in Nat \ {0}
BY SizesAssumption DEF LifeInv, Blank

LEMMA Held ==
  ASSUME Types, CallInv, LifeInv, NEW t \in Threads, refs[t] > 0
  PROVE  mTotalRef \in Nat \ {0} /\ Exists /\ size \in Nat \ {0}
         /\ \A u \in Threads : pc[u] # "Closing"
<1>1. Sum(refs) > 0 /\ Sum(refs) \in 0 .. MaxRefs * Cardinality(Threads)
  BY SumOfSome, SumBound DEF Types
<1>2. mTotalRef \in Nat \ {0}
  <2>1. mTotalRef > 0 /\ mTotalRef \in 0 .. MaxRefs * Cardinality(Threads)
    BY <1>1 DEF CallInv
  <2> QED BY <2>1
<1> QED BY <1>2, SizesAssumption DEF CallInv, LifeInv, Exists

LEMMA RingSame ==
  ASSUME RingInv, UNCHANGED <<size, mBuffer, taken>>, End' = End
  PROVE  RingInv'
BY DEF RingInv, BackOf

LEMMA PlaceSame ==
  ASSUME PlaceInv, UNCHANGED <<size, mWritePos, writepos, oldpos>>,
         passed' \in {passed, 0}, thread' # "Reading" \/ UNCHANGED <<thread, passed>>
  PROVE  PlaceInv'
BY DEF PlaceInv, Position

\* A call that leaves the object to the threads.
LEMMA LifeSame ==
  ASSUME LifeInv, Exists, Exists', UNCHANGED size,
         mCapturing' \/ (thread' = "None" /\ ~recording')
  PROVE  LifeInv'
BY DEF LifeInv

LEMMA CountSame ==
  ASSUME CountInv, UNCHANGED <<avail, availframes, taken>>,
         thread = "Reading" <=> thread' = "Reading",
         passed' = 0 \/ (passed' = passed /\ (thread' = "Entering" => thread = "Entering"))
  PROVE  CountInv'
BY DEF CountInv

\* The notes of a pass are looked at once the thread has been there.
LEMMA NoteSame ==
  ASSUME NoteInv, UNCHANGED <<size, mNotifies, fired>>, mCapturing' = mCapturing,
         StopOffset \in fired => thread' = "None",
         thread' # "Checking" \/ passed' = 0
           \/ UNCHANGED <<thread, passed, oldpos, writepos>>
  PROVE  NoteInv'
BY DEF NoteInv, Captured

-----------------------------------------------------------------------------
(* Creation and reference counts.                                          *)

LEMMA CreateKeeps ==
  ASSUME IInv, NEW t \in Threads, CreateCaptureBuffer(t)
  PROVE  IInv'
<1>1. /\ mTotalRef = 0 /\ mTotalRef' = 1
      /\ \A u \in Threads : pc[u] = "Idle"
      /\ refs' = [refs EXCEPT ![t] = 1]
      /\ UNCHANGED <<state, locals, device, mWritePos, taken, thread, pc, fired>>
  BY DEF CreateCaptureBuffer
<1>2. PICK bytes \in Sizes : /\ ValidDescription(bytes) /\ size' = bytes
                             /\ mBuffer' = [i \in 0 .. bytes - 1 |-> 0]
  BY DEF CreateCaptureBuffer
<1>3. bytes \in Nat \ {0} /\ bytes % Align = 0
  BY <1>2, SizesAssumption, AlignAssumption DEF ValidDescription
<1>4. Types /\ CallInv /\ LifeInv /\ CountInv
  BY DEF IInv, Facts
<1>5. ~Exists /\ Blank /\ thread = "None" /\ ~recording /\ size = 0
  <2>1. ~Exists
    BY <1>1 DEF Exists
  <2> QED BY <1>4, <2>1, SizesAssumption DEF LifeInv, Blank
<1>6. \A u \in Threads : refs[u] = 0
  BY <1>1, <1>4, SumOfNone DEF CallInv, Types
<1>0. refs[t] = 0 /\ refs \in [Threads -> 0 .. MaxRefs] /\ 1 \in 0 .. MaxRefs
  BY <1>4, <1>6, RefsAssumption DEF Types
<1>7. refs' = [refs EXCEPT ![t] = @ + 1] /\ refs' \in [Threads -> 0 .. MaxRefs]
  <2>1. refs' = [refs EXCEPT ![t] = refs[t] + 1]
    BY <1>1, <1>0
  <2> QED BY <1>1, <1>0, <2>1
<1>8. Sum(refs') = 1
  <2>1. Sum([refs EXCEPT ![t] = @ + 1]) = Sum(refs) + 1
    <3>1. refs[t] < MaxRefs
      BY <1>0, RefsAssumption
    <3> QED BY <1>0, <3>1, SumGrows
  <2>2. Sum(refs) = 0
    BY <1>1, <1>4 DEF CallInv
  <2> QED BY <1>7, <2>1, <2>2
<1>9. Types'
  BY <1>1, <1>4, <1>7 DEF Types, state, device
<1>10. CallInv'
  BY <1>1, <1>4, <1>8 DEF CallInv, Types, InStop
<1>11. LifeInv'
  <2>1. Exists' /\ size' > 0
    BY <1>1, <1>2, <1>3 DEF Exists
  <2> QED BY <1>1, <1>2, <1>3, <1>5, <2>1 DEF LifeInv, device
<1>12. CountInv'
  BY <1>1, <1>4 DEF CountInv, device, locals, variables
<1>13. PlaceInv'
  <2>1. 0 % Align = 0
    BY AlignAssumption
  <2> QED BY <1>1, <1>2, <1>3, <1>5, <2>1
           DEF PlaceInv, Position, Blank, locals, variables
<1>14. NoteInv'
  BY <1>1, <1>5 DEF NoteInv, Blank, state
<1>15. RingInv'
  <2>1. End' = 0 /\ taken' = 0
    BY <1>1, <1>5 DEF End, Blank
  <2>2. ASSUME NEW j \in 0 .. bytes - 1
        PROVE  BackOf(0, j)' > 0
    <3>1. bytes - 1 - j \in Nat /\ 0 + size' - 1 - j = bytes - 1 - j
      BY <1>2, <1>3
    <3>2. (bytes - 1 - j) \div Align \in Nat
      BY <3>1, DivMod, AlignAssumption
    <3> QED BY <2>2, <3>1, <3>2 DEF BackOf
  <2>3. 0 \in 0 .. MaxSamples
    BY AheadAssumption
  <2>4. ASSUME NEW j \in 0 .. size' - 1
        PROVE  mBuffer'[j] \in 0 .. MaxSamples /\ ~(BackOf(End, j)' <= taken')
    <3>1. BackOf(0, j)' > 0 /\ BackOf(End, j)' = BackOf(0, j)'
      BY <1>2, <2>1, <2>2 DEF BackOf
    <3>2. BackOf(0, j)' \in Int
      BY <1>2, <1>3, AlignAssumption DEF BackOf
    <3> QED BY <1>2, <2>1, <2>3, <3>1, <3>2
  <2>5. mBuffer' = [j \in 0 .. size' - 1 |-> mBuffer'[j]]
    BY <1>2
  <2> QED BY <2>4, <2>5 DEF RingInv
<1> QED BY <1>9, <1>10, <1>11, <1>12, <1>13, <1>14, <1>15 DEF IInv, Facts

LEMMA AddRefKeeps ==
  ASSUME IInv, NEW t \in Threads, NEW u \in Threads, AddRef(t, u)
  PROVE  IInv'
<1>1. /\ refs[t] > 0 /\ refs[u] < MaxRefs /\ mTotalRef' = mTotalRef + 1
      /\ refs' = [refs EXCEPT ![u] = @ + 1]
      /\ UNCHANGED <<size, state, locals, device, ring, thread, pc, fired>>
  BY DEF AddRef, CanCall
<1>2. Types /\ CallInv /\ LifeInv /\ CountInv /\ PlaceInv /\ NoteInv /\ RingInv
  BY DEF IInv, Facts
<1>3. /\ mTotalRef \in Nat \ {0} /\ Exists
      /\ \A v \in Threads : pc[v] # "Closing"
  BY <1>1, <1>2, Held
<1>4. refs' \in [Threads -> 0 .. MaxRefs] /\ \A v \in Threads : refs'[v] >= refs[v]
  BY <1>1, <1>2, RefsAssumption DEF Types
<1>5. Sum(refs') = Sum(refs) + 1
  BY <1>1, <1>2, SumGrows DEF Types
<1>6. Types'
  BY <1>1, <1>2, <1>4 DEF Types, state, device
<1>7. CallInv'
  <2>1. mTotalRef' = Sum(refs')
    BY <1>1, <1>2, <1>5 DEF CallInv
  <2>2. ASSUME NEW v \in Threads, pc'[v] \in InStop
        PROVE  v \in Stoppers /\ refs'[v] > 0 /\ mCapturing' /\ ~recording'
    <3>1. refs[v] > 0 /\ refs[v] \in Nat /\ refs'[v] \in Nat
      BY <1>1, <1>2, <1>4, <2>2 DEF CallInv, Types
    <3> QED BY <1>1, <1>2, <1>4, <2>2, <3>1 DEF CallInv, state, device
  <2> QED BY <1>1, <1>2, <1>3, <2>1, <2>2 DEF CallInv
<1>8. Exists'
  BY <1>1, <1>3 DEF Exists
<1>9. LifeInv'
  <2>1. mCapturing' \/ (thread' = "None" /\ ~recording')
    BY <1>1, <1>2 DEF LifeInv, state, device
  <2> QED BY <1>1, <1>2, <1>3, <1>8, <2>1, LifeSame
<1>10. CountInv' /\ PlaceInv' /\ NoteInv'
  BY <1>1, <1>2, CountSame, PlaceSame, NoteSame
     DEF locals, variables, device, ring, state, NoteInv
<1>11. RingInv'
  BY <1>1, <1>2, RingSame DEF End, ring, locals, variables
<1> QED BY <1>6, <1>7, <1>9, <1>10, <1>11 DEF IInv, Facts

LEMMA ReleaseKeeps ==
  ASSUME IInv, NEW t \in Threads, Release(t)
  PROVE  IInv'
<1>1. /\ pc[t] = "Idle" /\ refs[t] > 0 /\ mTotalRef' = mTotalRef - 1
      /\ refs' = [refs EXCEPT ![t] = @ - 1]
      /\ IF mTotalRef = 1
         THEN /\ pc' = [pc EXCEPT ![t] = "Closing"]
              /\ mQuitNow' = (mQuitNow \/ Joinable)
         ELSE UNCHANGED <<pc, mQuitNow>>
      /\ UNCHANGED <<size, mCapturing, mNotifies, locals, device, ring, thread, fired>>
  BY DEF Release, CanCall
<1>2. Types /\ CallInv /\ LifeInv /\ CountInv /\ PlaceInv /\ NoteInv /\ RingInv
  BY DEF IInv, Facts
<1>3. /\ mTotalRef \in Nat \ {0} /\ Exists
      /\ \A v \in Threads : pc[v] # "Closing"
  BY <1>1, <1>2, Held
<1>4. refs' \in [Threads -> 0 .. MaxRefs]
  BY <1>1, <1>2, RefsAssumption DEF Types
<1>5. mTotalRef' = Sum(refs')
  BY <1>1, <1>2, SumShrinks DEF Types, CallInv
<1>6. Types'
  <2>1. mQuitNow' \in BOOLEAN
    BY <1>1, <1>2 DEF Types
  <2>2. pc' \in [Threads -> InStop \cup {"Idle", "Closing"}]
    BY <1>1, <1>2 DEF Types
  <2> QED BY <1>1, <1>2, <1>4, <2>1, <2>2 DEF Types, device
<1>7. ASSUME mTotalRef = 1
      PROVE  CallInv' /\ Exists'
  <2>1. \A v \in Threads : refs'[v] = 0
    <3>1. Sum(refs') = 0
      BY <1>1, <1>5, <1>7
    <3>2. PICK g \in [Threads -> 0 .. MaxRefs] : g = refs'
      BY <1>4
    <3>3. Sum(g) = 0
      BY <3>1, <3>2
    <3> QED BY <3>2, <3>3, SumOfNone
  <2>2. \A v \in Threads \ {t} : refs[v] = 0 /\ pc'[v] = pc[v]
    BY <1>1, <1>2, <1>7, <2>1 DEF Types
  <2>3. pc'[t] = "Closing" /\ mTotalRef' = 0
    BY <1>1, <1>2, <1>7 DEF Types
  <2>4. ASSUME NEW v \in Threads
        PROVE  pc'[v] \notin InStop
    BY <1>2, <2>2, <2>3 DEF CallInv, InStop
  <2>5. \A v \in Threads : pc'[v] = "Closing" => v = t
    BY <1>3, <2>2
  <2>6. CallInv'
    BY <1>5, <2>3, <2>4, <2>5 DEF CallInv, InStop
  <2>7. Exists'
    BY <2>3 DEF Exists
  <2> QED BY <2>6, <2>7
<1>8. ASSUME mTotalRef # 1
      PROVE  CallInv' /\ Exists'
  <2>1. CallInv'
    <3>1. ASSUME NEW v \in Threads, pc[v] \in InStop
          PROVE  refs'[v] = refs[v]
      BY <1>1, <1>2, <3>1 DEF Types, InStop
    <3> QED BY <1>1, <1>2, <1>3, <1>5, <1>8, <3>1 DEF CallInv, device
  <2>2. Exists'
    BY <1>1, <1>3, <1>8 DEF Exists
  <2> QED BY <2>1, <2>2
<1>9. CallInv' /\ Exists'
  BY <1>7, <1>8
<1>10. LifeInv'
  <2>1. mCapturing' \/ (thread' = "None" /\ ~recording')
    BY <1>1, <1>2 DEF LifeInv, device
  <2> QED BY <1>1, <1>2, <1>3, <1>9, <2>1, LifeSame
<1>11. CountInv' /\ PlaceInv' /\ NoteInv'
  BY <1>1, <1>2, CountSame, PlaceSame, NoteSame
     DEF locals, variables, device, ring, NoteInv
<1>12. RingInv'
  BY <1>1, <1>2, RingSame DEF End, ring, locals, variables
<1> QED BY <1>6, <1>9, <1>10, <1>11, <1>12 DEF IInv, Facts

LEMMA CloseKeeps ==
  ASSUME IInv, NEW t \in Threads, Close(t)
  PROVE  IInv'
<1>1. /\ pc[t] = "Closing"
      /\ size' = 0 /\ mBuffer' = [i \in {} |-> 0] /\ mWritePos' = 0
      /\ mCapturing' = FALSE /\ mQuitNow' = FALSE /\ mNotifies' = {}
      /\ writepos' = 0 /\ oldpos' = 0 /\ availframes' = 0 /\ passed' = 0
      /\ recording' = FALSE /\ avail' = 0 /\ taken' = 0 /\ fired' = {}
      /\ thread' = "None"
      /\ pc' = [pc EXCEPT ![t] = "Idle"]
      /\ UNCHANGED <<mTotalRef, refs>>
  BY DEF Close
<1>2. Types /\ CallInv
  BY DEF IInv, Facts
<1>3. Types'
  BY <1>1, <1>2 DEF Types
<1>4. mTotalRef = 0 /\ \A v \in Threads : refs[v] = 0
  BY <1>1, <1>2, SumOfNone DEF CallInv, Types
<1>5. \A v \in Threads : pc'[v] \notin InStop \cup {"Closing"}
  BY <1>1, <1>2, <1>4 DEF CallInv, Types, InStop
<1>6. CallInv'
  BY <1>1, <1>2, <1>5 DEF CallInv, InStop
<1>7. LifeInv' /\ PlaceInv'
  <2>1. ~Exists'
    BY <1>1, <1>4, <1>5 DEF Exists
  <2>2. 0 % Align = 0
    BY AlignAssumption
  <2> QED BY <1>1, <2>1, <2>2 DEF LifeInv, PlaceInv, Position, Blank
<1>8. CountInv' /\ NoteInv'
  BY <1>1, AheadAssumption DEF CountInv, NoteInv
<1>9. RingInv'
  <2>1. 0 .. size' - 1 = {}
    BY <1>1
  <2> QED BY <1>1, <2>1 DEF RingInv
<1> QED BY <1>3, <1>6, <1>7, <1>8, <1>9 DEF IInv, Facts

-----------------------------------------------------------------------------
(* Start, Stop and SetNotificationPositions.                               *)

LEMMA StartKeeps ==
  ASSUME IInv, NEW t \in Threads, Start(t)
  PROVE  IInv'
<1>1. /\ pc[t] = "Idle" /\ refs[t] > 0 /\ ~mCapturing
      /\ mQuitNow' = FALSE /\ thread' = "Entering"
      /\ recording' = TRUE /\ mCapturing' = TRUE
      /\ passed' = 0 /\ fired' = {}
      /\ UNCHANGED <<object, mNotifies, variables, avail, ring, pc>>
  BY DEF Start, CanCall
<1>2. Types /\ CallInv /\ LifeInv /\ CountInv /\ PlaceInv /\ NoteInv /\ RingInv
  BY DEF IInv, Facts
<1>3. Exists /\ thread = "None"
  BY <1>1, <1>2, Held DEF LifeInv
<1>4. Types'
  BY <1>1, <1>2 DEF Types, object, Places
<1>5. CallInv'
  BY <1>1, <1>2 DEF CallInv, Types, InStop, object
<1>6. LifeInv'
  <2>1. Exists'
    BY <1>1, <1>3 DEF Exists, object
  <2> QED BY <1>1, <1>2, <1>3, <2>1, LifeSame DEF object
<1>7. CountInv' /\ PlaceInv' /\ NoteInv'
  <2>1. CountInv'
    BY <1>1, <1>2, <1>3, CountSame DEF variables, ring
  <2>2. PlaceInv'
    BY <1>1, <1>2, PlaceSame DEF variables, ring, object
  <2>3. NoteInv'
    BY <1>1, <1>2 DEF NoteInv, object
  <2> QED BY <2>1, <2>2, <2>3
<1>8. RingInv'
  BY <1>1, <1>2, <1>3, RingSame DEF End, ring, object
<1> QED BY <1>4, <1>5, <1>6, <1>7, <1>8 DEF IInv, Facts

\* A step of a call of Stop that moves pc[t], and may leave the thread or
\* stop the device.
LEMMA StopStep ==
  ASSUME IInv, NEW t \in Threads, t \in Stoppers, refs[t] > 0, mCapturing,
         NEW place \in InStop, pc' = [pc EXCEPT ![t] = place],
         UNCHANGED <<object, mCapturing, mNotifies, locals, avail, ring, fired>>,
         mQuitNow' \in BOOLEAN, recording' = FALSE,
         thread' = thread \/ (thread = "Exited" /\ thread' = "None"),
         place = "Joined" => thread' = "None"
  PROVE  IInv'
<1>2. Types /\ CallInv /\ LifeInv /\ CountInv /\ PlaceInv /\ NoteInv /\ RingInv
  BY DEF IInv, Facts
<1>3. Exists /\ \A u \in Threads : pc[u] # "Closing"
  BY <1>2, Held
<1>4. Types'
  <2>1. pc' \in [Threads -> InStop \cup {"Idle", "Closing"}]
    BY <1>2 DEF Types
  <2> QED BY <1>2, <2>1 DEF Types, object
<1>5. CallInv'
  <2>1. pc'[t] = place /\ \A u \in Threads \ {t} : pc'[u] = pc[u]
    BY <1>2 DEF Types
  <2>2. mTotalRef' = Sum(refs')
    BY <1>2 DEF CallInv, object
  <2>3. ASSUME NEW u \in Threads, pc'[u] \in InStop
        PROVE  u \in Stoppers /\ refs'[u] > 0 /\ mCapturing' /\ ~recording'
    BY <1>2, <2>1, <2>3 DEF CallInv, object
  <2>4. ASSUME NEW u \in Threads, pc'[u] = "Joined"
        PROVE  thread' = "None"
    BY <1>2, <2>1, <2>4 DEF CallInv
  <2>5. ASSUME NEW u \in Threads
        PROVE  pc'[u] # "Closing"
    BY <1>3, <2>1 DEF InStop
  <2> QED BY <2>2, <2>3, <2>4, <2>5 DEF CallInv
<1>6. LifeInv'
  <2>1. Exists'
    BY <1>2, Held DEF Exists, object
  <2> QED BY <1>2, <1>3, <2>1, LifeSame DEF object
<1>7. CountInv' /\ PlaceInv' /\ NoteInv'
  <2>1. CountInv'
    BY <1>2, CountSame DEF locals, variables, ring
  <2>2. PlaceInv'
    BY <1>2, PlaceSame DEF locals, variables, ring, object
  <2>3. NoteInv'
    <3>1. StopOffset \in fired => thread' = "None"
      BY <1>2 DEF NoteInv
    <3> QED BY <1>2, <3>1, NoteSame DEF locals, variables, object
  <2> QED BY <2>1, <2>2, <2>3
<1>8. RingInv'
  BY <1>2, RingSame DEF End, ring, object, locals, variables
<1> QED BY <1>4, <1>5, <1>6, <1>7, <1>8 DEF IInv, Facts

LEMMA StopFinishKeeps ==
  ASSUME IInv, NEW t \in Threads, StopFinish(t)
  PROVE  IInv'
<1>1. /\ pc[t] = "Joined"
      /\ fired' = mNotifies \cap {StopOffset}
      /\ mCapturing' = FALSE
      /\ pc' = [pc EXCEPT ![t] = "Idle"]
      /\ UNCHANGED <<object, mQuitNow, mNotifies, locals, device, ring, thread>>
  BY DEF StopFinish
<1>2. Types /\ CallInv /\ LifeInv /\ CountInv /\ PlaceInv /\ NoteInv /\ RingInv
  BY DEF IInv, Facts
<1>3. t \in Stoppers /\ refs[t] > 0 /\ mCapturing /\ ~recording /\ thread = "None"
  BY <1>1, <1>2 DEF CallInv, InStop
<1>4. Exists /\ \A u \in Threads : pc[u] # "Closing"
  BY <1>2, <1>3, Held
<1>5. Types'
  <2>1. pc' \in [Threads -> InStop \cup {"Idle", "Closing"}]
    BY <1>1, <1>2 DEF Types
  <2> QED BY <1>1, <1>2, <2>1 DEF Types, object, device
<1>6. CallInv'
  <2>1. pc'[t] = "Idle" /\ \A u \in Threads \ {t} : pc'[u] = pc[u]
    BY <1>1, <1>2 DEF Types
  <2>2. \A u \in Threads \ {t} : pc[u] \notin InStop
    BY <1>2, <1>3, OneStopperAssumption DEF CallInv
  <2>3. \A u \in Threads : pc'[u] \notin InStop \cup {"Closing"}
    BY <1>4, <2>1, <2>2 DEF InStop
  <2> QED BY <1>1, <1>2, <2>3 DEF CallInv, InStop, object
<1>7. LifeInv'
  <2>1. Exists'
    BY <1>1, <1>2, <1>3, Held DEF Exists, object
  <2> QED BY <1>1, <1>2, <1>3, <1>4, <2>1, LifeSame DEF object, device
<1>8. CountInv' /\ PlaceInv' /\ NoteInv'
  <2>1. CountInv'
    BY <1>1, <1>2, CountSame DEF locals, variables, ring, device
  <2>2. PlaceInv'
    BY <1>1, <1>2, PlaceSame DEF locals, variables, ring, object
  <2>3. NoteInv'
    BY <1>1, <1>2, <1>3 DEF NoteInv, object
  <2> QED BY <2>1, <2>2, <2>3
<1>9. RingInv'
  BY <1>1, <1>2, RingSame DEF End, ring, object, locals, variables
<1> QED BY <1>5, <1>6, <1>7, <1>8, <1>9 DEF IInv, Facts

LEMMA StopKeeps ==
  ASSUME IInv, NEW t \in Threads, Stop(t)
  PROVE  IInv'
<1>1. Types /\ CallInv
  BY DEF IInv, Facts
<1>2. CASE StopDevice(t)
  <2>1. refs[t] > 0 /\ t \in Stoppers /\ mCapturing
    BY <1>2 DEF StopDevice, CanCall
  <2>2. /\ recording' = FALSE /\ pc' = [pc EXCEPT ![t] = "Stopping"]
        /\ UNCHANGED <<object, state, locals, avail, ring, thread, fired>>
    BY <1>2 DEF StopDevice
  <2> QED BY <1>1, <2>1, <2>2, StopStep DEF InStop, Types, state
<1>3. CASE StopQuit(t)
  <2>1. /\ pc[t] = "Stopping" /\ mQuitNow' = TRUE
        /\ pc' = [pc EXCEPT ![t] = "Joining"]
        /\ UNCHANGED <<object, mCapturing, mNotifies, locals, device, ring, thread, fired>>
    BY <1>3 DEF StopQuit
  <2>2. refs[t] > 0 /\ t \in Stoppers /\ mCapturing /\ recording = FALSE
    BY <1>1, <2>1 DEF CallInv, InStop, Types
  <2> QED BY <2>1, <2>2, StopStep DEF InStop, device
<1>4. CASE StopJoin(t)
  <2>1. /\ pc[t] = "Joining" /\ thread = "Exited" /\ thread' = "None"
        /\ pc' = [pc EXCEPT ![t] = "Joined"]
        /\ UNCHANGED <<object, state, locals, device, ring, fired>>
    BY <1>4 DEF StopJoin
  <2>2. refs[t] > 0 /\ t \in Stoppers /\ mCapturing /\ recording = FALSE
    BY <1>1, <2>1 DEF CallInv, InStop, Types
  <2> QED BY <1>1, <2>1, <2>2, StopStep DEF InStop, Types, state, device
<1> QED BY <1>2, <1>3, <1>4, StopFinishKeeps DEF Stop

LEMMA SetNotificationPositionsKeeps ==
  ASSUME IInv, NEW t \in Threads, SetNotificationPositions(t)
  PROVE  IInv'
<1>1. /\ refs[t] > 0 /\ ~mCapturing
      /\ mNotifies' \in SUBSET {o \in Offsets : o < size \/ o = StopOffset}
      /\ UNCHANGED <<object, mCapturing, mQuitNow, locals, device, ring, thread, pc, fired>>
  BY DEF SetNotificationPositions, CanCall
<1>2. Types /\ CallInv /\ LifeInv /\ CountInv /\ PlaceInv /\ NoteInv /\ RingInv
  BY DEF IInv, Facts
<1>3. Exists /\ thread = "None" /\ ~recording
  BY <1>1, <1>2, Held DEF LifeInv
<1>4. Types' /\ CallInv'
  BY <1>1, <1>2 DEF Types, CallInv, object, device
<1>5. LifeInv'
  <2>1. Exists'
    BY <1>1, <1>3 DEF Exists, object
  <2> QED BY <1>1, <1>2, <1>3, <2>1, LifeSame DEF object, device
<1>6. CountInv' /\ PlaceInv' /\ NoteInv'
  <2>1. CountInv'
    BY <1>1, <1>2, CountSame DEF locals, variables, ring, device
  <2>2. PlaceInv'
    BY <1>1, <1>2, PlaceSame DEF locals, variables, ring, object
  <2>3. NoteInv'
    BY <1>1, <1>2, <1>3 DEF NoteInv, object
  <2> QED BY <2>1, <2>2, <2>3
<1>7. RingInv'
  BY <1>1, <1>2, RingSame DEF End, ring, object, locals, variables
<1> QED BY <1>4, <1>5, <1>6, <1>7 DEF IInv, Facts

-----------------------------------------------------------------------------
(* captureThread.                                                          *)

\* What no step of the thread or of the device touches.
LEMMA ThreadStep ==
  ASSUME Types, CallInv, LifeInv, thread # "None" \/ recording,
         thread' = thread \/ (thread # "None" /\ thread' \in Places),
         UNCHANGED <<object, state, recording, pc>>
  PROVE  Types' /\ CallInv' /\ LifeInv' /\ mCapturing /\ size \in Nat \ {0}
<1>1. mCapturing /\ Exists /\ size \in Nat \ {0}
  BY Capturing
<1>2. Types'
  BY DEF Types, object, state
<1>3. CallInv'
  BY DEF CallInv, object, state, Types, Places, InStop
<1>4. LifeInv'
  <2>1. Exists'
    BY <1>1 DEF Exists, object
  <2> QED BY <1>1, <2>1, LifeSame DEF object, state
<1> QED BY <1>1, <1>2, <1>3, <1>4

\* Steps that neither read from the device nor begin or end a read.
LEMMA LoopKeeps ==
  ASSUME IInv, ThreadEnter \/ ThreadCheck \/ ThreadWakeIdle
  PROVE  IInv'
<1>1. /\ thread \in {"Entering", "Checking", "Sleeping"}
      /\ thread' \in {"Checking", "Exited", "Sleeping"}
      /\ UNCHANGED <<object, state, variables, device, ring, pc>>
  BY DEF ThreadEnter, ThreadCheck, ThreadWakeIdle, locals
<1>2. \/ passed' = 0 /\ fired' = {}
      \/ UNCHANGED <<passed, fired>> /\ (thread' = "Checking" => thread = "Entering")
  BY DEF ThreadEnter, ThreadCheck, ThreadWakeIdle, locals
<1>3. Types /\ CallInv /\ LifeInv /\ CountInv /\ PlaceInv /\ NoteInv /\ RingInv
  BY DEF IInv, Facts
<1>4. Types' /\ CallInv' /\ LifeInv' /\ mCapturing
  BY <1>1, <1>3, ThreadStep DEF Places, device
<1>5. CountInv'
  BY <1>1, <1>2, <1>3, CountSame DEF variables, device, ring
<1>6. PlaceInv'
  BY <1>1, <1>2, <1>3, PlaceSame DEF variables, object, ring
<1>7. NoteInv'
  <2>1. thread = "Entering" => passed = 0
    BY <1>3 DEF CountInv
  <2>2. StopOffset \notin fired
    BY <1>1, <1>3 DEF NoteInv
  <2> QED BY <1>1, <1>2, <1>3, <1>4, <2>1, <2>2 DEF NoteInv, state, object
<1>8. RingInv'
  BY <1>1, <1>3, RingSame DEF End, ring, object
<1> QED BY <1>4, <1>5, <1>6, <1>7, <1>8 DEF IInv, Facts

LEMMA ThreadWakeKeeps ==
  ASSUME IInv, ThreadWake
  PROVE  IInv'
<1>1. /\ thread = "Sleeping" /\ thread' = "Reading"
      /\ avail > 0 /\ availframes' = avail
      /\ writepos' = mWritePos /\ oldpos' = mWritePos
      /\ passed' = 0 /\ fired' = {}
      /\ UNCHANGED <<object, state, device, ring, pc>>
  BY DEF ThreadWake
<1>2. Types /\ CallInv /\ LifeInv /\ CountInv /\ PlaceInv /\ NoteInv /\ RingInv
  BY DEF IInv, Facts
<1>3. Types' /\ CallInv' /\ LifeInv' /\ mCapturing /\ size \in Nat \ {0}
  BY <1>1, <1>2, ThreadStep DEF Places, device
<1>4. CountInv' /\ NoteInv'
  BY <1>1, <1>2 DEF CountInv, NoteInv, device, ring, state, object
<1>5. PlaceInv'
  <2>1. mWritePos \in Nat /\ mWritePos < size /\ mWritePos % Align = 0
    BY <1>2, <1>3 DEF PlaceInv, Position
  <2>2. mWritePos % size = mWritePos /\ mWritePos + 0 * Align = mWritePos
    BY <1>3, <2>1, SmallMod, AlignAssumption
  <2> QED BY <1>1, <2>1, <2>2 DEF PlaceInv, Position, ring, object
<1>6. RingInv'
  BY <1>1, <1>2, RingSame DEF End, ring, object
<1> QED BY <1>3, <1>4, <1>5, <1>6 DEF IInv, Facts

LEMMA ThreadPublishKeeps ==
  ASSUME IInv, ThreadPublish
  PROVE  IInv'
<1>1. /\ thread = "Reading" /\ availframes = 0
      /\ mWritePos' = writepos /\ thread' = "Notifying"
      /\ UNCHANGED <<object, state, locals, device, mBuffer, taken, pc, fired>>
  BY DEF ThreadPublish
<1>2. Types /\ CallInv /\ LifeInv /\ CountInv /\ PlaceInv /\ NoteInv /\ RingInv
  BY DEF IInv, Facts
<1>3. Types' /\ CallInv' /\ LifeInv' /\ mCapturing
  BY <1>1, <1>2, ThreadStep DEF Places, device
<1>4. CountInv'
  BY <1>1, <1>2 DEF CountInv, device, locals, variables
<1>5. PlaceInv'
  BY <1>1, <1>2 DEF PlaceInv, Position, object, locals, variables
<1>6. NoteInv'
  BY <1>1, <1>2, <1>3 DEF NoteInv, object, state
<1>7. RingInv'
  BY <1>1, <1>2, RingSame DEF End, locals, variables, object
<1> QED BY <1>3, <1>4, <1>5, <1>6, <1>7 DEF IInv, Facts

LEMMA ThreadNotifyKeeps ==
  ASSUME IInv, ThreadNotify
  PROVE  IInv'
<1>1. /\ thread = "Notifying" /\ thread' = "Checking"
      /\ fired' = {o \in mNotifies : Captured(o)}
      /\ UNCHANGED <<object, state, locals, device, ring, pc>>
  BY DEF ThreadNotify
<1>2. Types /\ CallInv /\ LifeInv /\ CountInv /\ PlaceInv /\ NoteInv /\ RingInv
  BY DEF IInv, Facts
<1>3. Types' /\ CallInv' /\ LifeInv' /\ mCapturing /\ size \in Nat \ {0}
  BY <1>1, <1>2, ThreadStep DEF Places, device
<1>4. CountInv'
  BY <1>1, <1>2, CountSame DEF locals, variables, device, ring
<1>5. PlaceInv'
  BY <1>1, <1>2, PlaceSame DEF locals, variables, object, ring
<1>6. NoteInv'
  <2>1. fired' = {o \in mNotifies' : Captured(o)'}
    BY <1>1 DEF Captured, locals, variables, state
  <2>2. StopOffset \notin fired'
    <3>1. writepos \in Nat /\ writepos < size
      BY <1>2, <1>3 DEF PlaceInv, Position
    <3>2. size < StopOffset /\ StopOffset \in Nat
      BY <1>2, <1>3, StopOffsetAssumption, SizesAssumption DEF LifeInv
    <3>3. ~Captured(StopOffset)
      BY <1>3, <3>1, <3>2 DEF Captured
    <3> QED BY <1>1, <3>3
  <2>3. fired' \subseteq mNotifies'
    BY <2>1
  <2>4. mCapturing' /\ mNotifies' = mNotifies /\ size' = size
    BY <1>1, <1>3 DEF state, object
  <2> QED BY <1>2, <2>1, <2>2, <2>3, <2>4 DEF NoteInv
<1>7. RingInv'
  BY <1>1, <1>2, RingSame DEF End, ring, object
<1> QED BY <1>3, <1>4, <1>5, <1>6, <1>7 DEF IInv, Facts

LEMMA DeliverKeeps ==
  ASSUME IInv, Deliver
  PROVE  IInv'
<1>1. /\ recording /\ taken + avail < MaxSamples /\ avail' = avail + 1
      /\ UNCHANGED <<object, state, locals, recording, ring, thread, pc, fired>>
  BY DEF Deliver
<1>2. Types /\ CallInv /\ LifeInv /\ CountInv /\ PlaceInv /\ NoteInv /\ RingInv
  BY DEF IInv, Facts
<1>3. Types' /\ CallInv' /\ LifeInv'
  BY <1>1, <1>2, ThreadStep
<1>4. CountInv'
  BY <1>1, <1>2, AheadAssumption DEF CountInv, locals, variables, ring
<1>5. PlaceInv'
  BY <1>1, <1>2, PlaceSame DEF locals, variables, object, ring
<1>6. NoteInv'
  <2>1. StopOffset \in fired => thread' = "None"
    BY <1>1, <1>2 DEF NoteInv
  <2> QED BY <1>1, <1>2, <2>1, NoteSame DEF locals, variables, object, state
<1>7. RingInv'
  BY <1>1, <1>2, RingSame DEF End, ring, object, locals, variables
<1> QED BY <1>3, <1>4, <1>5, <1>6, <1>7 DEF IInv, Facts

\* Reading n frames at w into a ring of s bytes with room for them.
LEMMA ReadExtent ==
  ASSUME NEW a \in Nat \ {0}, NEW s \in Nat, NEW w \in 0 .. s,
         NEW n \in Nat, n <= (s - w) \div a
  PROVE  w + n * a \in w .. s /\ (w + n * a) % a = w % a
<1> DEFINE room == (s - w) \div a
<1>1. room \in Nat /\ room * a <= s - w
  <2>1. s - w \in Nat
    OBVIOUS
  <2>2. PICK d \in Nat : d = s - w
    BY <2>1
  <2>3. d \div a \in Nat /\ d - (d % a) = (d \div a) * a /\ d % a \in 0 .. a - 1
    BY DivMod, ModBounds
  <2> QED BY <2>2, <2>3
<1> HIDE DEF room
<1>2. n <= room
  BY DEF room
<1>3. PICK d \in Nat : room = n + d
  <2>1. room - n \in Nat /\ room = n + (room - n)
    BY <1>1, <1>2
  <2> QED BY <2>1
<1>4. room * a = n * a + d * a /\ d * a \in Nat /\ n * a \in Nat
  BY <1>1, <1>3
<1>5. w + n * a \in w .. s
  BY <1>1, <1>4
<1>6. w \in Int /\ n \in Int
  OBVIOUS
<1>7. (w + n * a) % a = w % a
  BY <1>6, Shifted
<1> QED BY <1>5, <1>7

\* The bytes that were read are as far back as they are from the last one;
\* the others are as many frames further back.
LEMMA BackOfRead ==
  ASSUME size \in Nat \ {0}, NEW w \in 0 .. size - 1, NEW n \in Nat,
         NEW end \in w .. size, end = w + n * Align, NEW j \in 0 .. size - 1
  PROVE  /\ j \in w .. end - 1 =>
              /\ BackOf(Wrap(end), j) = n - ((j - w) \div Align)
              /\ (j - w) \div Align \in 0 .. n - 1
         /\ j \notin w .. end - 1 => BackOf(Wrap(end), j) = BackOf(w, j) + n
<1> USE AlignAssumption
<1>1. ASSUME j \in w .. end - 1
      PROVE  /\ BackOf(Wrap(end), j) = n - ((j - w) \div Align)
             /\ (j - w) \div Align \in 0 .. n - 1
  <2>1. PICK x \in Nat : x = j - w
    BY <1>1
  <2>2. BackOf(Wrap(end), j) = 1 + ((end - 1 - j) \div Align)
    BY <1>1 DEF BackOf, Wrap
  <2>3. end - 1 - j = n * Align - 1 - x /\ end - 1 - j \in Nat
    BY <1>1, <2>1
  <2>4. (n * Align - 1 - x) \div Align = n - 1 - (x \div Align)
    BY Mirrored
  <2>5. x \div Align \in Nat /\ (end - 1 - j) \div Align \in Nat
    BY <2>3, DivMod
  <2> QED BY <2>1, <2>2, <2>3, <2>4, <2>5
<1>2. ASSUME j \notin w .. end - 1
      PROVE  BackOf(Wrap(end), j) = BackOf(w, j) + n
  <2> DEFINE z == IF j < w THEN w - 1 - j ELSE w + size - 1 - j
  <2>0. z \in Int
    <3>1. w - 1 - j \in Int /\ w + size - 1 - j \in Int
      OBVIOUS
    <3> QED BY <3>1
  <2>1. PICK x \in Int : x = z
    BY <2>0
  <2>2. n * Align \in Nat /\ n \in Int
    OBVIOUS
  <2>3. BackOf(w, j) = 1 + (x \div Align)
    BY <2>1 DEF BackOf
  <2>4. BackOf(Wrap(end), j) = 1 + ((x + n * Align) \div Align)
    <3>1. CASE j < w
      BY <1>2, <2>1, <2>2, <3>1 DEF BackOf, Wrap
    <3>2. CASE w <= j
      BY <1>2, <2>1, <2>2, <3>2 DEF BackOf, Wrap
    <3> QED BY <3>1, <3>2
  <2>5. (x + n * Align) \div Align = (x \div Align) + n /\ x \div Align \in Int
    <3>1. (x + n * Align) \div Align = (x \div Align) + n
      BY <2>2, Shifted
    <3>2. x \div Align \in Int
      BY IntDivMod
    <3> QED BY <3>1, <3>2
  <2> QED BY <2>3, <2>4, <2>5
<1> QED BY <1>1, <1>2

LEMMA ThreadReadKeeps ==
  ASSUME IInv, ThreadRead
  PROVE  IInv'
<1> DEFINE room == (size - writepos) \div Align
           toread == IF availframes < room THEN availframes ELSE room
<1>1. /\ thread = "Reading" /\ availframes > 0
      /\ UNCHANGED <<object, state, oldpos, recording, mWritePos, thread, pc, fired>>
      /\ mBuffer' = [i \in DOMAIN mBuffer |->
                       IF i \in writepos .. (writepos + toread * Align) - 1
                       THEN taken + 1 + (i - writepos) \div Align
                       ELSE mBuffer[i]]
      /\ writepos' = Wrap(writepos + toread * Align)
      /\ availframes' = availframes - toread
      /\ avail' = avail - toread
      /\ taken' = taken + toread
      /\ passed' = passed + toread
  BY DEF ThreadRead
<1>2. Types /\ CallInv /\ LifeInv /\ CountInv /\ PlaceInv /\ NoteInv /\ RingInv
  BY DEF IInv, Facts
<1>3. Types' /\ CallInv' /\ LifeInv' /\ mCapturing /\ size \in Nat \ {0}
  BY <1>1, <1>2, ThreadStep DEF Places
<1>4. writepos \in 0 .. size - 1 /\ writepos % Align = 0
  BY <1>2, <1>3 DEF PlaceInv, Position
<1>5. toread \in Nat /\ toread <= availframes /\ toread <= room
  <2>1. PICK d \in Nat : d = size - writepos
    BY <1>3, <1>4
  <2>2. room \in Nat
    BY <2>1, DivMod, AlignAssumption
  <2> HIDE DEF room
  <2> QED BY <1>2, <2>2 DEF CountInv
<1>6. PICK n \in Nat : n = toread
  BY <1>5
<1>7. PICK end \in writepos .. size : end = writepos + n * Align /\ end % Align = 0
  <2>1. n <= (size - writepos) \div Align
    BY <1>5, <1>6
  <2> HIDE DEF toread, room
  <2>2. PICK s \in Nat : s = size
    BY <1>3
  <2>3. PICK w \in 0 .. s : w = writepos
    BY <1>4, <2>2
  <2>4. n <= (s - w) \div Align
    BY <2>1, <2>2, <2>3
  <2>5. w + n * Align \in w .. s /\ (w + n * Align) % Align = w % Align
    BY <2>4, ReadExtent, AlignAssumption
  <2> QED BY <1>4, <2>2, <2>3, <2>5
<1>8. /\ n <= availframes /\ size' = size /\ writepos' = Wrap(end)
      /\ availframes' = availframes - n /\ avail' = avail - n
      /\ taken' = taken + n /\ passed' = passed + n
      /\ mBuffer' = [i \in DOMAIN mBuffer |->
                       IF i \in writepos .. end - 1
                       THEN taken + 1 + (i - writepos) \div Align
                       ELSE mBuffer[i]]
  BY <1>1, <1>5, <1>6, <1>7 DEF object
<1> HIDE DEF toread, room
<1>9. CountInv'
  BY <1>1, <1>2, <1>8 DEF CountInv
<1>10. PlaceInv'
  <2>1. Position(writepos)'
    <3>1. 0 % Align = 0
      BY AlignAssumption
    <3> QED BY <1>3, <1>4, <1>7, <1>8, <3>1 DEF Position, Wrap
  <2>2. PICK x \in Nat : x = oldpos + passed * Align
    BY <1>2, AlignAssumption DEF PlaceInv, Position, CountInv
  <2>3. writepos = x % size
    BY <1>1, <1>2, <2>2 DEF PlaceInv
  <2>4. (x + n * Align) % size = end % size
    <3>1. PICK k \in Nat : k = n * Align
      BY AlignAssumption
    <3>2. PICK m \in Nat \ {0} : m = size
      BY <1>3
    <3>3. x \in Int /\ k \in Int
      OBVIOUS
    <3>4. ((x % m) + k) % m = (x + k) % m
      BY <3>3, SumMod
    <3> QED BY <1>7, <2>3, <3>1, <3>2, <3>4
  <2>5. end % size = Wrap(end)
    <3>1. CASE end = size
      <4>1. end = 1 * size + 0 /\ 0 \in 0 .. size - 1
        BY <1>3, <3>1
      <4> QED BY <1>3, <3>1, <4>1, Quotient DEF Wrap
    <3>2. CASE end < size
      BY <1>3, <1>4, <1>7, <3>2, SmallMod DEF Wrap
    <3> QED BY <1>3, <1>4, <1>7, <3>1, <3>2
  <2>6. oldpos' + passed' * Align = x + n * Align
    <3>1. oldpos \in Nat /\ passed \in Nat
      BY <1>2 DEF PlaceInv, Position, CountInv
    <3>2. PICK q \in Nat : q = passed
      BY <3>1
    <3>3. (q + n) * Align = q * Align + n * Align /\ n * Align \in Nat /\ q * Align \in Nat
      BY AlignAssumption
    <3> QED BY <1>1, <1>8, <2>2, <3>1, <3>2, <3>3
  <2>7. writepos' = (oldpos' + passed' * Align) % size'
    BY <1>8, <2>4, <2>5, <2>6
  <2> QED BY <1>1, <1>2, <1>8, <2>1, <2>7 DEF PlaceInv, Position
<1>11. NoteInv'
  BY <1>1, <1>2, <1>3 DEF NoteInv, object, state
<1>12. RingInv'
  <2>1. End = writepos /\ End' = Wrap(end)
    BY <1>1, <1>8 DEF End
  <2>2. mBuffer' = [j \in 0 .. size - 1 |-> mBuffer'[j]]
    BY <1>2, <1>8 DEF RingInv
  <2>3. taken \in Nat /\ taken' \in Nat /\ taken' <= MaxSamples
    BY <1>2, <1>8, AheadAssumption DEF CountInv
  <2>4. ASSUME NEW j \in 0 .. size - 1
        PROVE  /\ mBuffer'[j] \in 0 .. MaxSamples
               /\ BackOf(End, j)' <= taken' => mBuffer'[j] = taken' - BackOf(End, j)' + 1
    <3>1. /\ mBuffer[j] \in 0 .. MaxSamples
          /\ BackOf(writepos, j) <= taken => mBuffer[j] = taken - BackOf(writepos, j) + 1
      BY <1>2, <2>1, <2>4 DEF RingInv
    <3>2. BackOf(End, j)' = BackOf(Wrap(end), j)
      BY <1>8, <2>1 DEF BackOf
    <3>3. mBuffer'[j] = IF j \in writepos .. end - 1
                        THEN taken + 1 + (j - writepos) \div Align ELSE mBuffer[j]
      <4>1. j \in DOMAIN mBuffer
        BY <1>2, <2>4 DEF RingInv
      <4> QED BY <1>8, <4>1
    <3>4. BackOf(writepos, j) \in Int
      BY <1>3, <1>4, <2>4, AlignAssumption DEF BackOf
    <3>5. CASE j \in writepos .. end - 1
      <4>1. PICK q \in 0 .. n - 1 : q = (j - writepos) \div Align
                                    /\ BackOf(Wrap(end), j) = n - q
        BY <1>3, <1>4, <1>7, <2>4, <3>5, BackOfRead
      <4>2. mBuffer'[j] = taken + 1 + q
        BY <3>3, <3>5, <4>1
      <4> QED BY <1>8, <2>3, <3>2, <4>1, <4>2, AheadAssumption
    <3>6. CASE j \notin writepos .. end - 1
      <4>1. BackOf(Wrap(end), j) = BackOf(writepos, j) + n
        BY <1>3, <1>4, <1>7, <2>4, <3>6, BackOfRead
      <4> QED BY <1>8, <2>3, <3>1, <3>2, <3>3, <3>4, <3>6, <4>1
    <3> QED BY <3>5, <3>6
  <2> QED BY <1>8, <2>2, <2>4 DEF RingInv
<1> QED BY <1>3, <1>9, <1>10, <1>11, <1>12 DEF IInv, Facts

-----------------------------------------------------------------------------
LEMMA InitIInv == Init => IInv
<1> SUFFICES ASSUME Init PROVE IInv
  OBVIOUS
<1> USE DEF Init
<1>1. refs \in [Threads -> 0 .. MaxRefs] /\ \A t \in Threads : refs[t] = 0
  BY RefsAssumption
<1>2. Sum(refs) = 0
  BY <1>1, SumOfNone
<1>3. 0 % Align = 0
  BY AlignAssumption
<1>4. Types /\ CallInv
  BY <1>1, <1>2 DEF Types, CallInv, InStop
<1>5. LifeInv /\ PlaceInv
  BY <1>3 DEF LifeInv, PlaceInv, Exists, Blank, Position
<1>6. CountInv /\ NoteInv
  BY AheadAssumption DEF CountInv, NoteInv
<1>7. RingInv
  <2>1. 0 .. size - 1 = {}
    OBVIOUS
  <2> QED BY <2>1 DEF RingInv
<1> QED BY <1>4, <1>5, <1>6, <1>7 DEF IInv, Facts

LEMMA NextIInv == IInv /\ [Next]_vars => IInv'
<1> SUFFICES ASSUME IInv, [Next]_vars PROVE IInv'
  OBVIOUS
<1>1. CASE Thread
  BY <1>1, LoopKeeps, ThreadWakeKeeps, ThreadReadKeeps, ThreadPublishKeeps,
     ThreadNotifyKeeps DEF Thread
<1>2. CASE Deliver
  BY <1>2, DeliverKeeps
<1>3. ASSUME NEW t \in Threads, Call(t) PROVE IInv'
  BY <1>3, CreateKeeps, AddRefKeeps, ReleaseKeeps, CloseKeeps, StartKeeps,
     StopKeeps, SetNotificationPositionsKeeps DEF Call
<1>4. CASE UNCHANGED vars
  <2>1. /\ UNCHANGED <<mTotalRef, size, refs, mCapturing, mQuitNow, mNotifies>>
        /\ UNCHANGED <<writepos, oldpos, availframes, passed, recording, avail>>
        /\ UNCHANGED <<mBuffer, mWritePos, taken, thread, pc, fired>>
    BY <1>4 DEF vars, object, state, locals, variables, device, ring
  <2>2. Types' /\ CallInv' /\ CountInv' /\ PlaceInv' /\ NoteInv'
    BY <2>1 DEF IInv, Facts, Types, CallInv, CountInv, PlaceInv, Position,
                NoteInv, Captured
  <2>3. LifeInv'
    BY <2>1 DEF IInv, Facts, LifeInv, Exists, Blank
  <2>4. RingInv'
    BY <2>1, RingSame DEF IInv, End
  <2> QED BY <2>2, <2>3, <2>4 DEF IInv, Facts
<1> QED BY <1>1, <1>2, <1>3, <1>4 DEF Next

(* The inductive invariant holds in every state that the program reaches.  *)
THEOREM Invariance == Spec => []IInv
BY InitIInv, NextIInv, PTL DEF Spec

(* Every variable has the values of its type, and a position is the start  *)
(* of a frame in the ring.                                                 *)
THEOREM TypeCorrect == Spec => []TypeOK
<1>1. IInv => TypeOK
  <2> SUFFICES ASSUME IInv PROVE TypeOK
    OBVIOUS
  <2>1. Types /\ CallInv /\ LifeInv /\ CountInv /\ PlaceInv /\ NoteInv /\ RingInv
    BY DEF IInv, Facts
  <2>2. mTotalRef \in 0 .. MaxRefs * Cardinality(Threads)
    BY <2>1, SumBound DEF CallInv
  <2>3. size \in Nat /\ size \in Sizes \cup {0}
    BY <2>1, SizesAssumption DEF LifeInv
  <2>4. DOMAIN mBuffer = 0 .. size - 1
        /\ \A i \in DOMAIN mBuffer : mBuffer[i] \in 0 .. MaxSamples
    BY <2>1 DEF RingInv
  <2>5. \A p \in {mWritePos, writepos, oldpos} :
          p % Align = 0 /\ p <= size /\ (size > 0 => p < size)
    <3>1. CASE size > 0
      BY <2>1, <2>3, <3>1 DEF PlaceInv, Position
    <3>2. CASE size = 0
      <4>1. Blank
        BY <2>1, <3>2 DEF LifeInv
      <4> QED BY <2>1, <3>2, <4>1 DEF PlaceInv, Position, Blank
    <3> QED BY <2>3, <3>1, <3>2
  <2>6. mNotifies \subseteq Offsets /\ fired \subseteq mNotifies \cup {StopOffset}
    BY <2>1 DEF NoteInv
  <2>7. {avail, availframes, taken, passed} \subseteq 0 .. MaxSamples
    BY <2>1, AheadAssumption DEF CountInv
  <2>8. /\ mCapturing \in BOOLEAN /\ mQuitNow \in BOOLEAN /\ recording \in BOOLEAN
        /\ refs \in [Threads -> 0 .. MaxRefs]
        /\ pc \in [Threads -> {"Idle", "Stopping", "Joining", "Joined", "Closing"}]
        /\ thread \in {"None", "Entering", "Checking", "Sleeping", "Reading",
                       "Notifying", "Exited"}
    <3>1. InStop \cup {"Idle", "Closing"}
            = {"Idle", "Stopping", "Joining", "Joined", "Closing"}
      BY DEF InStop
    <3>2. thread \in {"None", "Entering", "Checking", "Sleeping", "Reading",
                      "Notifying", "Exited"}
      BY <2>1 DEF Types, Places
    <3> QED BY <2>1, <3>1, <3>2 DEF Types
  <2> QED BY <2>2, <2>3, <2>4, <2>5, <2>6, <2>7, <2>8 DEF TypeOK
<1> QED BY <1>1, Invariance, PTL

(* Once Stop has set mCapturing back, and once the destructor is done, no  *)
(* thread is left and the device does not capture.                         *)
THEOREM StoppedIsStill == Spec => []StoppedIsQuiet
<1>1. IInv => StoppedIsQuiet
  <2> SUFFICES ASSUME IInv,
                      ~mCapturing \/ (mTotalRef = 0 /\ \A t \in Threads : pc[t] # "Closing")
               PROVE  thread = "None" /\ ~recording
    BY DEF StoppedIsQuiet
  <2>1. ~mCapturing
    BY DEF IInv, Facts, LifeInv, Exists, Blank
  <2> QED BY <2>1 DEF IInv, Facts, LifeInv
<1> QED BY <1>1, Invariance, PTL

-----------------------------------------------------------------------------
(* What the ring holds.                                                    *)

\* Byte i of the frame that is so many frames back is as far back.
LEMMA FrameByte ==
  ASSUME size \in Nat \ {0}, size % Align = 0,
         NEW e \in 0 .. size - 1, e % Align = 0,
         NEW back \in 1 .. Frames, NEW i \in 0 .. Align - 1
  PROVE  /\ Before(e, back) + i \in 0 .. size - 1
         /\ BackOf(e, Before(e, back) + i) = back
<1> USE AlignAssumption
<1>1. PICK s \in Nat \ {0} : s = size
  OBVIOUS
<1>2. PICK F \in Nat : F = Frames /\ s = F * Align
  <2>1. s \div Align \in Nat /\ s - (s % Align) = (s \div Align) * Align
    BY DivMod
  <2> QED BY <1>1, <2>1 DEF Frames
<1>3. PICK k \in Nat : k = back * Align
  OBVIOUS
<1>4. k % Align = 0 /\ Align <= k /\ k <= s
  <2>1. back \in Nat /\ back - 1 \in Nat /\ F - back \in Nat
    BY <1>2
  <2>2. PICK a \in Nat : a = back - 1
    BY <2>1
  <2>3. PICK d \in Nat : d = F - back
    BY <2>1
  <2>4. k = a * Align + Align /\ a * Align \in Nat
    BY <1>3, <2>2
  <2>5. s = k + d * Align /\ d * Align \in Nat
    BY <1>2, <1>3, <2>3
  <2>6. k = back * Align + 0 /\ back \in Int /\ 0 \in 0 .. Align - 1
    BY <1>3
  <2>7. k % Align = 0
    BY <2>6, Quotient
  <2> QED BY <2>4, <2>5, <2>7
<1>5. (k - 1 - i) \div Align = back - 1
  <2>1. (back * Align - 1 - i) \div Align = back - 1 - (i \div Align)
    <3>1. back \in Nat /\ i \in Nat
      BY <1>2
    <3> QED BY <3>1, Mirrored
  <2>2. i = 0 * Align + i
    OBVIOUS
  <2>3. i \div Align = 0
    BY <2>2, Quotient
  <2> QED BY <1>3, <2>1, <2>3
<1>6. Before(e, back) = IF e < k THEN e - k + s ELSE e - k
  <2>1. PICK n \in Int : n = e - k
    OBVIOUS
  <2>2. n % s = IF n < 0 THEN n + s ELSE IF n < s THEN n ELSE n - s
    <3>1. -s <= n /\ n < 2 * s
      BY <1>1, <1>4, <2>1
    <3> QED BY <3>1, Turned
  <2> QED BY <1>1, <1>3, <1>4, <2>1, <2>2 DEF Before
<1>7. CASE k <= e
  BY <1>1, <1>4, <1>5, <1>6, <1>7 DEF BackOf
<1>8. CASE e < k
  <2>1. e + Align <= k
    <3>1. e \in Nat
      BY <1>1
    <3> QED BY <1>4, <1>8, <3>1, WholeFrames
  <2> QED BY <1>1, <1>4, <1>5, <1>6, <1>8, <2>1 DEF BackOf
<1> QED BY <1>7, <1>8

LEMMA LatestHeld ==
  ASSUME IInv, NEW back \in 1 .. Frames, back <= taken, NEW i \in 0 .. Align - 1
  PROVE  mBuffer[Before(End, back) + i] = taken - back + 1
<1>1. LifeInv /\ CountInv /\ PlaceInv /\ RingInv
  BY DEF IInv, Facts
<1>2. size \in Nat \ {0} /\ size % Align = 0
  <2>1. size \in Nat /\ size % Align = 0
    BY <1>1, SizesAssumption DEF LifeInv
  <2>2. size # 0
    <3> SUFFICES ASSUME size = 0 PROVE FALSE
      OBVIOUS
    <3>1. 0 = 0 * Align + 0 /\ 0 \in 0 .. Align - 1
      BY AlignAssumption
    <3>2. 0 \div Align = 0
      BY <3>1, Quotient, AlignAssumption
    <3> QED BY <3>2 DEF Frames
  <2> QED BY <2>1, <2>2
<1>3. PICK e \in 0 .. size - 1 : e = End /\ e % Align = 0
  BY <1>1, <1>2 DEF PlaceInv, Position, End
<1>4. PICK j \in 0 .. size - 1 : j = Before(End, back) + i /\ BackOf(End, j) = back
  BY <1>2, <1>3, FrameByte
<1>5. BackOf(End, j) <= taken => mBuffer[j] = taken - BackOf(End, j) + 1
  BY <1>1 DEF RingInv
<1> QED BY <1>4, <1>5

(* The ring holds the latest samples, whole and in order, up to where the  *)
(* thread is writing, for any size of the ring and of a frame and any      *)
(* number of frames at each read.                                          *)
THEOREM RingIsLatest == Spec => []RingHoldsLatest
<1>1. IInv => RingHoldsLatest
  BY LatestHeld DEF RingHoldsLatest, End
<1> QED BY <1>1, Invariance, PTL

-----------------------------------------------------------------------------
(* What a pass of the thread signals.                                      *)

\* How the code tells the bytes from p to before q, around the ring.
Passed(p, q, o) == IF p > q THEN o >= p \/ o < q ELSE o >= p /\ o < q

\* They are the bytes that were captured, if those are not all.
LEMMA PassCovers ==
  ASSUME NEW s \in Nat \ {0}, NEW p \in 0 .. s - 1, NEW n \in 1 .. s - 1,
         NEW q \in Int, q = (p + n) % s, NEW o \in 0 .. s - 1
  PROVE  Passed(p, q, o) <=> \E i \in 0 .. n - 1 : o = (p + i) % s
<1> USE DEF Passed
<1>1. q = IF p + n < s THEN p + n ELSE p + n - s
  <2>1. PICK m \in Int : m = p + n
    OBVIOUS
  <2>2. -s <= m /\ m < 2 * s /\ m >= 0
    BY <2>1
  <2>3. m % s = IF m < 0 THEN m + s ELSE IF m < s THEN m ELSE m - s
    BY <2>2, Turned
  <2> QED BY <2>1, <2>2, <2>3
<1>2. ASSUME NEW i \in 0 .. n - 1
      PROVE  (p + i) % s = IF p + i < s THEN p + i ELSE p + i - s
  <2>1. PICK m \in Int : m = p + i
    OBVIOUS
  <2>2. -s <= m /\ m < 2 * s /\ m >= 0
    BY <1>2, <2>1
  <2>3. m % s = IF m < 0 THEN m + s ELSE IF m < s THEN m ELSE m - s
    BY <2>2, Turned
  <2> QED BY <2>1, <2>2, <2>3
<1>3. ASSUME Passed(p, q, o)
      PROVE  \E i \in 0 .. n - 1 : o = (p + i) % s
  <2>1. CASE o >= p
    <3>1. o - p \in 0 .. n - 1 /\ p + (o - p) = o
      BY <1>1, <1>3, <2>1
    <3>2. PICK i \in 0 .. n - 1 : p + i = o
      BY <3>1
    <3>3. (p + i) % s = o
      BY <1>2, <3>2
    <3> QED BY <3>3
  <2>2. CASE o < p
    <3>1. o + s - p \in 0 .. n - 1 /\ p + (o + s - p) = o + s
      BY <1>1, <1>3, <2>2
    <3>2. PICK i \in 0 .. n - 1 : p + i = o + s
      BY <3>1
    <3>3. (p + i) % s = o
      BY <1>2, <3>2
    <3> QED BY <3>3
  <2> QED BY <2>1, <2>2
<1>4. ASSUME NEW i \in 0 .. n - 1, o = (p + i) % s
      PROVE  Passed(p, q, o)
  <2>1. o = IF p + i < s THEN p + i ELSE p + i - s
    BY <1>2, <1>4
  <2> QED BY <1>1, <2>1
<1> QED BY <1>3, <1>4

\* Less than the whole ring.
LEMMA PartOfRing ==
  ASSUME size \in Nat, size % Align = 0, NEW n \in Nat, n < Frames
  PROVE  n * Align \in Nat /\ n * Align + Align <= size
<1> USE AlignAssumption
<1>1. PICK F \in Nat : F = Frames /\ size = F * Align
  <2>1. size \div Align \in Nat /\ size - (size % Align) = (size \div Align) * Align
    BY DivMod
  <2> QED BY <2>1 DEF Frames
<1>2. PICK d \in Nat : F = n + 1 + d
  <2>1. F - n - 1 \in Nat /\ F = n + 1 + (F - n - 1)
    BY <1>1
  <2> QED BY <2>1
<1>3. F * Align = n * Align + Align + d * Align
      /\ n * Align \in Nat /\ d * Align \in Nat
  BY <1>2
<1> QED BY <1>1, <1>3

(* A pass of the thread that fills less than the ring signals the          *)
(* notifications whose byte it captured and no others, and the stop event  *)
(* is not signalled before Stop is done with the thread.                   *)
THEOREM MarkersExact == Spec => []MarkersAreExact
<1>1. IInv => MarkersAreExact
  <2> SUFFICES ASSUME IInv PROVE MarkersAreExact
    OBVIOUS
  <2>1. LifeInv /\ CountInv /\ PlaceInv /\ NoteInv
    BY DEF IInv, Facts
  <2>2. StopOffset \in fired => ~Joinable
    BY <2>1 DEF NoteInv, Joinable
  <2>3. ASSUME thread = "Checking", passed < Frames, passed > 0
        PROVE  fired = {o \in mNotifies : o < size /\
                          \E i \in 0 .. passed * Align - 1 : o = (oldpos + i) % size}
    <3>1. size \in Nat \ {0} /\ size % Align = 0
      BY <2>1, <2>3, Capturing DEF LifeInv
    <3>2. PICK s \in Nat \ {0} : s = size
      BY <3>1
    <3>3. PICK n \in 1 .. s - 1 : n = passed * Align
      <4>1. PICK m \in Nat : m = passed /\ m > 0 /\ m < Frames
        BY <2>1, <2>3 DEF CountInv
      <4>2. m * Align \in Nat /\ m * Align + Align <= size
        BY <3>1, <4>1, PartOfRing
      <4>3. PICK a \in Nat : m = a + 1
        <5>1. m - 1 \in Nat /\ m = (m - 1) + 1
          BY <4>1
        <5> QED BY <5>1
      <4>4. m * Align = a * Align + Align /\ a * Align \in Nat
        BY <4>3, AlignAssumption
      <4> QED BY <3>2, <4>1, <4>2, <4>4, AlignAssumption
    <3>4. PICK p \in 0 .. s - 1 : p = oldpos
      BY <2>1, <3>2 DEF PlaceInv, Position
    <3>5. PICK q : q = writepos /\ q = (p + n) % s
      BY <2>1, <2>3, <3>2, <3>3, <3>4 DEF PlaceInv
    <3>6. q \in 0 .. s - 1
      BY <2>1, <3>2, <3>5 DEF PlaceInv, Position
    <3>7. ASSUME NEW o \in mNotifies
          PROVE  Captured(o) <=> o < size /\ \E i \in 0 .. n - 1 : o = (p + i) % s
      <4>1. size < StopOffset /\ StopOffset \in Nat
        BY <2>1, <3>1, StopOffsetAssumption, SizesAssumption DEF LifeInv
      <4>2. o \in Nat /\ (o < size \/ o = StopOffset)
        BY <2>1, <3>7, SizesAssumption DEF NoteInv
      <4>3. CASE o < size
        <5>1. o \in 0 .. s - 1 /\ o # StopOffset
          BY <3>2, <4>1, <4>2, <4>3
        <5>2. Captured(o) <=> Passed(p, q, o)
          BY <3>4, <3>5, <5>1 DEF Captured, Passed
        <5>3. Passed(p, q, o) <=> \E i \in 0 .. n - 1 : o = (p + i) % s
          <6>1. q \in Int /\ q = (p + n) % s
            BY <3>5, <3>6
          <6> QED BY <5>1, <6>1, PassCovers
        <5> QED BY <4>3, <5>2, <5>3
      <4>4. CASE o = StopOffset
        BY <3>2, <3>4, <3>5, <3>6, <4>1, <4>4 DEF Captured
      <4> QED BY <4>2, <4>3, <4>4
    <3>8. fired = {o \in mNotifies : Captured(o)}
      BY <2>1, <2>3 DEF NoteInv
    <3> QED BY <3>2, <3>3, <3>4, <3>7, <3>8
  <2> QED BY <2>2, <2>3 DEF MarkersAreExact
<1> QED BY <1>1, Invariance, PTL

-----------------------------------------------------------------------------
(* What GetCurrentPosition reports.                                        *)

\* The bytes from h frames after m round to m, of s.
LEMMA RestOfRing ==
  ASSUME NEW s \in Nat \ {0}, NEW m \in 0 .. s - 1, NEW h \in 0 .. s - 1,
         NEW c \in Int, c = (m + h) % s
  PROVE  (IF c = m THEN s ELSE (m - c) % s) = s - h
<1>1. c = IF m + h < s THEN m + h ELSE m + h - s
  <2>1. PICK n \in Int : n = m + h
    OBVIOUS
  <2>2. -s <= n /\ n < 2 * s /\ n >= 0
    BY <2>1
  <2>3. n % s = IF n < 0 THEN n + s ELSE IF n < s THEN n ELSE n - s
    BY <2>2, Turned
  <2> QED BY <2>1, <2>2, <2>3
<1>2. CASE h = 0
  BY <1>1, <1>2
<1>3. CASE h > 0
  <2>1. c # m
    BY <1>1, <1>3
  <2>2. PICK n \in Int : n = m - c
    <3>1. m - c \in Int
      OBVIOUS
    <3> QED BY <3>1
  <2>3. -s <= n /\ n < 2 * s
    BY <1>1, <2>2
  <2>4. n % s = IF n < 0 THEN n + s ELSE IF n < s THEN n ELSE n - s
    BY <2>3, Turned
  <2>5. n % s = s - h
    <3>1. n = -h \/ n = s - h
      BY <1>1, <2>2
    <3> QED BY <1>3, <2>4, <3>1
  <2> QED BY <2>1, <2>2, <2>5
<1> QED BY <1>2, <1>3

(* From the capture position that GetCurrentPosition reports, in the       *)
(* middle of a read as well, round to the read position the ring holds the *)
(* newest samples that the thread has published, if it holds more than 10  *)
(* ms and a read is of no more.                                            *)
THEOREM ReadableStaysIntact == Spec => []ReadableIsIntact
<1>1. IInv => ReadableIsIntact
  <2> DEFINE u == IF thread = "Reading" THEN passed ELSE 0
             readable == IF CapturePosition = mWritePos THEN size
                         ELSE (mWritePos - CapturePosition) % size
  <2> SUFFICES ASSUME IInv, size > 0, Ahead < Frames, u <= Ahead,
                      NEW back \in 1 .. readable \div Align, back <= taken - u
               PROVE  mBuffer[Before(mWritePos, back)] = (taken - u) - back + 1
    BY DEF ReadableIsIntact
  <2> USE AlignAssumption
  <2>1. Types /\ LifeInv /\ CountInv /\ PlaceInv
    BY DEF IInv, Facts
  <2>2. size \in Nat \ {0} /\ size % Align = 0
    BY <2>1, SizesAssumption DEF LifeInv
  <2>3. PICK s \in Nat \ {0} : s = size
    BY <2>2
  <2>4. PICK m \in 0 .. s - 1 : m = mWritePos
    BY <2>1, <2>3 DEF PlaceInv, Position
  <2>5. PICK v \in Nat : v = u
    BY <2>1 DEF CountInv
  <2>6. PICK F \in Nat : F = Frames /\ s = F * Align
    <3>1. s \div Align \in Nat /\ s - (s % Align) = (s \div Align) * Align
      BY DivMod
    <3> QED BY <2>2, <2>3, <3>1 DEF Frames
  <2>7. PICK h \in 0 .. s - 1 : h = Ahead * Align
    <3>1. Ahead * Align \in Nat /\ Ahead * Align + Align <= size
      BY <2>2, AheadAssumption, PartOfRing
    <3> QED BY <2>3, <3>1
  <2>8. PICK k \in Nat : k <= F - v /\ readable = k * Align
    <3>1. CASE mCapturing
      <4>1. CapturePosition = (m + h) % s
        BY <2>3, <2>4, <2>7, <3>1 DEF CapturePosition
      <4>2. readable = s - h
        <5>1. PICK c \in Int : c = CapturePosition /\ c = (m + h) % s
          <6>1. PICK x \in Int : x = m + h
            OBVIOUS
          <6>2. x % s \in Int
            BY IntDivMod
          <6> QED BY <4>1, <6>1, <6>2
        <5>2. (IF c = m THEN s ELSE (m - c) % s) = s - h
          BY <5>1, RestOfRing
        <5> QED BY <2>3, <2>4, <5>1, <5>2
      <4>3. PICK k \in Nat : F = Ahead + k
        <5>1. F - Ahead \in Nat /\ F = Ahead + (F - Ahead)
          BY <2>6, AheadAssumption
        <5> QED BY <5>1
      <4>4. F * Align = Ahead * Align + k * Align /\ k * Align \in Nat
        BY <4>3, AheadAssumption
      <4>5. k * Align = s - h
        BY <2>6, <2>7, <4>4
      <4>6. k <= F - v
        BY <2>5, <4>3, AheadAssumption
      <4> QED BY <4>2, <4>5, <4>6
    <3>2. CASE ~mCapturing
      <4>1. v = 0
        BY <2>1, <2>5, <3>2 DEF LifeInv
      <4>2. readable = F * Align
        BY <2>3, <2>6, <3>2 DEF CapturePosition
      <4> QED BY <4>1, <4>2
    <3> QED BY <3>1, <3>2
  <2> HIDE DEF readable, u
  <2>9. back \in Nat /\ back >= 1 /\ back <= k
    <3>1. k * Align = k * Align + 0 /\ k \in Int /\ 0 \in 0 .. Align - 1 /\ k * Align \in Int
      OBVIOUS
    <3>2. PICK x \in Int : x = k * Align + 0
      BY <3>1
    <3>3. x \div Align = k
      BY <3>1, <3>2, Quotient
    <3>4. readable \div Align = k
      BY <2>8, <3>1, <3>2, <3>3
    <3> QED BY <3>4
  <2>10. PICK b \in 1 .. F : b = back + v
    BY <2>8, <2>9
  <2>11. PICK n \in Nat : n = taken
    BY <2>1 DEF CountInv
  <2>12. mBuffer[Before(End, b) + 0] = n - b + 1
    <3>1. b \in 1 .. Frames /\ b <= taken /\ 0 \in 0 .. Align - 1
      BY <2>5, <2>6, <2>9, <2>10, <2>11
    <3> QED BY <2>11, <3>1, LatestHeld
  <2>13. Before(End, b) = Before(m, back) /\ Before(m, back) \in Int
    <3>1. PICK z \in Int : z = m - back * Align
      BY <2>9
    <3>2. z % s \in Int
      BY IntDivMod
    <3>3. CASE thread = "Reading"
      <4>1. PICK x \in Int : x = m + v * Align
        OBVIOUS
      <4>2. End = x % s
        BY <2>1, <2>3, <2>4, <2>5, <3>3, <4>1 DEF End, PlaceInv, u
      <4>3. PICK y \in Int : y = -(b * Align)
        OBVIOUS
      <4>4. ((x % s) + y) % s = (x + y) % s
        BY SumMod
      <4>5. b * Align = back * Align + v * Align
            /\ back * Align \in Int /\ v * Align \in Int
        BY <2>9, <2>10
      <4>6. x + y = z
        BY <3>1, <4>1, <4>3, <4>5
      <4>7. End - b * Align = (x % s) + y
        <5>1. x % s \in Int /\ b * Align \in Int
          BY IntDivMod
        <5> QED BY <4>2, <4>3, <5>1
      <4> QED BY <2>3, <3>1, <3>2, <4>4, <4>6, <4>7 DEF Before
    <3>4. CASE thread # "Reading"
      <4>1. v = 0 /\ End = m
        BY <2>4, <2>5, <3>4 DEF u, End
      <4>2. b = back
        BY <2>9, <2>10, <4>1
      <4> QED BY <2>3, <3>1, <3>2, <4>1, <4>2 DEF Before
    <3> QED BY <3>3, <3>4
  <2> QED BY <2>4, <2>5, <2>9, <2>10, <2>11, <2>12, <2>13
<1> QED BY <1>1, Invariance, PTL

-----------------------------------------------------------------------------
(* Lock and Unlock.                                                        *)

LEMMA ModOfMultiple ==
  ASSUME NEW q \in Nat, NEW m \in Nat \ {0}
  PROVE  (q * m) % m = 0
OBVIOUS

\* n rounded down to a multiple of m is one.
LEMMA RoundedDown ==
  ASSUME NEW n \in Nat, NEW m \in Nat \ {0}
  PROVE  (n - (n % m)) % m = 0
BY DivMod, ModOfMultiple

-----------------------------------------------------------------------------
(* A buffer that SharedBuffer::Create makes has the least size in whole    *)
(* blocks that holds dwBufferBytes: where the rounding wraps around a      *)
(* DWORD the result is 0, and Create refuses it as too small.              *)
THEOREM BufferSizesAreExact ==
  ASSUME NEW f \in Formats, NEW bytes \in 0 .. DWORDs - 1
  PROVE  SizeIsExact(f, bytes)
<1> SUFFICES ASSUME Created(f, bytes)
             PROVE  SizeIsExact(f, bytes)
  BY DEF SizeIsExact
<1> DEFINE align == f.nBlockAlign
           sum == bytes + align - 1
           up == sum % DWORDs
           len == BufSize(f, bytes)
<1>0. align \in 1 .. WORDs - 1
  BY DEF Formats, Created, ValidFormat
<1>1. /\ bytes \in Nat /\ align \in Nat \ {0} /\ DWORDs \in Nat \ {0}
      /\ sum \in Nat /\ sum < 2 * DWORDs /\ sum - DWORDs < align
  BY <1>0, WidthAssumption
<1>2. len = up - (up % align)
  BY DEF BufSize
<1>3. CASE sum < DWORDs
  <2>1. up = sum
    BY <1>1, <1>3, SmallMod
  <2>2. sum % align \in 0 .. align - 1 /\ sum % align <= sum
    BY <1>1, ModBounds
  <2>3. len = sum - (sum % align) /\ len % align = 0
    BY <1>1, <1>2, <2>1, RoundedDown
  <2>4. len - align < bytes /\ bytes <= len
    <3> HIDE DEF len
    <3> QED BY <1>1, <2>2, <2>3
  <2> QED BY <2>3, <2>4 DEF SizeIsExact
<1>4. CASE DWORDs <= sum
  <2>1. up = sum - DWORDs /\ up \in Nat /\ up < align
    <3> HIDE DEF sum
    <3>1. sum % DWORDs = sum - DWORDs
      BY <1>1, <1>4, WrappedMod
    <3> QED BY <1>1, <1>4, <3>1
  <2>2. up % align = up
    BY <1>1, <2>1, SmallMod
  <2>3. len = 0
    BY <1>2, <2>1, <2>2
  <2> QED BY <2>3, LimitsAssumption DEF SizeIsExact, Created
<1> QED BY <1>1, <1>3, <1>4

-----------------------------------------------------------------------------
\* The regions that go around where o + bytes passes the end.
LEMMA SplitTiles ==
  ASSUME NEW len \in Nat \ {0}, NEW o \in 0 .. len, NEW bytes \in 0 .. len,
         NEW r,
         r = [ofs1 |-> o, len1 |-> IF o + bytes > len THEN len - o ELSE bytes,
              ofs2 |-> 0,
              len2 |-> bytes - (IF o + bytes > len THEN len - o ELSE bytes)]
  PROVE  Tile(r, o, bytes, len)
<1>1. /\ r.ofs1 = o /\ r.ofs2 = 0
      /\ r.len1 = IF o + bytes > len THEN len - o ELSE bytes
      /\ r.len2 = bytes - r.len1
  OBVIOUS
<1>2. r.len1 \in 0 .. len - o /\ r.len2 \in 0 .. o /\ r.len1 + r.len2 = bytes
  BY <1>1
<1>3. /\ Region(r.ofs1, r.len1) = o .. o + r.len1 - 1
      /\ Region(r.ofs2, r.len2) = 0 .. r.len2 - 1
  BY <1>1 DEF Region
<1>4. Apart(r, len)
  BY <1>2, <1>3 DEF Apart
<1>5. ASSUME NEW p \in Ring(o, bytes, len)
      PROVE  p \in Region(r.ofs1, r.len1) \cup Region(r.ofs2, r.len2)
  <2>1. PICK k \in 0 .. bytes - 1 : p = (o + k) % len
    BY <1>5 DEF Ring
  <2>2. p = IF o + k < len THEN o + k ELSE o + k - len
    <3> DEFINE n == o + k
    <3>1. n \in Nat /\ n < 2 * len /\ p = n % len
      BY <2>1
    <3> HIDE DEF n
    <3>2. n \in Int /\ -len <= n /\ n >= 0
      BY <3>1
    <3>3. n % len = IF n < 0 THEN n + len ELSE IF n < len THEN n ELSE n - len
      BY <3>1, <3>2, Turned
    <3> QED BY <3>1, <3>2, <3>3 DEF n
  <2> QED BY <1>1, <1>2, <1>3, <2>1, <2>2
<1>6. ASSUME NEW p \in Region(r.ofs1, r.len1) \cup Region(r.ofs2, r.len2)
      PROVE  p \in Ring(o, bytes, len)
  <2>1. CASE p \in Region(r.ofs1, r.len1)
    <3>1. p \in Nat /\ p < len /\ p - o \in 0 .. bytes - 1 /\ o + (p - o) = p
      BY <1>2, <1>3, <2>1
    <3>2. p % len = p
      BY <3>1, SmallMod
    <3> QED BY <3>1, <3>2 DEF Ring
  <2>2. CASE p \in Region(r.ofs2, r.len2)
    <3> DEFINE n == p + len
    <3>1. /\ p \in Nat /\ p < len /\ r.len1 = len - o
          /\ n - o \in 0 .. bytes - 1 /\ o + (n - o) = n
          /\ n \in Nat /\ n < 2 * len /\ n >= len /\ n - len = p
      BY <1>1, <1>2, <1>3, <2>2
    <3> HIDE DEF n
    <3>2. n % len = p
      BY <3>1, WrappedMod
    <3> QED BY <3>1, <3>2 DEF Ring
  <2> QED BY <1>6, <2>1, <2>2
<1> QED BY <1>2, <1>4, <1>5, <1>6 DEF Tile

(* What Buffer::Lock hands out is exactly what was asked for, going around *)
(* at the end; Unlock takes it back, also from a caller that did not ask   *)
(* for the second region.                                                  *)
THEOREM BufferLocksTile ==
  ASSUME NEW len \in Nat \ {0}, NEW max \in Nat, NEW req \in Requests(max),
         NEW cursor \in 0 .. len - 1, BufferAccepts(req, len)
  PROVE  LET o == Offset(req, cursor)
             b == Bytes(req, len)
             r == BufferRegions(o, b, len)
         IN Tile(r, o, b, len) /\ BufferUnlocks(r, len)
                                /\ BufferUnlocks(FirstOnly(r), len)
<1> DEFINE o == Offset(req, cursor)
           b == Bytes(req, len)
           r == BufferRegions(o, b, len)
<1>1. o \in 0 .. len - 1 /\ b \in 0 .. len
  BY DEF Requests, BufferAccepts, Offset, Bytes
<1> HIDE DEF o, b
<1>2. r = [ofs1 |-> o, len1 |-> IF o + b > len THEN len - o ELSE b,
           ofs2 |-> 0,
           len2 |-> b - (IF o + b > len THEN len - o ELSE b)]
  BY <1>1 DEF BufferRegions
<1> HIDE DEF r
<1>3. Tile(r, o, b, len)
  BY <1>1, <1>2, SplitTiles
<1>4. BufferUnlocks(r, len)
  BY <1>1, <1>2 DEF BufferUnlocks
<1>5. BufferUnlocks(FirstOnly(r), len)
  BY <1>1, <1>2 DEF BufferUnlocks, FirstOnly
<1> QED BY <1>3, <1>4, <1>5 DEF r, o, b

(* The same for DSCBuffer::Lock, whose read position may be the size.      *)
THEOREM CaptureLocksTile ==
  ASSUME NEW len \in Nat \ {0}, NEW max \in Nat, NEW req \in Requests(max),
         CaptureAccepts(req, len)
  PROVE  LET b == Bytes(req, len)
             r == CaptureRegions(req.offset, b, len)
         IN Tile(r, req.offset, b, len) /\ CaptureUnlocks(r, len)
                                         /\ CaptureUnlocks(FirstOnly(r), len)
<1> DEFINE o == req.offset
           b == Bytes(req, len)
           r == CaptureRegions(o, b, len)
<1>1. o \in 0 .. len /\ b \in 0 .. len
  BY DEF Requests, CaptureAccepts, Bytes
<1> HIDE DEF o, b
<1>2. r = [ofs1 |-> o, len1 |-> IF o + b > len THEN len - o ELSE b,
           ofs2 |-> 0,
           len2 |-> b - (IF o + b > len THEN len - o ELSE b)]
  BY <1>1 DEF CaptureRegions
<1> HIDE DEF r
<1>3. Tile(r, o, b, len)
  BY <1>1, <1>2, SplitTiles
<1>4. CaptureUnlocks(r, len)
  BY <1>1, <1>2 DEF CaptureUnlocks
<1>5. CaptureUnlocks(FirstOnly(r), len)
  BY <1>1, <1>2 DEF CaptureUnlocks, FirstOnly
<1> QED BY <1>3, <1>4, <1>5 DEF r, o, b

(* Whatever regions an Unlock of a buffer takes back, they are inside of   *)
(* the buffer and apart from each other.                                   *)
THEOREM UnlockedAreApart ==
  ASSUME NEW len \in Nat,
         NEW r \in [ofs1 : Nat, len1 : Nat, ofs2 : Nat, len2 : Nat],
         BufferUnlocks(r, len) \/ CaptureUnlocks(r, len)
  PROVE  Apart(r, len)
BY DEF BufferUnlocks, CaptureUnlocks, Apart, Region

-----------------------------------------------------------------------------
LEMMA SampleWidths ==
  ASSUME NEW f \in WaveFormats, NEW type \in SampleTypes, IsSample(type, f)
  PROVE  /\ SampleBytes(type) \in {1, 2, 4}
         /\ f.wBitsPerSample = 8 * SampleBytes(type)
BY DEF SampleTypes, SampleBytes, IsSample

LEMMA ChannelCounts ==
  ASSUME NEW config \in Configs
  PROVE  Channels(config) \in {1, 2, 4, 6, 8}
BY DEF Configs, Channels

LEMMA FormatFields ==
  ASSUME NEW f \in WaveFormats
  PROVE  /\ f.nChannels \in Nat /\ f.wBitsPerSample \in Nat
         /\ f.nBlockAlign \in 0 .. WORDs - 1 /\ f.cbSize \in Nat
         /\ f.wValidBitsPerSample \in Nat /\ f.dwChannelMask \in SUBSET Speakers
         /\ f.nSamplesPerSec \in Nat /\ f.nAvgBytesPerSec \in Nat
BY WidthAssumption DEF WaveFormats, WaveFormatsOf

\* The division of Create is exact for the sample types there are.
LEMMA EightTimes ==
  ASSUME NEW n \in Nat
  PROVE  (8 * n) \div 8 = n
OBVIOUS

\* What follows from the tests of the block size.
LEMMA BlockOfFrame ==
  ASSUME NEW f \in WaveFormats, ValidFormat(f),
         NEW type \in SampleTypes, NEW config \in Configs,
         IsSample(type, f), f.nChannels = Channels(config)
  PROVE  f.nBlockAlign = Channels(config) * SampleBytes(type)
<1> DEFINE c == Channels(config)
           s == SampleBytes(type)
<1>1. c \in {1, 2, 4, 6, 8} /\ s \in {1, 2, 4} /\ f.wBitsPerSample = 8 * s
  BY SampleWidths, ChannelCounts
<1>2. f.nBlockAlign = (c * (8 * s)) \div 8
  BY <1>1 DEF ValidFormat
<1> HIDE DEF c, s
<1>3. c * (8 * s) = 8 * (c * s) /\ c * s \in Nat
  BY <1>1
<1>4. f.nBlockAlign = c * s
  BY <1>2, <1>3, EightTimes
<1> QED BY <1>4 DEF c, s

LEMMA OneSample ==
  ASSUME NEW f \in WaveFormats, NEW s \in SampleTypes, NEW t \in SampleTypes,
         IsSample(s, f), IsSample(t, f)
  PROVE  s = t
BY DEF IsSample, SampleTypes, SampleBytes

\* The masks of the two stereo configurations differ.
LEMMA FrontIsNotBack == Front # {} /\ Back # {} /\ Front # Back
<1>1. "FRONT_LEFT" \in Front /\ "FRONT_LEFT" \notin Back
  BY DEF Front, Back
<1>2. "BACK_LEFT" \in Back
  BY DEF Back
<1> QED BY <1>1, <1>2

LEMMA OneConfig ==
  ASSUME NEW f \in WaveFormats, NEW c \in Configs, NEW d \in Configs,
         IsConfig(c, f), IsConfig(d, f)
  PROVE  c = d
<1>1. Channels(c) = Channels(d)
  BY DEF IsConfig
<1>2. c = d \/ {c, d} = {"Stereo", "RearStereo"}
  BY <1>1 DEF Configs, Channels
<1>3. ASSUME c # d PROVE FALSE
  <2>1. IsConfig("Stereo", f) /\ IsConfig("RearStereo", f)
    BY <1>2, <1>3
  <2>2. f.dwChannelMask \in {{}, Front} /\ f.dwChannelMask \in {Back}
    BY <2>1 DEF IsConfig, Masks
  <2> QED BY <2>2, FrontIsNotBack
<1> QED BY <1>3

\* A capture buffer's configuration is one that ConvertFormat would find.
LEMMA CaptureConfig ==
  ASSUME NEW f \in WaveFormats, NEW p \in CaptureFormat(f)
  PROVE  /\ p \in [type : SampleTypes, config : Configs]
         /\ IsSample(p.type, f) /\ IsConfig(p.config, f)
<1>1. p \in [type : {"UInt8", "Int16"}, config : {"Mono", "Stereo"}]
  BY DEF CaptureFormat
<1>2. /\ IsSample(p.type, f) /\ f.nChannels = Channels(p.config)
      /\ IsExtensible(f) => f.dwChannelMask = CaptureMask(p.config)
  BY DEF CaptureFormat
<1>3. IsExtensible(f) => f.dwChannelMask \in Masks(p.config)
  BY <1>1, <1>2 DEF CaptureMask, Masks
<1> QED BY <1>1, <1>2, <1>3 DEF IsConfig, SampleTypes, Configs

LEMMA BufferConfig ==
  ASSUME NEW f \in WaveFormats, NEW exts, NEW p \in BufferFormat(f, exts)
  PROVE  /\ p \in [type : SampleTypes, config : Configs]
         /\ IsSample(p.type, f) /\ IsConfig(p.config, f)
BY DEF BufferFormat, ConvertFormat

(* A format that a sound buffer or a capture buffer accepts has one OpenAL *)
(* format, whose frames are the format's blocks.                           *)
THEOREM FramesMatch ==
  ASSUME NEW f \in WaveFormats, NEW exts
  PROVE  FramesAreBlocks(f, exts)
<1> DEFINE All == BufferFormat(f, exts) \cup CaptureFormat(f)
<1>1. ASSUME NEW p \in All
      PROVE  /\ p \in [type : SampleTypes, config : Configs]
             /\ IsSample(p.type, f) /\ IsConfig(p.config, f) /\ ValidFormat(f)
  <2>1. ValidFormat(f)
    BY <1>1 DEF BufferFormat, CaptureFormat
  <2> QED BY <1>1, <2>1, CaptureConfig, BufferConfig
<1> HIDE DEF All
<1>2. ASSUME NEW p \in All
      PROVE  FrameSize(p) = f.nBlockAlign
  <2>1. f.nChannels = Channels(p.config)
    BY <1>1, <1>2 DEF IsConfig
  <2>2. p.type \in SampleTypes /\ p.config \in Configs
    BY <1>1, <1>2
  <2> QED BY <1>1, <1>2, <2>1, <2>2, BlockOfFrame DEF FrameSize
<1>3. ASSUME NEW p \in All, NEW q \in All
      PROVE  q = p
  <2>1. p.type = q.type
    BY <1>1, <1>3, OneSample
  <2>2. p.config = q.config
    BY <1>1, <1>3, OneConfig
  <2> QED BY <1>1, <1>3, <2>1, <2>2
<1> QED BY <1>2, <1>3 DEF FramesAreBlocks, All

(* A sound buffer's data is a whole number of OpenAL frames, so that its   *)
(* end is the end of a frame.                                              *)
THEOREM DataIsWhole ==
  ASSUME NEW f \in WaveFormats, NEW exts, NEW bytes \in 0 .. DWORDs - 1
  PROVE  BuffersAreWhole(f, bytes, exts)
<1> SUFFICES ASSUME NEW p \in BufferFormat(f, exts), Created(f, bytes)
             PROVE  BufSize(f, bytes) % FrameSize(p) = 0
  BY DEF BuffersAreWhole
<1> DEFINE g == [nChannels |-> f.nChannels, wBitsPerSample |-> f.wBitsPerSample,
                 nBlockAlign |-> f.nBlockAlign]
<1>1. FrameSize(p) = f.nBlockAlign
  BY FramesMatch DEF FramesAreBlocks
<1>2. g \in Formats
  BY DEF Formats, WaveFormats, WaveFormatsOf
<1>3. BufSize(g, bytes) = BufSize(f, bytes) /\ g.nBlockAlign = f.nBlockAlign
  BY DEF BufSize
<1>4. ValidFormat(g)
  BY DEF Created, ValidFormat
<1>5. Created(g, bytes)
  BY <1>3, <1>4 DEF Created
<1>6. BufSize(g, bytes) % g.nBlockAlign = 0
  <2> HIDE DEF g
  <2> QED BY <1>2, <1>5, BufferSizesAreExact DEF SizeIsExact
<1> QED BY <1>1, <1>3, <1>6

-----------------------------------------------------------------------------
(* Reported formats.                                                       *)

\* What two formats agree on that Create looks at.
Alike(f, g) ==
  /\ g.wFormatTag = f.wFormatTag /\ g.nChannels = f.nChannels
  /\ g.nSamplesPerSec = f.nSamplesPerSec
  /\ g.nAvgBytesPerSec = f.nAvgBytesPerSec
  /\ g.nBlockAlign = f.nBlockAlign /\ g.wBitsPerSample = f.wBitsPerSample
  /\ IsExtensible(f) =>
       /\ g.dwChannelMask = f.dwChannelMask /\ g.SubFormat = f.SubFormat
       /\ Unpadded(f) <=> Unpadded(g)

LEMMA StoredFields ==
  ASSUME NEW f \in WaveFormats
  PROVE  /\ Alike(f, Stored(f))
         /\ IsExtensible(f) => Stored(f).cbSize = ExtExtraSize
<1>1. CASE IsExtensible(f)
  <2> DEFINE valid == IF f.wValidBitsPerSample = 0 THEN f.wBitsPerSample
                      ELSE f.wValidBitsPerSample
  <2>1. Stored(f) = [f EXCEPT !.cbSize = ExtExtraSize,
                              !.wValidBitsPerSample = valid]
    BY <1>1 DEF Stored
  <2>2. /\ Stored(f).wFormatTag = f.wFormatTag
        /\ Stored(f).nChannels = f.nChannels
        /\ Stored(f).nSamplesPerSec = f.nSamplesPerSec
        /\ Stored(f).nAvgBytesPerSec = f.nAvgBytesPerSec
        /\ Stored(f).nBlockAlign = f.nBlockAlign
        /\ Stored(f).wBitsPerSample = f.wBitsPerSample
        /\ Stored(f).dwChannelMask = f.dwChannelMask
        /\ Stored(f).SubFormat = f.SubFormat
        /\ Stored(f).cbSize = ExtExtraSize
        /\ Stored(f).wValidBitsPerSample = valid
    BY <2>1 DEF WaveFormats, WaveFormatsOf
  <2>3. Unpadded(f) <=> Unpadded(Stored(f))
    BY <1>1, <2>2 DEF Unpadded, IsExtensible
  <2> QED BY <2>2, <2>3 DEF Alike
<1>2. CASE ~IsExtensible(f)
  <2>1. Stored(f) = [f EXCEPT !.cbSize = 0]
    BY <1>2 DEF Stored
  <2>2. /\ Stored(f).wFormatTag = f.wFormatTag
        /\ Stored(f).nChannels = f.nChannels
        /\ Stored(f).nSamplesPerSec = f.nSamplesPerSec
        /\ Stored(f).nAvgBytesPerSec = f.nAvgBytesPerSec
        /\ Stored(f).nBlockAlign = f.nBlockAlign
        /\ Stored(f).wBitsPerSample = f.wBitsPerSample
    BY <2>1 DEF WaveFormats, WaveFormatsOf
  <2> QED BY <1>2, <2>2 DEF Alike
<1> QED BY <1>1, <1>2

LEMMA ReportedFields ==
  ASSUME NEW f \in WaveFormats, NEW g \in WaveFormats, MayReport(Stored(f), g)
  PROVE  Alike(f, g) /\ (IsExtensible(f) => Complete(g))
<1> DEFINE d == Stored(f)
<1>1. Alike(f, d) /\ (IsExtensible(f) => d.cbSize = ExtExtraSize)
  BY StoredFields
<1> HIDE DEF d
<1>2. MayReport(d, g)
  BY DEF d
<1>3. /\ g.wFormatTag = d.wFormatTag /\ g.nChannels = d.nChannels
      /\ g.nSamplesPerSec = d.nSamplesPerSec
      /\ g.nAvgBytesPerSec = d.nAvgBytesPerSec
      /\ g.nBlockAlign = d.nBlockAlign /\ g.wBitsPerSample = d.wBitsPerSample
      /\ g.cbSize = d.cbSize
      /\ IsExtensible(f) =>
           /\ g.dwChannelMask = d.dwChannelMask /\ g.SubFormat = d.SubFormat
           /\ g.wValidBitsPerSample = d.wValidBitsPerSample
  BY <1>1, <1>2 DEF MayReport, ExtExtraSize
<1>4. IsExtensible(f) => (Unpadded(g) <=> Unpadded(f))
  BY <1>1, <1>3 DEF Alike, Unpadded, IsExtensible
<1> QED BY <1>1, <1>3, <1>4 DEF Alike, Complete, ExtExtraSize

LEMMA AlikeConvert ==
  ASSUME NEW f, NEW g, Alike(f, g)
  PROVE  /\ IsExtensible(g) <=> IsExtensible(f)
         /\ Encoding(g) = Encoding(f)
         /\ Unpadded(g) <=> Unpadded(f)
         /\ ValidFormat(g) <=> ValidFormat(f)
         /\ ValidRate(g) <=> ValidRate(f)
         /\ BytesPerSec(g) = BytesPerSec(f)
         /\ ConvertFormat(g) = ConvertFormat(f)
<1>1. (IsExtensible(g) <=> IsExtensible(f)) /\ Encoding(g) = Encoding(f)
  BY DEF Alike, IsExtensible, Encoding
<1>2. Unpadded(g) <=> Unpadded(f)
  BY <1>1 DEF Alike, Unpadded
<1>3. /\ ValidFormat(g) <=> ValidFormat(f)
      /\ ValidRate(g) <=> ValidRate(f)
      /\ BytesPerSec(g) = BytesPerSec(f)
  BY DEF Alike, ValidFormat, ValidRate, BytesPerSec
<1>4. ASSUME NEW t PROVE IsSample(t, g) <=> IsSample(t, f)
  BY <1>1 DEF Alike, IsSample
<1>5. ASSUME NEW c PROVE IsConfig(c, g) <=> IsConfig(c, f)
  BY <1>1 DEF Alike, IsConfig
<1>6. ConvertFormat(g) = ConvertFormat(f)
  BY <1>2, <1>4, <1>5 DEF ConvertFormat
<1> QED BY <1>1, <1>2, <1>3, <1>6

(* A buffer can be made again from the format that one reports, whatever   *)
(* follows it in memory, and has the same OpenAL format.                   *)
THEOREM ReportedIsAcceptedAgain ==
  ASSUME NEW f \in WaveFormats, NEW g \in WaveFormats, NEW exts
  PROVE  ReportedIsAccepted(f, g, exts)
<1> SUFFICES ASSUME MayReport(Stored(f), g), BufferFormat(f, exts) # {}
             PROVE  BufferFormat(g, exts) = BufferFormat(f, exts)
  BY DEF ReportedIsAccepted
<1>1. Alike(f, g) /\ Complete(g)
  BY ReportedFields DEF Alike, Complete, IsExtensible
<1>2. Complete(f) /\ g.nAvgBytesPerSec = f.nAvgBytesPerSec
  BY <1>1 DEF BufferFormat, Alike
<1> QED BY <1>1, <1>2, AlikeConvert DEF BufferFormat

\* The byte rate of a capture buffer does not wrap around to 0.
LEMMA CapturedByteRate ==
  ASSUME NEW f \in WaveFormats, CaptureFormat(f) # {}
  PROVE  f.nAvgBytesPerSec # 0
<1>1. PICK p \in CaptureFormat(f) : TRUE
  OBVIOUS
<1> DEFINE r == f.nSamplesPerSec
           a == f.nBlockAlign
<1>2. /\ p \in [type : {"UInt8", "Int16"}, config : {"Mono", "Stereo"}]
      /\ IsSample(p.type, f) /\ f.nChannels = Channels(p.config)
      /\ ValidFormat(f) /\ ValidRate(f) /\ f.nAvgBytesPerSec = BytesPerSec(f)
  BY <1>1 DEF CaptureFormat
<1>3. a = Channels(p.config) * SampleBytes(p.type)
  BY <1>2, BlockOfFrame DEF SampleTypes, Configs
<1>4. a \in 1 .. 4
  BY <1>2, <1>3 DEF Channels, SampleBytes
<1>5. r \in Nat \ {0} /\ r <= DSBFREQUENCY_MAX
  BY <1>2, FrequencyAssumption DEF ValidRate
<1> HIDE DEF r, a
<1>6. a = 1 \/ a = 2 \/ a = 3 \/ a = 4
  BY <1>4
<1>7. r * a \in Nat \ {0} /\ r * a < DWORDs
  BY <1>5, <1>6, FrequencyAssumption, WidthAssumption
<1>8. (r * a) % DWORDs = r * a
  BY <1>7, SmallMod, WidthAssumption
<1> QED BY <1>2, <1>7, <1>8 DEF BytesPerSec, r, a

(* What was captured can be played as it is, with no extension of OpenAL,  *)
(* and another capture buffer can be made for it.                          *)
THEOREM CapturedFormatsPlay ==
  ASSUME NEW f \in WaveFormats, NEW g \in WaveFormats, NEW exts
  PROVE  CapturedIsPlayable(f, g, exts)
<1> SUFFICES ASSUME MayReport(Stored(f), g), CaptureFormat(f) # {}
             PROVE  /\ BufferFormat(g, exts) = CaptureFormat(f)
                    /\ CaptureFormat(g) = CaptureFormat(f)
  BY DEF CapturedIsPlayable
<1>1. Alike(f, g) /\ Complete(g)
  BY ReportedFields DEF Alike, Complete, IsExtensible
<1>2. CaptureFormat(g) = CaptureFormat(f)
  <2>1. ASSUME NEW t PROVE IsSample(t, g) <=> IsSample(t, f)
    BY <1>1, AlikeConvert DEF IsSample, Alike
  <2>2. IsExtensible(f) => f.cbSize \in {ExtExtraSize, ExtensibleSize}
    BY DEF CaptureFormat
  <2>3. IsExtensible(f) => g.cbSize = ExtExtraSize
    BY DEF MayReport, Stored, IsExtensible, WaveFormats, WaveFormatsOf
  <2>4. IsExtensible(g) <=> IsExtensible(f)
    BY <1>1 DEF IsExtensible, Alike
  <2> QED BY <1>1, <2>1, <2>2, <2>3, <2>4, AlikeConvert DEF CaptureFormat, Alike
<1>3. PICK p \in CaptureFormat(g) : TRUE
  BY <1>2
<1>4. /\ p \in [type : {"UInt8", "Int16"}, config : {"Mono", "Stereo"}]
      /\ Unpadded(g) /\ ValidFormat(g) /\ ValidRate(g)
  BY <1>3 DEF CaptureFormat
<1>5. p \in ConvertFormat(g)
  BY <1>3, <1>4, CaptureConfig DEF ConvertFormat
<1>6. HasALFormat(p, exts)
  BY <1>4 DEF HasALFormat
<1>7. g.nAvgBytesPerSec # 0
  BY <1>3, CapturedByteRate
<1>8. p \in BufferFormat(g, exts)
  BY <1>1, <1>4, <1>5, <1>6, <1>7 DEF BufferFormat
<1>9. BufferFormat(g, exts) = CaptureFormat(g)
  BY <1>3, <1>8, FramesMatch DEF FramesAreBlocks
<1> QED BY <1>2, <1>9

(* The write emulation of the primary buffer gets the OpenAL format of a   *)
(* secondary buffer, and none exactly where that would have none.          *)
THEOREM EmulationFormats ==
  ASSUME NEW f \in WaveFormats, NEW exts
  PROVE  EmulationIsExact(f, exts)
<1>1. ASSUME BufferFormat(f, exts) # {}, f.nAvgBytesPerSec = BytesPerSec(f)
      PROVE  PrimaryTakes(f)
  <2>1. PICK p \in BufferFormat(f, exts) : TRUE
    BY <1>1
  <2>2. /\ p.type \in SampleTypes /\ IsSample(p.type, f)
        /\ Unpadded(f) /\ ValidFormat(f) /\ ValidRate(f) /\ Complete(f)
    BY <2>1 DEF BufferFormat, ConvertFormat
  <2>3. \/ Encoding(f) = "PCM" /\ f.wBitsPerSample <= 32
        \/ Encoding(f) = "IEEE_FLOAT" /\ f.wBitsPerSample = 32
    BY <2>2 DEF IsSample, SampleTypes, SampleBytes
  <2>4. IsExtensible(f) => f.wValidBitsPerSample <= f.wBitsPerSample
    BY <2>2, FormatFields DEF Unpadded
  <2> QED BY <1>1, <2>2, <2>3, <2>4 DEF PrimaryTakes
<1>2. ASSUME PrimaryTakes(f)
      PROVE  BufferFormat(Stored(f), exts) = BufferFormat(f, exts)
  <2>1. Alike(f, Stored(f)) /\ Complete(Stored(f))
    BY StoredFields DEF Alike, Complete, IsExtensible, ExtExtraSize
  <2>2. Complete(f)
    BY <1>2 DEF PrimaryTakes
  <2>3. Stored(f).nAvgBytesPerSec = f.nAvgBytesPerSec
    BY <2>1 DEF Alike
  <2> QED BY <2>1, <2>2, <2>3, AlikeConvert DEF BufferFormat
<1> QED BY <1>1, <1>2 DEF EmulationIsExact

LEMMA BlockSizes ==
  ASSUME NEW f \in WaveFormats, NEW exts, BufferFormat(f, exts) # {}
  PROVE  f.nBlockAlign \in 1 .. 32
<1>1. PICK p \in BufferFormat(f, exts) : TRUE
  OBVIOUS
<1>2. f.nBlockAlign = Channels(p.config) * SampleBytes(p.type)
  BY FramesMatch DEF FramesAreBlocks, FrameSize
<1>3. Channels(p.config) \in {1, 2, 4, 6, 8} /\ SampleBytes(p.type) \in {1, 2, 4}
  BY BufferConfig, ChannelCounts, SampleWidths
<1> QED BY <1>2, <1>3

LEMMA ModOfRest ==
  ASSUME NEW q \in Nat, NEW m \in Nat \ {0}, NEW k \in 0 .. m - 1
  PROVE  (q * m + k) % m = k
OBVIOUS

(* In every format that it can have, the write emulation has the size that *)
(* createWriteEmu asks for: neither too small nor rounded to another.      *)
THEOREM EmulationsFit ==
  ASSUME NEW f \in WaveFormats, NEW exts
  PROVE  EmulationFits(f, exts)
<1> SUFFICES ASSUME BufferFormat(f, exts) # {}
             PROVE  Created(f, EmuBytes(f)) /\ BufSize(f, EmuBytes(f)) = EmuBytes(f)
  BY DEF EmulationFits
<1> DEFINE a == f.nBlockAlign
           q == PrimaryBufSize \div a
           sum == EmuBytes(f) + a - 1
<1>1. a \in Nat \ {0} /\ a <= 32
  BY BlockSizes
<1>2. EmuBytes(f) = PrimaryBufSize - (PrimaryBufSize % a)
  BY DEF EmuBytes
<1>3. BufSize(f, EmuBytes(f)) = (sum % DWORDs) - ((sum % DWORDs) % a)
  BY DEF BufSize
<1> HIDE DEF a
<1>4. /\ q \in Nat /\ EmuBytes(f) = q * a
      /\ PrimaryBufSize % a \in 0 .. a - 1 /\ PrimaryBufSize % a <= PrimaryBufSize
  BY <1>1, <1>2, DivMod, ModBounds, PrimaryBufAssumption
<1> HIDE DEF q
<1>5. EmuBytes(f) \in Nat /\ EmuBytes(f) \in DSBSIZE_MIN .. DSBSIZE_MAX
  BY <1>1, <1>2, <1>4, PrimaryBufAssumption, LimitsAssumption
<1>6. sum \in Nat /\ sum < DWORDs
  BY <1>1, <1>2, <1>4, <1>5, PrimaryBufAssumption, WidthAssumption
<1>7. sum % DWORDs = sum
  BY <1>6, SmallMod, WidthAssumption
<1>8. sum % a = a - 1
  <2>1. sum = q * a + (a - 1)
    BY <1>1, <1>4, <1>5
  <2> HIDE DEF sum
  <2> QED BY <1>1, <1>4, <2>1, ModOfRest
<1>9. BufSize(f, EmuBytes(f)) = EmuBytes(f)
  BY <1>1, <1>3, <1>5, <1>7, <1>8
<1>10. ValidFormat(f)
  BY DEF BufferFormat
<1> QED BY <1>5, <1>9, <1>10 DEF Created

(* Whatever GetCaps lists is accepted, by capture buffers, sound buffers   *)
(* and the primary buffer: no test of any of them refuses it.              *)
THEOREM AdvertisedFormats ==
  ASSUME NEW f \in WaveFormats, NEW exts
  PROVE  AdvertisedIsAccepted(f, exts)
<1> SUFFICES ASSUME Advertised(f)
             PROVE  /\ CaptureFormat(f) # {} /\ BufferFormat(f, exts) = CaptureFormat(f)
                    /\ PrimaryTakes(f)
  BY DEF AdvertisedIsAccepted
<1> DEFINE p == [type |-> IF f.wBitsPerSample = 8 THEN "UInt8" ELSE "Int16",
                 config |-> IF f.nChannels = 1 THEN "Mono" ELSE "Stereo"]
           r == f.nSamplesPerSec
           a == f.nBlockAlign
<1>1. /\ f.nChannels \in {1, 2} /\ f.wBitsPerSample \in {8, 16}
      /\ a = f.nChannels * (f.wBitsPerSample \div 8)
      /\ f.nAvgBytesPerSec = r * a /\ ValidRate(f)
      /\ Encoding(f) = "PCM" /\ ~IsExtensible(f)
  BY DEF Advertised, Encoding, IsExtensible
<1>2. a \in {1, 2, 4} /\ ValidFormat(f)
  BY <1>1 DEF ValidFormat
<1>3. r \in Nat \ {0} /\ r <= DSBFREQUENCY_MAX
  BY <1>1, FrequencyAssumption DEF ValidRate
<1>4. f.nAvgBytesPerSec = BytesPerSec(f)
  <2>1. f.nAvgBytesPerSec = r * a
    BY <1>1
  <2>2. BytesPerSec(f) = (r * a) % DWORDs
    BY DEF BytesPerSec
  <2> HIDE DEF r, a
  <2>3. r * a \in Nat /\ r * a < DWORDs
    BY <1>2, <1>3, FrequencyAssumption, WidthAssumption
  <2> QED BY <2>1, <2>2, <2>3, SmallMod, WidthAssumption
<1>5. IsSample(p.type, f) /\ f.nChannels = Channels(p.config)
  BY <1>1 DEF IsSample, SampleBytes, Channels
<1>6. p \in CaptureFormat(f)
  BY <1>1, <1>2, <1>4, <1>5 DEF CaptureFormat, Unpadded, Advertised
<1>7. f.nAvgBytesPerSec # 0
  BY <1>6, CapturedByteRate
<1>8. p \in ConvertFormat(f)
  BY <1>1, <1>6, CaptureConfig DEF ConvertFormat, Unpadded
<1>9. p \in BufferFormat(f, exts)
  BY <1>1, <1>2, <1>7, <1>8 DEF BufferFormat, Complete, HasALFormat
<1>10. BufferFormat(f, exts) = CaptureFormat(f)
  BY <1>6, <1>9, FramesMatch DEF FramesAreBlocks
<1>11. PrimaryTakes(f)
  BY <1>4, <1>9, EmulationFormats DEF EmulationIsExact
<1> QED BY <1>6, <1>10, <1>11
=============================================================================
