----------------------------- MODULE BufferSlots -----------------------------
(***************************************************************************)
(* The secondary buffers of a DSound8OAL: the slots they are constructed   *)
(* in, the references to their interfaces, m3dBuffers, and the references  *)
(* to the object itself.                                                   *)
(*                                                                         *)
(* AddRef and Release of an interface change the interface's count and the *)
(* total of the buffer one after the other, and take no mutex.  Whoever    *)
(* drops the total to zero disposes of the buffer, and that, like the two  *)
(* halves of CreateSoundBuffer, is done under the mutex in one step.       *)
(***************************************************************************)
EXTENDS Naturals, FiniteSets

CONSTANTS
  Threads,   \* the application's threads
  NumSlots,  \* the slots of the groups in mSecondaryBuffers
  MaxRefs    \* bound: the references of a thread to an interface

ASSUME ThreadsAssumption == IsFiniteSet(Threads)
ASSUME BoundsAssumption == NumSlots \in Nat /\ MaxRefs \in Nat \ {0}

VARIABLES
  alive,      \* the object exists
  mObjectRef, \* its mTotalRef
  objectRefs, \* per thread, the references to the object
  buffer,     \* per slot: "Free" (in mFreeMask), "New" (no mBuffer), "Plain", "3D"
  m3dBuffers, \* per slot, how often it is listed
  mTotalRef, mDsRef, mOtherRef,  \* per slot; other: the four other interfaces
  refs,       \* per thread, slot and interface, the references held
  pc,         \* per thread, where it is in a call
  slot,       \* per thread, the slot the call is about
  via         \* per thread, the interface

Slots == 1 .. NumSlots
Interfaces == {"Ds", "Other"}
Listed(b) == b = "3D"

object == <<alive, mObjectRef, objectRefs>>
counts == <<mTotalRef, mDsRef, mOtherRef>>
call == <<pc, slot, via>>
vars == <<object, buffer, m3dBuffers, counts, refs, call>>

None == 0

Init ==
  /\ alive = TRUE /\ mObjectRef = 1
  /\ \E t \in Threads :
       objectRefs = [u \in Threads |-> IF u = t THEN 1 ELSE 0]
  /\ buffer = [s \in Slots |-> "Free"] /\ m3dBuffers = [s \in Slots |-> 0]
  /\ mTotalRef = [s \in Slots |-> 0]
  /\ mDsRef = [s \in Slots |-> 0] /\ mOtherRef = [s \in Slots |-> 0]
  /\ refs = [t \in Threads |-> [s \in Slots |-> [i \in Interfaces |-> 0]]]
  /\ pc = [t \in Threads |-> "Idle"]
  /\ slot = [t \in Threads |-> None] /\ via = [t \in Threads |-> "Ds"]

\* An application keeps a reference to the object for as long as it calls it
\* or its buffers: a thread that has none is done.
CanCall(t) == pc[t] = "Idle" /\ objectRefs[t] > 0
Holds(t, s) == \E i \in Interfaces : refs[t][s][i] > 0

Begin(t, s, i, to) ==
  /\ CanCall(t)
  /\ pc' = [pc EXCEPT ![t] = to]
  /\ slot' = [slot EXCEPT ![t] = s] /\ via' = [via EXCEPT ![t] = i]

Continue(t, to) ==
  pc' = [pc EXCEPT ![t] = to] /\ UNCHANGED <<slot, via>>

\* The call is done.
End(t) ==
  /\ pc' = [pc EXCEPT ![t] = "Idle"]
  /\ slot' = [slot EXCEPT ![t] = None] /\ via' = [via EXCEPT ![t] = "Ds"]

-----------------------------------------------------------------------------
(* CreateSoundBuffer and DuplicateSoundBuffer.                             *)

FirstFree(s) == buffer[s] = "Free" /\ \A f \in Slots : buffer[f] = "Free" => s <= f

Construct(t, s, kind) ==
  /\ FirstFree(s)
  /\ Begin(t, s, "Ds", "Created")
  /\ buffer' = [buffer EXCEPT ![s] = kind]
  /\ mTotalRef' = [mTotalRef EXCEPT ![s] = 1]
  /\ mDsRef' = [mDsRef EXCEPT ![s] = 1] /\ mOtherRef' = [mOtherRef EXCEPT ![s] = 0]
  /\ UNCHANGED <<object, m3dBuffers, refs>>

\* createSecondaryBuffer for a buffer that gets its data in Initialize...
CreateSoundBuffer(t, s) == Construct(t, s, "New")

\* ...and for one that shares those of another.
DuplicateSoundBuffer(t, o, s) ==
  Holds(t, o) /\ buffer[o] # "Free" /\ Construct(t, s, buffer[o])

\* What mBuffer is once Initialize was far enough.
Kinds(b) == IF b = "New" THEN {"Plain", "3D"} ELSE {b}

SetBuffer(s, kind) ==
  /\ kind \in Kinds(buffer[s])
  /\ buffer' = [buffer EXCEPT ![s] = kind]
  /\ m3dBuffers' = [m3dBuffers EXCEPT ![s] = IF Listed(kind) THEN @ + 1 ELSE @]

Initialize(t) ==
  /\ pc[t] = "Created"
  /\ \E kind \in {"Plain", "3D"} : SetBuffer(slot[t], kind)
  /\ refs' = [refs EXCEPT ![t][slot[t]]["Ds"] = @ + 1]
  /\ End(t)
  /\ UNCHANGED <<object, counts>>

\* It fails for its arguments, or later for want of a voice; the ComPtr
\* releases the buffer.
FailInitialize(t) ==
  /\ pc[t] = "Created"
  /\ \/ buffer[slot[t]] = "New" /\ UNCHANGED <<buffer, m3dBuffers>>
     \/ \E kind \in {"Plain", "3D"} : SetBuffer(slot[t], kind)
  /\ Continue(t, "Releasing")
  /\ UNCHANGED <<object, counts, refs>>

-----------------------------------------------------------------------------
(* AddRef, QueryInterface and Release of any interface of a buffer.        *)

Add(count, s, i, of) == IF i = of THEN [count EXCEPT ![s] = @ + 1] ELSE count
Drop(count, s, i, of) == IF i = of THEN [count EXCEPT ![s] = @ - 1] ELSE count

AddRef(t, s, i) ==
  /\ Holds(t, s) /\ refs[t][s][i] < MaxRefs
  /\ Begin(t, s, i, "Counting")
  /\ mTotalRef' = [mTotalRef EXCEPT ![s] = @ + 1]
  /\ UNCHANGED <<object, buffer, m3dBuffers, mDsRef, mOtherRef, refs>>

\* The new reference is for the thread itself or for another.
AddInterfaceRef(t, u) ==
  /\ pc[t] = "Counting" /\ refs[u][slot[t]][via[t]] < MaxRefs
  /\ mDsRef' = Add(mDsRef, slot[t], via[t], "Ds")
  /\ mOtherRef' = Add(mOtherRef, slot[t], via[t], "Other")
  /\ refs' = [refs EXCEPT ![u][slot[t]][via[t]] = @ + 1]
  /\ End(t)
  /\ UNCHANGED <<object, buffer, m3dBuffers, mTotalRef>>

Release(t, s, i) ==
  /\ refs[t][s][i] > 0
  /\ Begin(t, s, i, "Releasing")
  /\ refs' = [refs EXCEPT ![t][s][i] = @ - 1]
  /\ UNCHANGED <<object, buffer, m3dBuffers, counts>>

DropInterfaceRef(t) ==
  /\ pc[t] = "Releasing"
  /\ mDsRef' = Drop(mDsRef, slot[t], via[t], "Ds")
  /\ mOtherRef' = Drop(mOtherRef, slot[t], via[t], "Other")
  /\ Continue(t, "Dropping")
  /\ UNCHANGED <<object, buffer, m3dBuffers, mTotalRef, refs>>

\* Mutant: the interface's own count decides.
DropTotalOfInterface(t) ==
  /\ pc[t] = "Dropping"
  /\ mTotalRef' = [mTotalRef EXCEPT ![slot[t]] = @ - 1]
  /\ IF (IF via[t] = "Ds" THEN mDsRef ELSE mOtherRef)[slot[t]] = 0
     THEN Continue(t, "Disposing") ELSE End(t)
  /\ UNCHANGED <<object, buffer, m3dBuffers, mDsRef, mOtherRef, refs>>

DropTotal(t) ==
  /\ pc[t] = "Dropping"
  /\ mTotalRef' = [mTotalRef EXCEPT ![slot[t]] = @ - 1]
  /\ IF mTotalRef[slot[t]] = 1 THEN Continue(t, "Disposing") ELSE End(t)
  /\ UNCHANGED <<object, buffer, m3dBuffers, mDsRef, mOtherRef, refs>>

\* Mutant: the buffer stays on m3dBuffers.
DisposeListed(t) ==
  /\ pc[t] = "Disposing"
  /\ buffer' = [buffer EXCEPT ![slot[t]] = "Free"]
  /\ End(t)
  /\ UNCHANGED <<object, m3dBuffers, counts, refs>>

\* dispose and ~Buffer.
Dispose(t) ==
  /\ pc[t] = "Disposing"
  /\ m3dBuffers' = [m3dBuffers EXCEPT ![slot[t]] =
                      IF Listed(buffer[slot[t]]) THEN 0 ELSE @]
  /\ buffer' = [buffer EXCEPT ![slot[t]] = "Free"]
  /\ End(t)
  /\ UNCHANGED <<object, counts, refs>>

-----------------------------------------------------------------------------
(* The object.                                                             *)

\* AddRef and Release of DSound8OAL and of its IUnknown, whose own counts
\* are only returned.  The new reference is for the thread or for another.
AddObjectRef(t, u) ==
  /\ CanCall(t) /\ objectRefs[u] < MaxRefs
  /\ mObjectRef' = mObjectRef + 1
  /\ objectRefs' = [objectRefs EXCEPT ![u] = @ + 1]
  /\ UNCHANGED <<alive, buffer, m3dBuffers, counts, refs, call>>

\* finalize: the last one deletes the object, which destroys the buffers
\* whose references were not released.
ReleaseObject(t) ==
  /\ CanCall(t)
  /\ mObjectRef' = mObjectRef - 1
  /\ objectRefs' = [objectRefs EXCEPT ![t] = @ - 1]
  /\ IF mObjectRef = 1
     THEN /\ alive' = FALSE
          /\ buffer' = [s \in Slots |-> "Free"] /\ m3dBuffers' = [s \in Slots |-> 0]
     ELSE UNCHANGED <<alive, buffer, m3dBuffers>>
  /\ UNCHANGED <<counts, refs, call>>

Next ==
  \E t \in Threads :
    \/ ReleaseObject(t)
    \/ \E s \in Slots :
         \/ CreateSoundBuffer(t, s)
         \/ \E o \in Slots : DuplicateSoundBuffer(t, o, s)
         \/ \E i \in Interfaces : AddRef(t, s, i) \/ Release(t, s, i)
    \/ Initialize(t) \/ FailInitialize(t)
    \/ \E u \in Threads : AddObjectRef(t, u) \/ AddInterfaceRef(t, u)
    \/ DropInterfaceRef(t) \/ DropTotal(t) \/ Dispose(t)

Spec == Init /\ [][Next]_vars

-----------------------------------------------------------------------------
InCall(s, places) == Cardinality({t \in Threads : slot[t] = s /\ pc[t] \in places})
MaxTotal == (2 * MaxRefs + 1) * Cardinality(Threads)

(* Every variable has the values of its type in the code, and the buffer a *)
(* thread is calling, or holds a reference to while the object exists, has *)
(* not been destroyed: no count ever goes below zero.                      *)
TypeOK ==
  /\ alive \in BOOLEAN /\ mObjectRef \in 0 .. MaxRefs * Cardinality(Threads)
  /\ objectRefs \in [Threads -> 0 .. MaxRefs]
  /\ buffer \in [Slots -> {"Free", "New", "Plain", "3D"}]
  /\ m3dBuffers \in [Slots -> 0 .. 1]
  /\ mTotalRef \in [Slots -> 0 .. MaxTotal]
  /\ mDsRef \in [Slots -> 0 .. MaxTotal] /\ mOtherRef \in [Slots -> 0 .. MaxTotal]
  /\ refs \in [Threads -> [Slots -> [Interfaces -> 0 .. MaxRefs]]]
  /\ pc \in [Threads -> {"Idle", "Created", "Counting", "Releasing", "Dropping",
                         "Disposing"}]
  /\ slot \in [Threads -> Slots \cup {None}] /\ via \in [Threads -> Interfaces]
  /\ \A t \in Threads :
       /\ pc[t] # "Idle" => buffer[slot[t]] # "Free"
       /\ alive => \A s \in Slots : Holds(t, s) => buffer[s] # "Free"

\* The references that all threads hold to an interface, each a thread and a
\* number up to how many it holds; and those that are being dropped.
HeldRefs(s, i) ==
  Cardinality({h \in Threads \X (1 .. MaxRefs) : h[2] <= refs[h[1]][s][i]})
DroppedRefs(s, i) ==
  Cardinality({t \in Threads : slot[t] = s /\ pc[t] = "Releasing" /\ via[t] = i})

(* Each count is the references that threads hold and are giving or        *)
(* dropping, and the total is the sum of the interfaces' counts and of the *)
(* calls that are between the two.                                         *)
CountsAreExact(s) ==
  /\ mDsRef[s] = HeldRefs(s, "Ds") + DroppedRefs(s, "Ds") + InCall(s, {"Created"})
  /\ mOtherRef[s] = HeldRefs(s, "Other") + DroppedRefs(s, "Other")
  /\ mTotalRef[s] = mDsRef[s] + mOtherRef[s] + InCall(s, {"Counting", "Dropping"})

(* While the object exists, whatever the threads do with the interfaces of *)
(* a buffer: its counts are exact; without a reference exactly one thread  *)
(* disposes of it, once, and with one nobody does; and m3dBuffers, which   *)
(* a commit walks, lists it once from Initialize to its destruction if it  *)
(* is a 3D buffer, and never otherwise.                                    *)
BuffersAreExact ==
  alive => \A s \in Slots :
    /\ buffer[s] # "Free" => /\ CountsAreExact(s)
                             /\ InCall(s, {"Disposing"}) = IF mTotalRef[s] = 0 THEN 1 ELSE 0
    /\ m3dBuffers[s] =
         IF Listed(buffer[s]) /\ InCall(s, {"Created"}) = 0 THEN 1 ELSE 0
=============================================================================
