------------------------------- MODULE Capture -------------------------------
(***************************************************************************)
(* DSCBuffer: a ring that a thread of its own fills from the capture       *)
(* device, the calls of the application, and the last Release.             *)
(*                                                                         *)
(* The thread holds DSCapture's mutex except while it sleeps and before    *)
(* its first look at mQuitNow.  The calls that take the mutex hold it from *)
(* beginning to end and are one step each, save Stop, which lets go of it  *)
(* to join the thread.  GetCurrentPosition takes no mutex.                 *)
(*                                                                         *)
(* Samples are numbered in the order in which the device delivers them.    *)
(* Those it drops when it is full have no number.                          *)
(***************************************************************************)
EXTENDS Integers, FiniteSets

CONSTANTS
  Threads,     \* the application's threads
  Stoppers,    \* those that call Stop
  Align,       \* nBlockAlign, the bytes of a frame
  Sizes,       \* the values of dwBufferBytes that are asked for
  Ahead,       \* nSamplesPerSec / 100, the frames of 10 ms
  Slack,       \* the frames the device may hold beyond what was asked for
  Offsets,     \* the offsets that notifications are asked for
  StopOffset,  \* DSCBPN_OFFSET_STOP, larger than any size
  MaxSamples,  \* bound: the samples a device delivers
  MaxRefs      \* bound: the references a thread holds

ASSUME AlignAssumption == Align \in Nat \ {0}
ASSUME SizesAssumption == Sizes \subseteq Nat /\ Offsets \subseteq Nat
ASSUME AheadAssumption == Ahead \in Nat /\ Slack \in Nat /\ MaxSamples \in Nat
ASSUME StopOffsetAssumption ==
  StopOffset \in Offsets /\ \A s \in Sizes : s < StopOffset
\* Stop leaves the mutex between its check of mCapturing and join, and a
\* std::thread must not be joined twice: the application has to keep its
\* calls of Stop apart.
ASSUME OneStopperAssumption == \A s, t \in Stoppers : s = t
ASSUME RefsAssumption == MaxRefs \in Nat \ {0} /\ IsFiniteSet(Threads)

VARIABLES
  mTotalRef,   \* references to the object; none: it does not exist
  size,        \* mBuffer.size()
  mBuffer,     \* per byte of the ring, the sample it belongs to; 0: none
  mWritePos, mCapturing, mQuitNow,
  mNotifies,   \* the offsets in mNotifies
  thread,      \* mCaptureThread: where it is
  writepos, oldpos, availframes,  \* its variables
  recording,   \* the device: whether it captures
  avail,       \* the device: the frames it holds
  refs,        \* per application thread, the references it holds
  pc,          \* per application thread, where it is in a call
  taken,       \* history: the samples read from the device
  passed,      \* history: the frames read since the thread last woke up
  fired        \* history: the offsets signalled since then, or by Stop

object == <<mTotalRef, size, refs>>
state == <<mCapturing, mQuitNow, mNotifies>>
variables == <<writepos, oldpos, availframes>>
locals == <<variables, passed>>
device == <<recording, avail>>
ring == <<mBuffer, mWritePos, taken>>
vars == <<object, state, locals, device, ring, thread, pc, fired>>

Joinable == thread # "None"
\* The places at which the thread holds the mutex.
Locked == thread \in {"Reading", "Notifying", "Checking"}
CanCall(t) == pc[t] = "Idle" /\ refs[t] > 0
Free == ~Locked

Init ==
  /\ mTotalRef = 0 /\ size = 0 /\ mBuffer = [i \in {} |-> 0] /\ mWritePos = 0
  /\ mCapturing = FALSE /\ mQuitNow = FALSE /\ mNotifies = {}
  /\ writepos = 0 /\ oldpos = 0 /\ availframes = 0 /\ passed = 0
  /\ recording = FALSE /\ avail = 0 /\ taken = 0 /\ fired = {}
  /\ thread = "None"
  /\ refs = [t \in Threads |-> 0]
  /\ pc = [t \in Threads |-> "Idle"]

-----------------------------------------------------------------------------
(* Creation and reference counts.                                          *)

ValidDescription(bytes) == bytes >= Align /\ bytes % Align = 0

\* Mutant: the size need not be a multiple of the frame.
AnyDescription(bytes) == bytes >= Align

\* CreateCaptureBuffer and the Initialize it calls.  When that fails, the
\* object is gone again before anybody else knows of it.
CreateCaptureBuffer(t) ==
  /\ mTotalRef = 0 /\ \A u \in Threads : pc[u] = "Idle"
  /\ \E bytes \in Sizes :
       /\ ValidDescription(bytes)
       /\ size' = bytes
       /\ mBuffer' = [i \in 0 .. bytes - 1 |-> 0]
  /\ mTotalRef' = 1
  /\ refs' = [refs EXCEPT ![t] = 1]
  /\ UNCHANGED <<state, locals, device, mWritePos, taken, thread, pc, fired>>

\* AddRef or QueryInterface by thread t, for thread u.
AddRef(t, u) ==
  /\ CanCall(t) /\ refs[u] < MaxRefs
  /\ mTotalRef' = mTotalRef + 1
  /\ refs' = [refs EXCEPT ![u] = @ + 1]
  /\ UNCHANGED <<size, state, locals, device, ring, thread, pc, fired>>

\* Mutant: the destructor does not tell the thread.
ReleaseSilently(t) ==
  /\ CanCall(t)
  /\ mTotalRef' = mTotalRef - 1
  /\ refs' = [refs EXCEPT ![t] = @ - 1]
  /\ pc' = IF mTotalRef = 1 THEN [pc EXCEPT ![t] = "Closing"] ELSE pc
  /\ UNCHANGED <<size, state, locals, device, ring, thread, fired>>

\* The last Release runs the destructor, which asks the thread to quit...
Release(t) ==
  /\ CanCall(t)
  /\ mTotalRef' = mTotalRef - 1
  /\ refs' = [refs EXCEPT ![t] = @ - 1]
  /\ IF mTotalRef = 1
     THEN /\ pc' = [pc EXCEPT ![t] = "Closing"]
          /\ mQuitNow' = (mQuitNow \/ Joinable)
     ELSE UNCHANGED <<pc, mQuitNow>>
  /\ UNCHANGED <<size, mCapturing, mNotifies, locals, device, ring, thread, fired>>

\* ...joins it and closes the device.
Close(t) ==
  /\ pc[t] = "Closing" /\ thread \in {"None", "Exited"}
  /\ size' = 0 /\ mBuffer' = [i \in {} |-> 0] /\ mWritePos' = 0
  /\ mCapturing' = FALSE /\ mQuitNow' = FALSE /\ mNotifies' = {}
  /\ writepos' = 0 /\ oldpos' = 0 /\ availframes' = 0 /\ passed' = 0
  /\ recording' = FALSE /\ avail' = 0 /\ taken' = 0 /\ fired' = {}
  /\ thread' = "None"
  /\ pc' = [pc EXCEPT ![t] = "Idle"]
  /\ UNCHANGED <<mTotalRef, refs>>

-----------------------------------------------------------------------------
(* Start, Stop and SetNotificationPositions.                               *)

Start(t) ==
  /\ CanCall(t) /\ Free /\ ~mCapturing
  /\ mQuitNow' = FALSE /\ thread' = "Entering"
  /\ recording' = TRUE /\ mCapturing' = TRUE
  /\ passed' = 0 /\ fired' = {}
  /\ UNCHANGED <<object, mNotifies, variables, avail, ring, pc>>

\* Mutant: Stop is done before the thread is.
StopAtOnce(t) ==
  /\ CanCall(t) /\ t \in Stoppers /\ Free /\ mCapturing
  /\ recording' = FALSE /\ mCapturing' = FALSE
  /\ pc' = [pc EXCEPT ![t] = "Stopping"]
  /\ UNCHANGED <<object, mQuitNow, mNotifies, locals, avail, ring, thread, fired>>

StopDevice(t) ==
  /\ CanCall(t) /\ t \in Stoppers /\ Free /\ mCapturing
  /\ recording' = FALSE
  /\ pc' = [pc EXCEPT ![t] = "Stopping"]
  /\ UNCHANGED <<object, state, locals, avail, ring, thread, fired>>

StopQuit(t) ==
  /\ pc[t] = "Stopping"
  /\ mQuitNow' = TRUE
  /\ pc' = [pc EXCEPT ![t] = "Joining"]
  /\ UNCHANGED <<object, mCapturing, mNotifies, locals, device, ring, thread, fired>>

StopJoin(t) ==
  /\ pc[t] = "Joining" /\ thread = "Exited"
  /\ thread' = "None"
  /\ pc' = [pc EXCEPT ![t] = "Joined"]
  /\ UNCHANGED <<object, state, locals, device, ring, fired>>

StopFinish(t) ==
  /\ pc[t] = "Joined" /\ Free
  /\ fired' = mNotifies \cap {StopOffset}
  /\ mCapturing' = FALSE
  /\ pc' = [pc EXCEPT ![t] = "Idle"]
  /\ UNCHANGED <<object, mQuitNow, mNotifies, locals, device, ring, thread>>

Stop(t) == StopDevice(t) \/ StopQuit(t) \/ StopJoin(t) \/ StopFinish(t)

SetNotificationPositions(t) ==
  /\ CanCall(t) /\ Free /\ ~mCapturing
  /\ mNotifies' \in SUBSET {o \in Offsets : o < size \/ o = StopOffset}
  /\ UNCHANGED <<object, mCapturing, mQuitNow, locals, device, ring, thread, pc, fired>>

-----------------------------------------------------------------------------
(* captureThread.                                                          *)

\* The first pass through the loop: the mutex, which Start holds until the
\* end.
ThreadEnter ==
  /\ thread = "Entering" /\ thread' = "Checking"
  /\ UNCHANGED <<object, state, locals, device, ring, pc, fired>>

\* The loop's condition, and the mutex let go of for the sleep or for good.
ThreadCheck ==
  /\ thread = "Checking"
  /\ thread' = IF mQuitNow THEN "Exited" ELSE "Sleeping"
  /\ UNCHANGED <<object, state, locals, device, ring, pc, fired>>

\* The device has nothing, or its count is an error.
ThreadWakeIdle ==
  /\ thread = "Sleeping" /\ thread' = "Checking"
  /\ passed' = 0 /\ fired' = {}
  /\ UNCHANGED <<object, state, variables, device, ring, pc>>

ThreadWake ==
  /\ thread = "Sleeping" /\ thread' = "Reading"
  /\ avail > 0 /\ availframes' = avail
  /\ writepos' = mWritePos /\ oldpos' = mWritePos
  /\ passed' = 0 /\ fired' = {}
  /\ UNCHANGED <<object, state, device, ring, pc>>

\* Mutant: the position is left at the end of the ring.
WrapNever(offset) == offset
Wrap(offset) == IF offset = size THEN 0 ELSE offset

\* Mutant: what the device holds is read at once, past the ring's end.
ThreadReadAll ==
  /\ thread = "Reading" /\ availframes > 0
  /\ mBuffer' = [i \in DOMAIN mBuffer |->
                   IF i >= writepos /\ (i - writepos) \div Align < availframes
                   THEN taken + 1 + (i - writepos) \div Align
                   ELSE mBuffer[i]]
  /\ writepos' = (writepos + availframes * Align) % size
  /\ availframes' = 0
  /\ avail' = avail - availframes
  /\ taken' = taken + availframes
  /\ passed' = passed + availframes
  /\ UNCHANGED <<object, state, oldpos, recording, mWritePos, thread, pc, fired>>

\* One turn of the inner loop: alcCaptureSamples fills the ring up to its end.
ThreadRead ==
  /\ thread = "Reading" /\ availframes > 0
  /\ LET room == (size - writepos) \div Align
         toread == IF availframes < room THEN availframes ELSE room
         end == writepos + toread * Align
     IN /\ mBuffer' = [i \in DOMAIN mBuffer |->
                         IF i \in writepos .. end - 1
                         THEN taken + 1 + (i - writepos) \div Align
                         ELSE mBuffer[i]]
        /\ writepos' = Wrap(end)
        /\ availframes' = availframes - toread
        /\ avail' = avail - toread
        /\ taken' = taken + toread
        /\ passed' = passed + toread
  /\ UNCHANGED <<object, state, oldpos, recording, mWritePos, thread, pc, fired>>

ThreadPublish ==
  /\ thread = "Reading" /\ availframes = 0
  /\ mWritePos' = writepos /\ thread' = "Notifying"
  /\ UNCHANGED <<object, state, locals, device, mBuffer, taken, pc, fired>>

\* Mutant: the stop offset is not told apart from a position.
CapturedAnyOffset(offset) ==
  IF oldpos > writepos
  THEN offset >= oldpos \/ offset < writepos
  ELSE offset >= oldpos /\ offset < writepos

Captured(offset) ==
  IF oldpos > writepos
  THEN offset # StopOffset /\ (offset >= oldpos \/ offset < writepos)
  ELSE offset >= oldpos /\ offset < writepos

ThreadNotify ==
  /\ thread = "Notifying" /\ thread' = "Checking"
  /\ fired' = {o \in mNotifies : Captured(o)}
  /\ UNCHANGED <<object, state, locals, device, ring, pc>>

Thread ==
  \/ ThreadEnter \/ ThreadCheck \/ ThreadWakeIdle \/ ThreadWake
  \/ ThreadRead \/ ThreadPublish \/ ThreadNotify

\* The device: what it has no room for is lost and not numbered.
Deliver ==
  /\ recording /\ avail < size \div Align + Slack
  /\ taken + avail < MaxSamples
  /\ avail' = avail + 1
  /\ UNCHANGED <<object, state, locals, recording, ring, thread, pc, fired>>

Call(t) ==
  \/ CreateCaptureBuffer(t)
  \/ \E u \in Threads : AddRef(t, u)
  \/ Release(t) \/ Close(t)
  \/ Start(t) \/ Stop(t) \/ SetNotificationPositions(t)

Next == Thread \/ Deliver \/ \E t \in Threads : Call(t)

\* The thread runs on, and so do a call of Stop and a destructor that were
\* begun.  The application need not call, nor the device deliver.
Fairness ==
  /\ WF_vars(Thread)
  /\ \A t \in Threads : WF_vars(StopQuit(t) \/ StopJoin(t) \/ StopFinish(t))
                        /\ WF_vars(Close(t))

Spec == Init /\ [][Next]_vars /\ Fairness

-----------------------------------------------------------------------------
Frames == size \div Align

\* Mutant: what is about to be written is not added.
PositionReached == mWritePos

\* GetCurrentPosition's capture position; its read position is mWritePos.
CapturePosition ==
  IF mCapturing THEN (mWritePos + Ahead * Align) % size ELSE mWritePos

\* The frame that ends back frames before offset, in the ring.
Before(offset, back) == (offset - back * Align) % size

(* Every variable has the values of its type in the code, and a position   *)
(* is the start of a frame in the ring.                                    *)
TypeOK ==
  /\ mTotalRef \in 0 .. MaxRefs * Cardinality(Threads)
  /\ size \in Sizes \cup {0}
  /\ DOMAIN mBuffer = 0 .. size - 1
  /\ \A i \in DOMAIN mBuffer : mBuffer[i] \in 0 .. MaxSamples
  /\ \A p \in {mWritePos, writepos, oldpos} :
       p % Align = 0 /\ p <= size /\ (size > 0 => p < size)
  /\ mCapturing \in BOOLEAN /\ mQuitNow \in BOOLEAN /\ recording \in BOOLEAN
  /\ mNotifies \subseteq Offsets /\ fired \subseteq mNotifies \cup {StopOffset}
  /\ thread \in {"None", "Entering", "Checking", "Sleeping", "Reading",
                 "Notifying", "Exited"}
  /\ {avail, availframes, taken, passed} \subseteq 0 .. MaxSamples
  /\ refs \in [Threads -> 0 .. MaxRefs]
  /\ pc \in [Threads -> {"Idle", "Stopping", "Joining", "Joined", "Closing"}]

(* However the thread splits a read at the end of the ring, the ring holds *)
(* the latest samples, whole and in order, up to where it is writing: each *)
(* read of captureThread goes on where the last one ended.                 *)
RingHoldsLatest ==
  LET end == IF thread = "Reading" THEN writepos ELSE mWritePos
  IN \A back \in 1 .. Frames : back <= taken =>
       \A i \in 0 .. Align - 1 :
         mBuffer[Before(end, back) + i] = taken - back + 1

(* A pass of the thread signals the notifications whose byte it captured   *)
(* and no others, whatever the application asked for while it slept, and   *)
(* the stop event is not signalled before Stop is done with the thread.    *)
(* A pass that fills the whole ring or more cannot be told from a shorter  *)
(* one by the two offsets, and is left out.                                *)
MarkersAreExact ==
  /\ thread = "Checking" /\ passed < Frames /\ passed > 0 =>
       fired = {o \in mNotifies : o < size /\
                  \E i \in 0 .. passed * Align - 1 : o = (oldpos + i) % size}
  /\ StopOffset \in fired => ~Joinable

(* GetCurrentPosition takes no mutex and may be called in the middle of a  *)
(* read: what its comment announces as about to be overwritten is all that *)
(* a read of up to 10 ms touches, and from the capture position round to   *)
(* the read position the ring holds the newest samples the thread has      *)
(* published.  This needs a ring of more than 10 ms.                       *)
ReadableIsIntact ==
  LET unpublished == IF thread = "Reading" THEN passed ELSE 0
      published == taken - unpublished
      readable == IF CapturePosition = mWritePos THEN size
                  ELSE (mWritePos - CapturePosition) % size
  IN size > 0 /\ Ahead < Frames /\ unpublished <= Ahead =>
       \A back \in 1 .. readable \div Align : back <= published =>
         mBuffer[Before(mWritePos, back)] = published - back + 1

(* Once Stop has set mCapturing back, and once the destructor is done, no  *)
(* thread is left that could move the ring or signal an event, and the     *)
(* device does not capture.                                                *)
StoppedIsQuiet ==
  (~mCapturing \/ (mTotalRef = 0 /\ \A t \in Threads : pc[t] # "Closing"))
    => thread = "None" /\ ~recording

(* Stop joins the thread, which needs the mutex to see mQuitNow: both get  *)
(* there, and so does the destructor.                                      *)
StopReturns ==
  \A t \in Threads : pc[t] # "Idle" ~> pc[t] = "Idle"
=============================================================================
