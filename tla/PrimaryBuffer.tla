---------------------------- MODULE PrimaryBuffer ----------------------------
(***************************************************************************)
(* The primary buffer of a DSound8OAL: a member of the object that is never *)
(* deleted, with reference counts of its own, the cooperative level, and   *)
(* the secondary buffers as far as the level concerns them.                *)
(*                                                                         *)
(* In DSSCL_WRITEPRIMARY the application writes to the primary buffer,     *)
(* which a buffer of the emulation (mWriteEmu) plays, and the secondary    *)
(* buffers are lost.  AddRef and Release change atomic counters one at a   *)
(* time and take no mutex; the other calls hold the mutex of the object    *)
(* from beginning to end and are one step.                                 *)
(***************************************************************************)
EXTENDS Naturals, FiniteSets

CONSTANTS
  Threads,   \* the application's threads
  Creators,  \* those that ask for the primary buffer
  Buggy,     \* those that release a reference too many
  NumSlots,  \* bound: the secondary buffers at one time
  MaxRefs,   \* bound: the references of a thread to the buffer
  MaxListenerRefs  \* bound: and to its other interfaces

ASSUME ThreadsAssumption == Creators \cup Buggy \subseteq Threads /\ IsFiniteSet(Threads)
ASSUME BoundsAssumption == {NumSlots, MaxRefs, MaxListenerRefs} \subseteq Nat

VARIABLES
  mTotalRef, mDsRef, mDs3dRef,
  mFlags,      \* whether mFlags is not 0: the buffer is initialised
  mPrioLevel,  \* DSSCL_EXCLUSIVE does what DSSCL_PRIORITY does
  mPlaying,
  mWriteEmu,   \* "None", or what its source is
  emuPosition, \* 0: the start; 1: elsewhere
  secondary,   \* per slot, "None" or what its buffer's source does
  lost,        \* the slots whose buffer is lost
  pc,          \* per thread, where it is in AddRef or Release
  creating,    \* per thread, whether CreateSoundBuffer called it
  prev, ret,   \* per thread, whether AddRef found the total at 0, and itself
               \* the first at mDsRef
  refs, listenerRefs,  \* per thread, the references it was given
  older,       \* history: the slots whose buffer is older than the level
  emuFailed    \* history: createWriteEmu failed

counts == <<mTotalRef, mDsRef, mDs3dRef>>
held == <<refs, listenerRefs>>
local == <<pc, creating, prev, ret>>
emu == <<mWriteEmu, emuPosition, emuFailed>>
buffers == <<secondary, lost, older>>
vars == <<counts, mFlags, mPrioLevel, mPlaying, emu, buffers, local, held>>

Slots == 1 .. NumSlots
Levels == {"Normal", "Priority", "WritePrimary"}
Used == {s \in Slots : secondary[s] # "None"}

Init ==
  /\ mTotalRef = 0 /\ mDsRef = 0 /\ mDs3dRef = 0 /\ mFlags = FALSE
  /\ mPrioLevel = "Normal" /\ mPlaying = FALSE
  /\ mWriteEmu = "None" /\ emuPosition = 0 /\ emuFailed = FALSE
  /\ secondary = [s \in Slots |-> "None"] /\ lost = {} /\ older = {}
  /\ pc = [t \in Threads |-> "Idle"]
  /\ creating = [t \in Threads |-> FALSE]
  /\ prev = [t \in Threads |-> FALSE] /\ ret = [t \in Threads |-> FALSE]
  /\ refs = [t \in Threads |-> 0] /\ listenerRefs = [t \in Threads |-> 0]

-----------------------------------------------------------------------------
(* The write emulation.                                                    *)

\* mWriteEmu set to nullptr.
DestroyWriteEmu ==
  mWriteEmu' = "None" /\ emuPosition' = 0 /\ UNCHANGED emuFailed

\* createWriteEmu, after mWriteEmu was set to nullptr.
CreateWriteEmu(ok) ==
  /\ mWriteEmu' = IF ok THEN "Initial" ELSE "None"
  /\ emuPosition' = 0 /\ emuFailed' = ~ok

-----------------------------------------------------------------------------
(* References to the primary buffer.                                       *)

Step(t, from, to) == pc[t] = from /\ pc' = [pc EXCEPT ![t] = to]

\* AddRef: mTotalRef first, by an application that has a reference already...
AddRef(t) ==
  /\ refs[t] \in 1 .. MaxRefs - 1
  /\ Step(t, "Idle", "Counted")
  /\ mTotalRef' = mTotalRef + 1 /\ prev' = [prev EXCEPT ![t] = mTotalRef = 0]
  /\ refs' = [refs EXCEPT ![t] = @ + 1]
  /\ UNCHANGED <<mDsRef, mDs3dRef, mFlags, mPrioLevel, mPlaying, emu, buffers,
                 creating, ret, listenerRefs>>

\* ...or by CreateSoundBuffer, which may be the first to have one.
CreateSoundBuffer(t) ==
  /\ t \in Creators /\ refs[t] < MaxRefs
  /\ Step(t, "Idle", "Counted")
  /\ mTotalRef' = mTotalRef + 1 /\ prev' = [prev EXCEPT ![t] = mTotalRef = 0]
  /\ creating' = [creating EXCEPT ![t] = TRUE]
  /\ UNCHANGED <<mDsRef, mDs3dRef, mFlags, mPrioLevel, mPlaying, emu, buffers, ret, held>>

AddDsRef(t) ==
  /\ Step(t, "Counted", "Clearing")
  /\ mDsRef' = mDsRef + 1 /\ ret' = [ret EXCEPT ![t] = mDsRef = 0]
  /\ UNCHANGED <<mTotalRef, mDs3dRef, mFlags, mPrioLevel, mPlaying, emu, buffers,
                 creating, prev, held>>

\* The flags are cleared for the first reference.
ClearFlags(t) ==
  /\ Step(t, "Clearing", IF creating[t] THEN "Looking" ELSE "Idle")
  /\ mFlags' = (mFlags /\ ~prev[t])
  /\ prev' = [prev EXCEPT ![t] = FALSE]
  /\ ret' = [ret EXCEPT ![t] = @ /\ creating[t]]
  /\ UNCHANGED <<counts, mPrioLevel, mPlaying, emu, buffers, creating, held>>

\* CreateSoundBuffer looks whether it has to initialise the buffer.
NeedNotInitialize(t) ==
  /\ ~(ret[t] /\ ~mFlags)
  /\ Step(t, "Looking", "Idle")
  /\ refs' = [refs EXCEPT ![t] = @ + 1]
  /\ creating' = [creating EXCEPT ![t] = FALSE] /\ ret' = [ret EXCEPT ![t] = FALSE]
  /\ UNCHANGED <<counts, mFlags, mPrioLevel, mPlaying, emu, buffers, prev, listenerRefs>>

MustInitialize(t) ==
  /\ ret[t] /\ ~mFlags
  /\ Step(t, "Looking", "Initializing")
  /\ ret' = [ret EXCEPT ![t] = FALSE]
  /\ UNCHANGED <<counts, mFlags, mPrioLevel, mPlaying, emu, buffers, creating, prev, held>>

\* Initialize, for the buffer that is not initialised yet.
Initialize(t) ==
  /\ ~mFlags
  /\ Step(t, "Initializing", "Idle")
  /\ IF mPrioLevel = "WritePrimary" THEN CreateWriteEmu(TRUE) ELSE UNCHANGED emu
  /\ mFlags' = TRUE
  /\ refs' = [refs EXCEPT ![t] = @ + 1]
  /\ creating' = [creating EXCEPT ![t] = FALSE]
  /\ UNCHANGED <<counts, mPrioLevel, mPlaying, buffers, prev, ret, listenerRefs>>

\* Initialize fails: for its arguments or because the buffer is initialised,
\* or because there is no write emulation.  CreateSoundBuffer releases.
FailInitialize(t) ==
  /\ Step(t, "Initializing", "Releasing")
  /\ \/ UNCHANGED emu
     \/ ~mFlags /\ mPrioLevel = "WritePrimary" /\ CreateWriteEmu(FALSE)
  /\ creating' = [creating EXCEPT ![t] = FALSE]
  /\ UNCHANGED <<counts, mFlags, mPrioLevel, mPlaying, buffers, prev, ret, held>>

Release(t) ==
  /\ Step(t, "Idle", "Releasing")
  /\ refs[t] > 0 \/ t \in Buggy
  /\ refs' = [refs EXCEPT ![t] = IF @ > 0 THEN @ - 1 ELSE 0]
  /\ UNCHANGED <<counts, mFlags, mPrioLevel, mPlaying, emu, buffers,
                 creating, prev, ret, listenerRefs>>

\* Mutant: the count is not looked at before it is decremented (2^30 for 2^32 - 1).
DropUnchecked(t) ==
  /\ Step(t, "Releasing", "Dropped")
  /\ mDsRef' = IF mDsRef = 0 THEN 2^30 ELSE mDsRef - 1
  /\ UNCHANGED <<mTotalRef, mDs3dRef, mFlags, mPrioLevel, mPlaying, emu, buffers,
                 creating, prev, ret, held>>

\* The loop around compare_exchange_weak.
DropDsRef(t) ==
  /\ mDsRef > 0
  /\ Step(t, "Releasing", "Dropped")
  /\ mDsRef' = mDsRef - 1
  /\ UNCHANGED <<mTotalRef, mDs3dRef, mFlags, mPrioLevel, mPlaying, emu, buffers,
                 creating, prev, ret, held>>

\* Its early return.
DropNothing(t) ==
  /\ mDsRef = 0
  /\ Step(t, "Releasing", "Idle")
  /\ UNCHANGED <<counts, mFlags, mPrioLevel, mPlaying, emu, buffers,
                 creating, prev, ret, held>>

DropTotal(t) ==
  /\ pc[t] \in {"Dropped", "ListenerDropped"} /\ pc' = [pc EXCEPT ![t] = "Idle"]
  /\ mTotalRef' = mTotalRef - 1
  /\ UNCHANGED <<mDsRef, mDs3dRef, mFlags, mPrioLevel, mPlaying, emu, buffers,
                 creating, prev, ret, held>>

\* Listener3D and, the same, Prop: AddRef by QueryInterface, and Release.
ListenerAddRef(t) ==
  /\ refs[t] + listenerRefs[t] > 0 /\ listenerRefs[t] < MaxListenerRefs
  /\ Step(t, "Idle", "ListenerCounted")
  /\ mTotalRef' = mTotalRef + 1
  /\ UNCHANGED <<mDsRef, mDs3dRef, mFlags, mPrioLevel, mPlaying, emu, buffers,
                 creating, prev, ret, held>>

ListenerAddDs3dRef(t) ==
  /\ Step(t, "ListenerCounted", "Idle")
  /\ mDs3dRef' = mDs3dRef + 1
  /\ listenerRefs' = [listenerRefs EXCEPT ![t] = @ + 1]
  /\ UNCHANGED <<mTotalRef, mDsRef, mFlags, mPrioLevel, mPlaying, emu, buffers,
                 creating, prev, ret, refs>>

\* Mutant: the total is forgotten.
ListenerReleaseOne(t) ==
  /\ listenerRefs[t] > 0 /\ pc[t] = "Idle"
  /\ mDs3dRef' = mDs3dRef - 1
  /\ listenerRefs' = [listenerRefs EXCEPT ![t] = @ - 1]
  /\ UNCHANGED <<mTotalRef, mDsRef, mFlags, mPrioLevel, mPlaying, emu, buffers, local, refs>>

ListenerRelease(t) ==
  /\ listenerRefs[t] > 0
  /\ Step(t, "Idle", "ListenerDropped")
  /\ mDs3dRef' = mDs3dRef - 1
  /\ listenerRefs' = [listenerRefs EXCEPT ![t] = @ - 1]
  /\ UNCHANGED <<mTotalRef, mDsRef, mFlags, mPrioLevel, mPlaying, emu, buffers,
                 creating, prev, ret, refs>>

Reference(t) ==
  \/ AddRef(t) \/ CreateSoundBuffer(t) \/ AddDsRef(t) \/ ClearFlags(t)
  \/ NeedNotInitialize(t) \/ MustInitialize(t) \/ Initialize(t) \/ FailInitialize(t)
  \/ Release(t) \/ DropDsRef(t) \/ DropNothing(t) \/ DropTotal(t)
  \/ ListenerAddRef(t) \/ ListenerAddDs3dRef(t) \/ ListenerRelease(t)

-----------------------------------------------------------------------------
(* SetCooperativeLevel.                                                    *)

references == <<counts, mFlags, local, held>>

Playing == {s \in Slots : secondary[s] = "Playing" /\ s \notin lost}

\* Up to DSSCL_WRITEPRIMARY: the buffers are marked in the order of their
\* slots, up to the first that plays.
RaiseFails ==
  /\ mPrioLevel # "WritePrimary" /\ Playing # {}
  /\ lost' = lost \cup {s \in Used : \A p \in Playing : s < p}
  /\ DestroyWriteEmu
  /\ UNCHANGED <<references, mPrioLevel, mPlaying, secondary, older>>

Raise(ok) ==
  /\ mPrioLevel # "WritePrimary" /\ Playing = {}
  /\ lost' = Used
  /\ IF mFlags THEN CreateWriteEmu(ok) ELSE ok /\ DestroyWriteEmu
  /\ IF ok THEN mPrioLevel' = "WritePrimary" /\ older' = Used
     ELSE UNCHANGED <<mPrioLevel, older>>
  /\ UNCHANGED <<references, mPlaying, secondary>>

\* Mutant: the write emulation stays.
LowerOnly(level) ==
  /\ mPrioLevel = "WritePrimary" /\ level # "WritePrimary"
  /\ mPrioLevel' = level /\ older' = {}
  /\ UNCHANGED <<references, mPlaying, emu, secondary, lost>>

\* Down from it.
Lower(level) ==
  /\ mPrioLevel = "WritePrimary" /\ level # "WritePrimary"
  /\ DestroyWriteEmu
  /\ mPrioLevel' = level /\ older' = {}
  /\ UNCHANGED <<references, mPlaying, secondary, lost>>

\* Elsewhere.
SetLevel(level) ==
  /\ (mPrioLevel = "WritePrimary") = (level = "WritePrimary")
  /\ mPrioLevel' = level
  /\ UNCHANGED <<references, mPlaying, emu, buffers>>

SetCooperativeLevel ==
  \/ RaiseFails \/ \E ok \in BOOLEAN : Raise(ok)
  \/ \E level \in Levels : Lower(level) \/ SetLevel(level)

-----------------------------------------------------------------------------
(* Playing the primary buffer, and the secondary ones.                     *)

InUse == \E t \in Threads : refs[t] > 0

Play ==
  /\ InUse
  /\ mPlaying' = TRUE
  /\ mWriteEmu' = IF mWriteEmu = "None" THEN "None" ELSE "Playing"
  /\ UNCHANGED <<references, mPrioLevel, emuPosition, emuFailed, buffers>>

\* The mixer plays the write emulation, which always loops.
Mix ==
  /\ mWriteEmu = "Playing" /\ emuPosition' \in {0, 1}
  /\ UNCHANGED <<references, mPrioLevel, mPlaying, mWriteEmu, emuFailed, buffers>>

\* Mutant: the position is left where it is.
StopInPlace ==
  /\ InUse
  /\ mPlaying' = FALSE
  /\ mWriteEmu' = IF mWriteEmu = "Playing" THEN "Paused" ELSE mWriteEmu
  /\ UNCHANGED <<references, mPrioLevel, emuPosition, emuFailed, buffers>>

Stop ==
  /\ InUse
  /\ mPlaying' = FALSE
  /\ mWriteEmu' = IF mWriteEmu = "Playing" THEN "Paused" ELSE mWriteEmu
  /\ emuPosition' = 0
  /\ UNCHANGED <<references, mPrioLevel, emuFailed, buffers>>

\* A format that is accepted; the write emulation is made anew for it.
SetFormat ==
  /\ InUse /\ mPrioLevel # "Normal"
  /\ IF mWriteEmu = "None" THEN UNCHANGED emu
     ELSE \E ok \in BOOLEAN : CreateWriteEmu(ok)
  /\ UNCHANGED <<references, mPrioLevel, mPlaying, buffers>>

SetSecondary(s, state) ==
  /\ secondary' = [secondary EXCEPT ![s] = state]
  /\ UNCHANGED <<references, mPrioLevel, mPlaying, emu>>

\* A new buffer takes the first free slot.
CreateSecondary(s) ==
  /\ secondary[s] = "None" /\ \A f \in Slots \ Used : s <= f
  /\ SetSecondary(s, "Silent") /\ UNCHANGED <<lost, older>>

DisposeSecondary(s) ==
  /\ s \in Used
  /\ SetSecondary(s, "None") /\ lost' = lost \ {s} /\ older' = older \ {s}

PlaySecondary(s) ==
  /\ secondary[s] = "Silent" /\ s \notin lost
  /\ SetSecondary(s, "Playing") /\ UNCHANGED <<lost, older>>

\* Stop, or the source's end.
StopSecondary(s) ==
  /\ secondary[s] = "Playing"
  /\ SetSecondary(s, "Silent") /\ UNCHANGED <<lost, older>>

\* Mutant: a buffer can be restored at any time.
RestoreAnyTime(s) ==
  /\ s \in lost
  /\ SetSecondary(s, secondary[s]) /\ lost' = lost \ {s} /\ UNCHANGED older

Restore(s) ==
  /\ s \in lost /\ mPrioLevel # "WritePrimary"
  /\ SetSecondary(s, secondary[s]) /\ lost' = lost \ {s} /\ UNCHANGED older

Next ==
  \/ \E t \in Threads : Reference(t)
  \/ SetCooperativeLevel
  \/ Play \/ Mix \/ Stop \/ SetFormat
  \/ \E s \in Slots :
       \/ CreateSecondary(s) \/ DisposeSecondary(s)
       \/ PlaySecondary(s) \/ StopSecondary(s) \/ Restore(s)

Spec == Init /\ [][Next]_vars

-----------------------------------------------------------------------------
MaxTotal == (MaxRefs + MaxListenerRefs + 2) * Cardinality(Threads)

(* Every variable has the values of its type in the code, and no counter   *)
(* goes below zero, though an application may release too often.           *)
TypeOK ==
  /\ {mTotalRef, mDsRef, mDs3dRef} \subseteq 0 .. MaxTotal
  /\ mFlags \in BOOLEAN /\ mPlaying \in BOOLEAN /\ emuFailed \in BOOLEAN
  /\ mPrioLevel \in Levels
  /\ mWriteEmu \in {"None", "Initial", "Playing", "Paused"} /\ emuPosition \in {0, 1}
  /\ secondary \in [Slots -> {"None", "Silent", "Playing"}]
  /\ lost \subseteq Used /\ older \subseteq Used
  /\ pc \in [Threads -> {"Idle", "Counted", "Clearing", "Looking", "Initializing",
                         "Releasing", "Dropped", "ListenerCounted", "ListenerDropped"}]
  /\ creating \in [Threads -> BOOLEAN]
  /\ prev \in [Threads -> BOOLEAN] /\ ret \in [Threads -> BOOLEAN]
  /\ refs \in [Threads -> 0 .. MaxRefs]
  /\ listenerRefs \in [Threads -> 0 .. MaxListenerRefs]

At(places) == Cardinality({t \in Threads : pc[t] \in places})

(* However the threads take and release references to the interfaces, and  *)
(* even if one is released too often, the total that decides whether the   *)
(* next reference is the first is the sum of the interfaces' counts and of *)
(* the calls that are between their two counters.                          *)
CountsAreExact ==
  mTotalRef = mDsRef + mDs3dRef
              + At({"Counted", "Dropped", "ListenerCounted", "ListenerDropped"})

(* A write emulation exists only in DSSCL_WRITEPRIMARY; there it exists    *)
(* whenever the primary buffer is initialised, in whatever order the       *)
(* buffer was created and released and the level set, unless OpenAL had    *)
(* nothing for it.                                                         *)
EmuFollowsLevel ==
  /\ mWriteEmu # "None" => mPrioLevel = "WritePrimary"
  /\ mPrioLevel = "WritePrimary" /\ mFlags /\ ~emuFailed => mWriteEmu # "None"

(* A lost buffer does not play; in DSSCL_WRITEPRIMARY, the buffers that    *)
(* were there before are lost and remain so.                               *)
OlderBuffersAreLost ==
  /\ \A s \in lost : secondary[s] # "Playing"
  /\ older \subseteq lost

(* A primary buffer that was stopped, or was never played, has a write     *)
(* emulation that is silent and at its start, also after a new format or   *)
(* level.                                                                  *)
StoppedIsReset ==
  ~mPlaying /\ mWriteEmu # "None" => mWriteEmu # "Playing" /\ emuPosition = 0

(* What the comment in AddRef says of the flags, "Clear the flags when     *)
(* getting the first reference, so it can be reinitialized": when nobody   *)
(* is in a call, a primary buffer that is referenced is initialised.       *)
HeldIsInitialized ==
  (\A t \in Threads : pc[t] = "Idle") /\ mTotalRef > 0 => mFlags
=============================================================================
