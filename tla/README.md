# DSOAL in TLA+

Specifications, model checks and proofs for DSOAL, a DirectSound library on top
of OpenAL. Paths below are relative to the repository; most of the code is in
`src/`.

## The system

An application calls COM objects; DSOAL turns the calls into OpenAL calls. There
are no tests, and the comments in the code are all the documentation of its
internal rules.

| Part | State | Operations | Hard behaviour |
| --- | --- | --- | --- |
| `SharedDevice` list (`dsoundoal.cpp`) | `sDeviceList`, `mRef` per device | `GetById`, `AddRef`, `Release`, `dispose` | reference dropped outside the mutex, addresses reused |
| `SharedDevice` voices (`dsoundoal.h`) | `mCurrentHwSources`, `mCurrentSwSources` (atomics) | `incHwSources`, `incSwSources`, `dec…` | compare-exchange loops raced by several objects |
| `DSound8OAL` | `mDsMutex`, `mSecondaryBuffers` (slots), `mNotifyBuffers`, `mNotifyThread`, `mQuitNotify`, `m3dBuffers`, `mPrioLevel` | `Initialize`, `CreateSoundBuffer`, `DuplicateSoundBuffer`, `SetCooperativeLevel`, destructor | a polling thread with a condition variable, shutdown, slots used again |
| `Buffer` | `mSource`, `mLocStatus`, `mLastPos`, `mNotifies`, `mLocked`, `mBufferLost`, 3D parameters | `Play`, `Stop`, `SetCurrentPosition`, `GetCurrentPosition`, `SetNotificationPositions`, `AcquireResources`, `Lock`, `Unlock`, `Restore`, setters | the mixer moves the source at any time; some methods take no mutex |
| `Buffer3D`, `PrimaryBuffer::Listener3D` | `mImmediate`, `mDeferred`, `mDirty` | setters, `CommitDeferredSettings` | deferred and immediate values beside what OpenAL was told |
| `PrimaryBuffer` | format, write emulation buffer, flags | `Play`, `Stop`, `Lock`, `SetFormat`, `Restore` | cooperative level, lost buffers |
| `DSCBuffer` (`capture.cpp`) | ring, `mWritePos`, thread, notifications | `Start`, `Stop`, `Lock`, `GetCurrentPosition` | a thread that fills a ring and is joined by `Stop` |
| `DSFullDuplex` | a `DSound8OAL` and a `DSCapture` | `Initialize`, reference counting | partial failure |
| entry points, factory, enumeration (`dsoal.cpp`, `factory.cpp`, `enumerate.h`) | device lists under `gDeviceListMutex` | `DirectSoundCreate`, `CreateInstance`, `…Enumerate` | callback under a mutex, GUIDs handed out by pointer |
| property sets, EAX (`propset.cpp`, `eax.cpp`, `Buffer::Prop`) | none of its own | `Get`, `Set`, `QuerySupport` | a source generated outside the voice counters, tables that must agree |
| sample formats (in `buffer.cpp`, `capture.cpp`, `primarybuffer.cpp`) | `mWfxFormat`, `mFormat` | `ConvertFormat`, `SharedBuffer::Create`, `SetFormat`, `GetFormat` | three checks of one structure, sizes that wrap around |

Interaction: an object holds a reference to a `SharedDevice` from `Initialize`
to its destructor; its buffers take voices from the device's counters in
`setLocation`, list themselves in `mNotifyBuffers` in `Play`, and are polled
by the object's thread, which signals the application's events. All methods of
an object and of its buffers that change state take the object's `mDsMutex`,
except where noted; different objects share only the device.

## Modules

A module that checks (`MC…`) extends the module it checks and fixes the bounds;
`…Proofs` modules extend it with theorems (some for two or three modules
that belong together). Operators with a comment that starts
with "Mutant" are not part of a specification: each is an operation as a
plausible bug would have it, and shows that some property would notice.

### NotifyThread

`DSound8OAL::notifyThread`, `triggerNotifies`, `addNotifyBuffer`, the destructor,
and every call that lists or removes a buffer, for one object. A call runs under
`mDsMutex` from beginning to end and is one step; the thread's loop is split
where it gives the mutex up or reads `mQuitNotify` (`ThreadAcquire`,
`ThreadCheckQuit`, `ThreadWait`, `ThreadPoll`, `ThreadTimeout`), the destructor
where it sets the flag, takes the mutex, notifies and joins (`DestroyBegin`,
`DestroyLock`, `DestroyNotify`, `DestroyJoin`). A buffer is a slot, because the
list holds addresses and `~Buffer` does not remove its own; an entry whose
buffer was destroyed may stay or go when it is polled, since the poll then reads
a dead object. Positions are left to `Playback`: here a buffer has only the
notification for the end (`DSBPN_OFFSETSTOP`). The condition variable wakes up
spuriously. `ctrlNotify` is the set of buffers with
`DSBCAPS_CTRLPOSITIONNOTIFY`: only these can be given notifications, list themselves in
`Play`, and poll the list in `Stop`. History variables: `owed` (an end nobody was told of), `stale`
(entries left by released buffers).

Run `notify_thread` (two buffers): `NoLostWakeup`, `PlayingIsPolled`,
`PendingIsOwed`, `StopEventExact`, and under fairness `EndIsReported` and
`DestructorEnds`. Two buffers are enough for one buffer's call to poll another,
for a list that goes from empty to one, from one to two and back, and for a slot
that is used again while another buffer is listed; there is one thread and one
destructor by construction of the object.

Fairness: weak fairness of the thread's steps and of the destructor's. The
thread and the destructor are ordinary threads of the process, `wait_for` has a
timeout, and a call holds `mDsMutex` only for a bounded time; in the model it
is free between any two calls, so that weak fairness of `ThreadAcquire` says that
a thread that keeps asking for the mutex gets it. Nothing is assumed of the
application, of the mixer or of spurious wake-ups.

Run `notify_stale` (one slot) expects a violation: see Findings.

### SourcePool and VoicePool

The counters of one `SharedDevice` and `Buffer::setLocation`, for several objects.
Each object's calls are serialised by its mutex, so `call[o]` is the one
`setLocation` in progress of object `o`; its steps are the return of the old voice
(`BeginLocation`), the load (`LoadCount`), the compare-exchange (`CasSucceeds`,
`CasFails`, which may fail spuriously), and the end (`PlaceBuffer`,
`FailLocation`). `buffer[b]` says whether `b` is a LOCDEFER buffer and whether it
plays. `Initialize`, `AcquireResources`, `Play`, `Stop`, an EAX property set and
the last `Release` are the calls. OpenAL has as many sources as there are voices,
as `CreateDeviceShare` counts them (`VoiceLimits`). History variable: `strayed` (a source was
generated without a voice, by an EAX property).

`VoicePool` is the abstract specification: a voice is taken and given back
atomically. `ImplementsVoicePool` is the refinement, with the holders of voices
computed from locations and calls.

Run `source_pool`: two objects with two buffers each, two hardware voices and one
software voice, so that both counters run full, objects race for the last voice
of each kind, and a call for any kind falls back from one to the other. Renaming
objects and buffers is a symmetry; all properties are safety properties.
`VoicesAreBacked` says that a buffer that plays has a voice and a source, whatever
happened before, and that every voice has a source as long as none has `strayed`.

### VoiceLimits

The numbers `CreateDeviceShare` derives from what OpenAL reports: how many sources
make how many hardware and software voices, how many groups of buffers
`Initialize` prepares, and how long `notifyThread` waits. They are the constants of
the other modules; here they are operators, evaluated by an assumption of
`MCSourcePool` and proved about in `SourcePoolProofs`.

### Playback

One buffer: `Play`, `Stop`, `SetCurrentPosition`, `GetCurrentPosition`,
`SetNotificationPositions`, `AcquireResources` and `updateNotify`, beside a mixer
that plays one block at a time, wraps or ends. The source keeps an offset also
while it does not play (`alOffset`): a paused source goes on from it, and an
offset set on a stopped or never played source takes effect when it starts,
though `AL_BYTE_OFFSET` reads 0 there, as the comment in `GetCurrentPosition` says.
`updateNotify` in the thread is two steps (`PollOffset`, `PollState`), and so is
`GetCurrentPosition` (`GetOffset`, `GetStatus`), which takes no mutex. In calls the
source is not playing when it is polled, so that they are one step. History
variables: `crossed` (blocks played since `mLastPos` was set), `lapped` (more was
played than the difference of two offsets can tell), `misplaced` (`Play` started
the source somewhere else than at `mLastPos`).

Run `playback`: three blocks, so that an offset can lie before, at and after
`mLastPos` with the wrap in between; notifications at the first, inner and last
block, and for the end. `NothingSpurious` and `NothingMissed` compare what is
signalled with what was really played. What they exclude is stated in
`InReach` and `Overtaken`: a source more than one turn ahead, and the seeks and
re-armings described under Findings. `PositionKept` follows the cursor through
`Stop`, relocation, `Play` and the thread; `PositionWasReal` is about the unlocked
getter. Runs `playback_stopped` and `playback_holds` expect violations.

### DeviceList

`SharedDevice::GetById`, `Release` and `dispose`. The first and the last run under
`sDeviceListMutex` and are one step each; `Release` drops `mRef` without it. A
device is an address and may be used again. History variable: `revived`, the
addresses whose count rose again from zero, which `GetById` makes possible between
`Release` and `dispose`. From there the code frees a device that is held; the
model stops when an object holds a freed address, since the program's behaviour
is undefined then. `CHECK_DEADLOCK` is off for that reason.

### EntryPoints

Extends `DeviceList` by the ways in which objects come and go: `DirectSoundCreate`,
a class factory and `Initialize`, and `DSFullDuplex::Initialize`, which makes a
`DSound8OAL`, sets its level, makes a buffer, a `DSCapture` and a buffer of it one
after the other (`DuplexDevice` to `DuplexQuery`) and takes back what it made when
a step fails. Capture devices are opened apart from the list and have no share in
it. When the capture side fails, `mDS8Handle` is dropped before the local `dsbuf`
(`src/fullduplex.cpp:147`): the object is deleted with the buffer that `dsbuf` then
releases. The model gives the device back and takes that full duplex out of use
(`"Lost"`). A primary buffer has no `IDirectSoundBuffer8`, so that a full duplex
that asks for one fails at its end with `E_NOINTERFACE`, and keeps both handles
(`DuplexQuery`); it then answers calls as if it had succeeded.

Run `device_list` (specification `EntrySpec`): three objects, two GUIDs, three
addresses: one object can be between `Release` and `dispose` while a second revives
the device and a third gets another device at the same address, and each may be
the full duplex's. `HandlesExact`: whatever failed, no device is left with an object
nobody has a handle to, and a full duplex that is not being initialised has both
halves or none. With none, a call is forwarded through a null handle
(`src/fullduplex.cpp:211`): `HandlesExact` does not say that an application makes no
such call. Weak fairness of `EndDispose`: the thread that dropped the last
reference runs on.

### Enumeration

`enumerate_mmdev` and its callers, as functions of the endpoints of the system, the
answers of the application's callback and the list of GUIDs the last enumeration
left: each runs under `gDeviceListMutex` from beginning to end. The default endpoint
is visited first and again in its place, where its GUID is recognised
(`IsFirst`). An assumption of `MCDeviceList` evaluates, for up to three endpoints
that may be unreadable or nameless, and for callbacks that stop anywhere:
`HandedOutExact` (the primary driver, the default device and then all others, each
once, none after the answer `FALSE`), `HandedOutIsKept` (a GUID handed out by
pointer is in the list until the next enumeration), `PropertySetExact` and
`MappingExact`.

What the code does and nothing promises: `WaveDeviceMapping` asked for the
description of the primary driver reads through a GUID pointer that is null
(`src/propset.cpp:113`); the enumeration of a property set never fills in
`DeviceId`; `GetDeviceID` answers `S_OK` and leaves the GUID alone when the property
is of another type (`src/dsoal.cpp:347`); a callback that enumerates never returns.

### Capture

`DSCBuffer`: the capture thread, the ring and the calls of the application. The
thread's loop is split where another thread or the device can come between:
taking the mutex (`ThreadEnter`), reading `mQuitNow` (`ThreadCheck`), asking the
device after it slept (`ThreadWake`, `ThreadWakeIdle`), each piece it reads up to
the end of the ring (`ThreadRead`), storing `mWritePos` (`ThreadPublish`) and the
notifications (`ThreadNotify`). `Stop` is four steps: it stops the device under the
mutex, and lets go of it to raise `mQuitNow` and to join. `~DSCBuffer`
does the same in `Close`. Samples carry the number in which the device delivered
them, and the ring holds these per byte, so that a tear or a shift shows.
`mTotalRef` is the only count that decides anything; those of the two interfaces
are only returned, and are left out. History variables: `taken`, `passed`, `fired`.

Run `capture`: frames of two bytes, rings of one and four frames (sizes that are
not a multiple of the frame are rounded or refused, as in the code), two threads,
one of which stops. A ring of four frames and reads of up to its size put every
read before, across and at the end of the ring; nine samples go round twice.
`ReadableIsIntact` is about `GetCurrentPosition`, which takes no mutex and may be
called in the middle of a read; its two loads are one step. `MarkersAreExact`
leaves out a pass that fills the whole ring: then `oldpos = writepos` and the code
signals nothing. `StopReturns` assumes weak fairness of the thread, of a call of
`Stop` that has begun and of the destructor: all are running threads, and the
mutex is held for bounded times only. `OneStopperAssumption`: two threads that stop one buffer
at once would join one `std::thread` twice.

### DeferredSettings and Params3D

`DeferredSettings` is what an application is promised by `DS3D_IMMEDIATE` and
`DS3D_DEFERRED`: settings in effect and settings that are pending, both of them
field by field what the calls made them. Its variable `asked` is the call that was
made last with its arguments, and each step is that call: `Set` changes the fields it
gives and nothing that is pending, `Defer` makes the fields it gives pending beside
those that are, `Commit` makes everything pending effective and leaves nothing
pending, `Create`, `Copy` and `Destroy` are the only steps that may drop a pending
setting, each of its own object, and any other call changes neither. `Params3D` has what the code has: `mImmediate`, `mDeferred` and
`mDirty` of each 3D buffer and of the listener, sources that come and go in
`setLocation`, and what OpenAL was last told, per source (`al`) and listener
(`lAl`). Parameters are abstracted to how the code treats them: positions and the
like reach OpenAL only while the mode is not `DS3DMODE_DISABLE`, the mode parks and
restores them, the listener's rolloff factor is told to every source, the others
go straight through. Every call holds `mDsMutex` and is one step; a commit, by the
listener or by an EAX property that is not deferred, is the whole of
`PrimaryBuffer::commit`, the listener's parameters first and then each buffer.

A buffer without `DSBCAPS_CTRL3D` is `flat`: its source is told relative and without
rolloff, and is not in the loop that follows a new rolloff factor. Volume, pan and
frequency (`controls`) are never deferred; the pan of a 3D buffer is kept and never
told. A duplicate copies the immediate parameters, the pan and the frequency
(`DuplicateBuffer`), but not what is deferred or the volume. The constructor and
`Initialize` are one step, with the first location unless `DSBCAPS_LOCDEFER`
(`FirstLocation`). OpenAL is assumed to have `AL_SOFT_SOURCE_PANNING`, without which
a pan is kept in `mPan` and never told (`src/buffer.cpp:1247`).

Run `params3d`: two buffers and the listener, two values; `AlFollowsImmediate` and the
refinement `ImplementsSettings`: a setting that is deferred has no effect before the
commit, none is lost before it, by a setting made at once, a relocation, a duplicate or
the release of the primary buffer, and none is applied twice. The history variable
`asked` is written by every action, before anything is done about the call, and read by
no guard and no other assignment, so that `VIEW` leaves it out of the states that TLC
tells apart; TLC evaluates the refinement on every step it generates, also on those to a
state it has seen. `MaxBusy` bounds the settings that are pending or
differ from the defaults, of all objects together; three are enough to defer all
parameters of a buffer, and for an immediate setting, a deferred one of the same
parameter and a mode or rolloff factor that changes what they mean. The two
buffers are a symmetry. The model stops at `MaxBusy`, hence `CHECK_DEADLOCK FALSE`.
It follows from reading, and no property states it, that `setLocation` of a flat
buffer with EAX resets `EAXSOURCE_ACTIVEFXSLOTID`, which an application may have set
before.

### PropertySets

The tables of `Buffer::Prop`: what `QuerySupport` grants, and who answers a `Get`
and a `Set`. Sets and identifiers are abstracted to names and to the numbers of the
enumerations of `eax.cpp`; the top bit defers. An assumption of `MCParams3D`
evaluates for the numbers around every end of a table: `SupportIsHonest` (what is
granted is answered), `DeferralIsKnown` (an identifier that is granted commits, its
twin with the top bit does not, and EAX 1 has no such twin) and `LaterVersionsKnow`
(the numbers of EAX 3 mean the same in EAX 4).

### PrimaryBuffer

The primary buffer is a member of `DSound8OAL` and outlives its references. Two
things about it are modelled. `AddRef` and `Release`, and
`CreateSoundBuffer` around them, take no mutex: `AddRef`, `AddDsRef` and `ClearFlags`
are the three steps of one call, `Release`, `DropDsRef` (or `DropNothing`, the early
return for applications that release too often) and `DropTotal` those of the other.
And the cooperative level: in `DSSCL_WRITEPRIMARY` a buffer of the emulation
plays what the application writes (`mWriteEmu`), and the secondary buffers are lost
until a lower level lets them be restored. `RaiseFails` is the loop that marks
buffers lost and gives up at the first that plays. `DSSCL_EXCLUSIVE` does in the
code what `DSSCL_PRIORITY` does. History variables: `older` (the buffers that were
there when the level was set), `emuFailed`.

Run `primary_buffer`: two threads that may each hold two references, create
and release once too often, two secondary buffers, so that the loop can mark one
and give up at the next. Threads are a symmetry. Run `primary_held` (no secondary
buffers, nobody releases too often) expects a violation.

What the code does and no comment promises, and no property states: a
failed `SetCooperativeLevel` leaves the buffers it has marked lost; after `SetFormat`
the write emulation does not play though `mPlaying` is set, does not have the pan
of the primary buffer, and the memory of a `Lock` the application still holds is
gone; `SetFormat` keeps the new format also when its write emulation cannot be made;
`GetCaps` reports 32768 bytes where the write emulation was rounded down to whole
blocks; a buffer that is created in `DSSCL_WRITEPRIMARY` is not lost and may play.

### BufferSlots

Models the life of a secondary buffer. Slots stand for the places of the groups in
`mSecondaryBuffers`, of which `createSecondaryBuffer` takes the first free one; a
buffer is `"New"` from there until `Initialize` gives it `mBuffer`, and then plain or
3D; a duplicate starts with the `mBuffer` of its original. Each interface of a buffer
has a count of its own beside the total: `Ds` stands for `IDirectSoundBuffer(8)`, and
`Other` for `Buffer3D`, `Prop`, `Notify` and `Unknown`, which count alike and are each
changed only by their own `AddRef` and `Release`. An `AddRef` is two steps (total, then
interface), a `Release` is three at most (interface, total, `dispose`), and other
threads run between them; the two halves of `CreateSoundBuffer` and `dispose` hold
`mDsMutex` and are one step each. The references to the object count apart from
those of its buffers: a buffer holds none, and when the last one is released
`finalize` deletes the object with every buffer that is still there.

The model relies on what an application of COM keeps: a thread calls an interface only
while it holds a reference to it, and has a reference to the object while it calls the
object or its buffers. It may hand a reference to another thread.

* `buffer_slots` (two threads that may be exchanged, two slots, one reference per
  interface and thread): `TypeOK`, which includes that no count goes below zero and
  that no thread calls or holds a destroyed buffer; `BuffersAreExact`, that each
  count is what is held and under way, that one thread disposes of an unreferenced
  buffer and nobody of another, and that `m3dBuffers` lists each 3D buffer once.
  Two threads are enough to race the last `Release` of two interfaces and an
  `AddRef` with a `Release`; two slots let one be used again while the other is
  the original of a duplicate. Deadlock is not checked: the object may be gone.

What reading showed, and no comment promises otherwise: `SetCooperativeLevel` of another
thread between `createSecondaryBuffer` and `Initialize` finds the buffer in its slot and
reads through its null `mBuffer` (`src/buffer.cpp:966`); `CreateSoundBuffer` does not
test whether `createSecondaryBuffer` returned a buffer (`src/dsoundoal.cpp:634`);
`~DSound8OAL` destroys `m3dBuffers` before the buffers that remove themselves from it
(`src/dsoundoal.h:157`); `DSFullDuplex::Initialize`, when the capture side fails, drops
the object while it still holds one of its buffers, which it then releases
(`src/fullduplex.cpp:147`).

### LockRegions

Arithmetic without state: the size `SharedBuffer::Create` gives a buffer, what
`Buffer::Lock` and `DSCBuffer::Lock` accept and which two regions they hand out,
what `Unlock` takes back. The number of values of a `DWORD` and a `WORD` are
constants, so that TLC evaluates all of it for small ones (`CheckedUpTo`, an
assumption of `MCCapture`: 64 and 16 values, sizes below 6, every request), and
`CaptureProofs` proves it for all. Left out: the flag `mLocked`, an atomic
exchange in each function; and that `Create` multiplies two `WORD`s as `int`.
`Unlock` gives up the lock before it looks at the regions, so that one that is
refused has unlocked all the same (`src/buffer.cpp:1320`). A duplicate shares the
data of its original but has an `mLocked` of its own.

### WaveFormats

What secondary (`SharedBuffer::Create`), primary (`SetFormat`) and capture buffers
(`DSCBuffer::Initialize`) accept as a format, which OpenAL format each makes of it
and what `GetFormat` answers. The nested switches of `ConvertFormat` are a relation
between a format and the pairs of a sample type and a channel configuration, of
which a format has at most one; a channel mask is a set of speakers. Extends
`LockRegions`, whose sizes it uses. An assumption of `MCBufferSlots` evaluates every
promise for over 30,000 formats, with `DWORD`s of 80 and `WORD`s of 48 values so that
byte rates wrap around; `CaptureProofs` proves them for all.

## Findings

* `~Buffer` (`src/buffer.cpp:503`) leaves the buffer's address on `mNotifyBuffers`.
  The thread then polls a destroyed buffer, or the next one in its slot. Run
  `notify_stale` refutes the comment in `SetNotificationPositions`
  (`src/buffer.cpp:2471`): "it *just* stopped on its own".
* A seek between the end of a playback and its poll (`src/buffer.cpp:1192`) makes
  `updateNotify` signal positions that were not played; run `playback_stopped`
  refutes the comment at `src/buffer.cpp:532`.
* `Stop` on a source that was never played drops the position that was set
  (`src/buffer.cpp:1307`); run `playback_holds` refutes the comment at
  `src/buffer.cpp:832`. The finding rests on OpenAL reporting offset 0 for a source
  in `AL_INITIAL`.
* Of two threads that create the primary buffer at the same time one may clear the
  flags that the other's `Initialize` has set (`src/primarybuffer.cpp:110`): both then hold
  a buffer that answers as uninitialised as long as it is referenced. Run
  `primary_held` refutes the comment at `src/primarybuffer.cpp:107`, "so it can be
  reinitialized".
* Not tied to a comment, and excluded from `NothingSpurious` by `misplaced`: `Stop` on
  a source that ended and was moved since, and notifications set for the first
  time on a buffer that ended while it had none. In both, `mLastPos` is not where
  the source starts, and the first poll signals positions that were not played.
* `GetById` may revive a device whose disposal is under way (`src/dsoundoal.h:54`);
  `DeviceList` excludes its consequences by `revived`.

## Proofs

Every invariant, action property and refinement that a passing run checks is also a
theorem, checked by TLAPS for every value of the constants. A proof states the
inductive invariant (`IInv` and its like) at its head, shows that `Init` establishes it,
one lemma per action that it is kept, and draws the property from it. `Sum`, a count
over threads, is in each case the size of a set of pairs of a thread and a number,
so that a reference more or less is one element more or less.

The assumptions are named in the modules that declare the constants, and TLC
evaluates them in the runs:

| Module | Assumed |
| --- | --- |
| `NotifyThread` | nothing |
| `SourcePool` | finite sets, every buffer has an object, the limits are natural numbers |
| `VoiceLimits` | the least number of sources is not below the most hardware voices |
| `DeviceList`, `EntryPoints` | a finite set of objects, of which none and no device or GUID is `None` |
| `PrimaryBuffer`, `BufferSlots` | finite sets of threads, the bounds are natural numbers |
| `Params3D` | the kinds of fields are apart, the named values differ, `Nothing` is not a value |
| `Playback` | a positive size; notifications are positions or the one for the end |
| `Capture` | a positive frame size, sizes and offsets are natural numbers, `StopOffset` beyond them all, one thread that stops a buffer |
| `LockRegions`, `WaveFormats` | widths and limits, of which the greatest frequency times four and the primary buffer's size fit a `DWORD` |

* `NotifyThreadProofs`: `NoLostWakeup` and the others are not inductive. `IInv` adds who
  holds the mutex at which point of the thread (`MutexInv`), that `mQuitNotify` is set
  exactly from the destructor's first step on (`QuitInv`), so that a thread that
  passed the check while the flag was clear is seen by `DestroyLock` still holding
  the mutex, that stale entries are listed (`StaleInv`), and that only buffers with
  `DSBCAPS_CTRLPOSITIONNOTIFY` have notifications or list themselves (`FlagInv`). Theorems
  `WakeupsAreNotLost`, `PlayingBuffersArePolled`, `ListIsExact`,
  `StopEventsAreExact`.
* `SourcePoolProofs`: `CountersExact` needs that a call in progress is about a buffer of its
  own object that has no location (`CallInv`), so that the step that marks the
  location moves no holder; `CountersBounded` needs that a compare-exchange is
  tried only with a value below the maximum, which is its guard against the
  count that others reached. From both, `CountersImplementPool`: every step is a step
  of `VoicePool` or changes no holder, and the compare-exchange that succeeds is the
  one that takes the voice. `VoicesAreBacked` adds that every source belongs to a buffer
  with a location unless one has strayed (`SourcesLocated`); a call that took a voice
  then finds a source left (`SourceIsLeft`), because the others belong to other holders
  and OpenAL has as many sources as there are voices. Theorems `CountersAreExact`,
  `CountersAreBounded`, `VoicesBacked`, `PlayingKeeps`; and those of VoiceLimits,
  `SplitIsExact`, `GroupsAreEnough`, `PollsArePaced`, from one lemma about dividing and
  rounding down.
* `EntryPointsProofs`: `ListInv` is about the list alone. `CountInv` says that `mRef`
  counts the holders of every device there is, a revived one included; `DisposalInv`,
  that exactly one thread will dispose of a device that lost its last reference and
  nobody of any other, which fails from the moment one is revived and is claimed of
  the others only; `OneAtATime`, that an object that has still to dispose of a device
  holds none. `EntryPointsUseTheList` shows that a step of an entry point is a step of the
  list or leaves it alone, which carries `ListInv` over. `DuplexInv` says how far a
  full duplex that is being initialised has come. Theorems `ListIsExact`,
  `RefsAreExact`, `HeldDevicesAlive`, `HandlesAreExact`, `EntryTypeCorrect`.
* `PrimaryBufferProofs`: the counts and the level have nothing to do with each other but
  that a reference sets and clears flags. `RefInv` adds that the listener's count is
  exact and that `mDsRef` never counts more than the references there are: it may count
  fewer once one was released too often. `LevelInv` adds that no buffer has to stay
  lost outside `DSSCL_WRITEPRIMARY`. Theorems `CountsExact`, `EmuFollows`, `OlderStayLost`,
  `StoppedStaysReset`.
* `Params3DProofs`: what OpenAL was told is a function of the immediate values, the mode
  and the listener's rolloff factor (`AlFollowsImmediate`), and inductive with the types.
  `DeferralImplemented`: with the values in effect and those pending computed from
  `mImmediate`, `mDeferred` and `mDirty`, every step of `Params3D` is the step of
  `DeferredSettings` that its call asked for. A setter changes the fields it was given
  and no others, in one object (`SetSetting`, `DeferSetting`, `ListenerSetting`); a
  commit needs the types, for a pending value is never `Nothing` (`CommitSettings`);
  creation and duplication need that a place without a buffer has the default parameters
  and nothing dirty (`Resting`), which is proved invariant first. `setLocation`,
  the controls, deferred EAX properties and `ReleasePrimary` change no setting. Theorems `TypeCorrect`, `AlFollows`, `DeferralImplemented`.
* `BufferSlotsProofs`: while the object is there, the counts of a used slot are exact and
  one thread disposes of it when they are zero (`UsedInv`), a free one is neither held
  nor called (`FreeInv`), `m3dBuffers` lists it unless its creator has still to
  (`ListInv`), and only its creator has a buffer that was just made (`NewInv`). `CallInv`
  says that whoever calls has a reference to the object, so that the last `Release` of
  the object finds nobody in a call. Theorems `TypeCorrect`, `BuffersExact`.
* `PlaybackProofs`: `TrailInv` says what was played since `mLastPos` was set: the blocks
  from there around to the source's offset, or to the end when the source ended,
  and at least these when it may have gone round (`lapped`). Between the thread's two
  reads the trail is in two parts, of which `PollInv` has the second. `SourceInv`: a paused
  source is where `mLastPos` is. `GetterInv`: a call of `GetCurrentPosition` in progress
  has seen what it read. Theorems `NothingIsSpurious`, `NothingIsMissed`,
  `PositionIsKept`, `ReportedWasReal`.
* `CaptureProofs`: `LifeInv` says when the object exists and that one that does not
  capture has no thread; `CallInv`, that a thread in `Stop` holds a reference, so that
  nobody is in the destructor; `PlaceInv`, that `writepos` is `passed` frames ahead of
  `oldpos` around the ring; `RingInv`, that every byte that was written holds the sample
  of its distance back from where the thread last wrote (`BackOf`). What a read does to
  these distances rests on lemmas about division (`Quotient`, `Shifted`, `Mirrored`,
  `Turned`). Theorems `RingIsLatest`, `MarkersExact`, `ReadableStaysIntact`,
  `StoppedIsStill`.
* LockRegions (in `CaptureProofs`): lemmas about `%` for a value below the modulus, below
  twice the modulus, and rounded down. `BufferSizesAreExact`: a size that wraps around is below
  the block alignment, so it is rounded to 0 and refused. `BufferLocksTile` and
  `CaptureLocksTile` bring the two ways in which the code writes the comparison into
  one form, for which `SplitTiles` shows that the regions are the ring's bytes;
  `UnlockedAreApart` is what `Unlock` relies on.
* WaveFormats (in `CaptureProofs`): everything rests on lemma `BlockSizes` and its like,
  which bring the block size that a format claims, `ValidFormat` and the frame size of
  its OpenAL format together. `FramesMatch`, `DataIsWhole`, `ReportedIsAcceptedAgain`,
  `CapturedFormatsPlay`, `EmulationFormats`, `EmulationsFit`, `AdvertisedFormats`: a
  buffer's positions are whole OpenAL frames, what `GetFormat` answers is accepted
  again, by the same kind or another, and the write emulation has the format and the
  size it was asked for.

Model-checked only: liveness (`EndIsReported`, `DestructorEnds`, `UnusedIsFreed`,
`StopReturns`), since the prover handles neither fairness nor `ENABLED`. Enumeration is
written with folds over lists, whose values for every list would need an induction
over data that the installed provers cannot instantiate; TLC evaluates it for all
small systems. PropertySets is a finite table but for the top bit, and its evaluation is
complete. The four runs that expect a violation show what the code does against a
comment, which no theorem could state.

## Plan

Modelled and checked: `NotifyThread`, `SourcePool` with `VoicePool`, `VoiceLimits`,
`LockRegions` and `WaveFormats`, `Playback`, `DeviceList` with `EntryPoints` and
`Enumeration`, `Capture`, `Params3D` with `DeferredSettings` and `PropertySets`,
`PrimaryBuffer`, `BufferSlots`. All safety properties are proved. What is left, in
this order:

1. Theorems beyond what the runs check: that the thread of `NotifyThread` and the polls
   of `Playback` agree on who lists and removes a buffer; that the voices of
   `VoiceLimits` are the bounds of `SourcePool`.
2. For Enumeration, lemmas about one visit of an endpoint, whatever the list.
3. A second stopping thread in `Capture`, without which `OneStopperAssumption` has to
   stand.

## Not modelled

* Third-party code in the tree: the formatting library (`fmt-11.2.0`) and the
  headers of OpenAL (`src/AL`). OpenAL itself is modelled as the code uses it
  (source states, offsets, a limited number of sources).
* Loading and registration of the DLL, the counts of the static factories, logging,
  the printing of GUIDs, `ComPtr` and `Expected` as such.
* Getters, which copy a value under the mutex, and the calls `DSFullDuplex` and the
  primary buffer only forward; the counts of `DSFullDuplex` are those of `BufferSlots`.
* `mLocked`, one atomic exchange on each side.
* The descriptions of devices in property sets, whose strings are converted and
  copied; the entry points and device names of capture, which keep no state beside
  the OpenAL device; `QuerySupport` of the private property set, one table.
* Audio data: samples are only numbered (`Capture`).
* `DSound8OAL::Initialize` tests `mShared` without a mutex; two threads that initialise
  one object at once are not modelled (`EntryPoints` has one call per object).
