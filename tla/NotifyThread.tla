---------------------------- MODULE NotifyThread ----------------------------
(***************************************************************************)
(* The notification thread of one DSound8OAL object and everything that    *)
(* shares mDsMutex with it: the list mNotifyBuffers of buffers whose       *)
(* position notifications have to be polled, the condition variable        *)
(* mNotifyCond, the calls of the application that add and remove buffers   *)
(* (Play, Stop, SetNotificationPositions, AcquireResources, Release), the  *)
(* mixer that ends a source behind everybody's back, and the destructor.   *)
(*                                                                         *)
(* A member of Buffers is a slot of mSecondaryBuffers, that is an address: *)
(* a Buffer created after another was released may get the same one, and   *)
(* the list holds addresses.  Of the notifications this module keeps the   *)
(* one that is owed at the end of a playback (DSBPN_OFFSETSTOP); the       *)
(* positions are in module Playback.                                       *)
(*                                                                         *)
(* A call of the application runs entirely under mDsMutex, so it is one    *)
(* step, enabled while the mutex is free.  The thread gives the mutex up   *)
(* only while it waits, but it reads mQuitNotify, which is written without *)
(* the mutex, so it takes several steps.                                   *)
(***************************************************************************)
EXTENDS Naturals

CONSTANT Buffers   \* the slots of mSecondaryBuffers

VARIABLES
  mutex,          \* mDsMutex: "free", or "notifier" while the thread holds it
  notifyBuffers,  \* mNotifyBuffers (no step depends on its order)
  thread,         \* where mNotifyThread is; "none" while it is not joinable
  quitNotify,     \* mQuitNotify
  dtor,           \* where ~DSound8OAL is
  live,           \* the slots that hold a constructed Buffer
  ctrlNotify,     \* those with DSBCAPS_CTRLPOSITIONNOTIFY
  source,         \* per slot, the state of mSource ("None" while it is 0)
  armed,          \* per slot, whether mNotifies is not empty
  event,          \* per slot, whether the stop event is signalled
  owed,           \* history: a playback somebody is to be told of ended by
                  \* itself, and the buffer was not polled since
  stale           \* history: list entries left behind by a released Buffer,
                  \* as long as no new Buffer in the slot is played that
                  \* could list itself

app    == <<live, ctrlNotify, source, armed, event, owed, stale>>
notify == <<mutex, notifyBuffers, thread, quitNotify, dtor>>
vars   == <<mutex, notifyBuffers, thread, quitNotify, dtor,
            live, ctrlNotify, source, armed, event, owed, stale>>

SourceStates == {"None", "Initial", "Playing", "Paused", "Stopped"}
ThreadStates == {"none", "acquire", "check", "body", "wait", "waitFor",
                 "exited", "joined"}
DtorStates   == {"idle", "lock", "notify", "join", "done"}

Init ==
  /\ mutex = "free"
  /\ notifyBuffers = {}
  /\ thread = "none"
  /\ quitNotify = FALSE
  /\ dtor = "idle"
  /\ live = {} /\ ctrlNotify = {}
  /\ source = [b \in Buffers |-> "None"]
  /\ armed = [b \in Buffers |-> FALSE]
  /\ event = [b \in Buffers |-> FALSE]
  /\ owed = [b \in Buffers |-> FALSE]
  /\ stale = {}

-----------------------------------------------------------------------------
(* What the calls are made of.                                             *)

\* The application may call into the object until it drops its last
\* reference, and a call body runs while it holds the mutex.
CanCall == dtor = "idle" /\ mutex = "free"

\* notify_all: a waiting thread has to take the mutex again.
Notified == IF thread \in {"wait", "waitFor"} THEN "acquire" ELSE thread

\* Mutant: a buffer that is not playing is reported but stays listed.
TriggerNotifiesKeeps(states, dropped) ==
  LET over == {b \in notifyBuffers \cap live : states[b] # "Playing"}
  IN  /\ notifyBuffers' = notifyBuffers \ dropped
      /\ event' = [b \in Buffers |-> event[b] \/ (b \in over /\ armed[b])]
      /\ owed' = [b \in Buffers |-> owed[b] /\ b \notin over \cup dropped]
      /\ stale' = stale \ dropped

(* remove_if(mNotifyBuffers, !updateNotify), given the states of the       *)
(* sources.  updateNotify signals the stop event of every buffer that is   *)
(* not playing and drops it.  On an entry whose Buffer was destroyed it    *)
(* reads a dead object: the entry may stay or go.  "dropped" is what the   *)
(* caller removes from the list on top of that.                            *)
TriggerNotifies(states, dropped) ==
  LET over == {b \in notifyBuffers \cap live : states[b] # "Playing"}
  IN  \E dead \in SUBSET (notifyBuffers \ live) :
        /\ notifyBuffers' = (notifyBuffers \ (over \cup dead)) \ dropped
        /\ event' = [b \in Buffers |-> event[b] \/ (b \in over /\ armed[b])]
        /\ owed' = [b \in Buffers |-> owed[b] /\ b \notin over \cup dropped]
        /\ stale' = stale \ (over \cup dead \cup dropped)

\* alSourcePause: it has no effect on a source that is not playing.
Paused(b) == [source EXCEPT ![b] = IF @ = "Playing" THEN "Paused" ELSE @]

(* addNotifyBuffer: list the buffer; the first entry starts the thread or  *)
(* wakes it up.                                                            *)
AddNotifyBuffer(b) ==
  /\ notifyBuffers' = notifyBuffers \cup {b}
  /\ thread' = IF b \in notifyBuffers THEN thread
               ELSE IF thread = "none" THEN "acquire"
               ELSE IF notifyBuffers = {} THEN Notified
               ELSE thread

-----------------------------------------------------------------------------
(* The application's calls.                                                *)

\* Mutant: mSource is left uninitialised.
CreateWithoutInit(b) ==
  /\ CanCall /\ b \notin live
  /\ live' = live \cup {b}
  /\ source' = [source EXCEPT ![b] = "Garbage"]
  /\ UNCHANGED <<notify, ctrlNotify, armed, event, owed, stale>>

\* A buffer gets a free slot.  A LOCDEFER buffer has no source until it is
\* located, another one has a source that was never played.
CreateSoundBuffer(b) ==
  /\ CanCall /\ b \notin live
  /\ live' = live \cup {b}
  /\ ctrlNotify' \in {ctrlNotify, ctrlNotify \cup {b}}
  /\ \E s \in {"None", "Initial"} : source' = [source EXCEPT ![b] = s]
  /\ armed' = [armed EXCEPT ![b] = FALSE]
  /\ event' = [event EXCEPT ![b] = FALSE]
  /\ owed' = [owed EXCEPT ![b] = FALSE]
  /\ UNCHANGED <<notify, stale>>

\* The last reference to the buffer goes: the Buffer is destroyed and its
\* slot is free.  ~Buffer does not touch mNotifyBuffers.
Release(b) ==
  /\ CanCall /\ b \in live
  /\ live' = live \ {b} /\ ctrlNotify' = ctrlNotify \ {b}
  /\ source' = [source EXCEPT ![b] = "None"]
  /\ armed' = [armed EXCEPT ![b] = FALSE]
  /\ event' = [event EXCEPT ![b] = FALSE]
  /\ owed' = [owed EXCEPT ![b] = FALSE]
  /\ stale' = IF b \in notifyBuffers THEN stale \cup {b} ELSE stale
  /\ UNCHANGED notify

\* Play on a buffer that is not playing (on a playing one it changes nothing
\* here), relocated or not.  It supersedes an end that was not reported yet.
Play(b) ==
  /\ CanCall /\ b \in live
  /\ source[b] # "Playing"
  /\ source' = [source EXCEPT ![b] = "Playing"]
  /\ owed' = [owed EXCEPT ![b] = FALSE]
  /\ IF b \in ctrlNotify /\ armed[b]
       THEN AddNotifyBuffer(b)
       ELSE UNCHANGED <<notifyBuffers, thread>>
  /\ stale' = IF b \in ctrlNotify THEN stale \ {b} ELSE stale
  /\ UNCHANGED <<mutex, quitNotify, dtor, live, ctrlNotify, armed, event>>

\* AcquireResources, or a Play that does not get any further, moves a buffer
\* that is not playing to another kind of voice: the old source is deleted, and
\* there is a new one unless the pools are exhausted.
SetLocation(b) ==
  /\ CanCall /\ b \in live
  /\ source[b] # "Playing"
  /\ \E s \in {"None", "Initial"} : source' = [source EXCEPT ![b] = s]
  /\ UNCHANGED <<notify, live, ctrlNotify, armed, event, owed, stale>>

\* Mutant: Stop takes the buffer off the list without reporting anything.
StopWithoutTrigger(b) ==
  /\ CanCall /\ b \in live
  /\ source[b] # "None"
  /\ source' = Paused(b)
  /\ notifyBuffers' = notifyBuffers \ {b}
  /\ owed' = [owed EXCEPT ![b] = FALSE]
  /\ UNCHANGED <<mutex, thread, quitNotify, dtor, live, ctrlNotify, armed, event,
                 stale>>

\* Stop pauses the source; if the buffer could list itself, it reports whatever
\* is due to every listed buffer and takes this one off the list.
Stop(b) ==
  /\ CanCall /\ b \in live
  /\ source[b] # "None"
  /\ source' = Paused(b)
  /\ IF b \in ctrlNotify
       THEN TriggerNotifies(Paused(b), {b})
       ELSE UNCHANGED <<notifyBuffers, event, owed, stale>>
  /\ UNCHANGED <<mutex, thread, quitNotify, dtor, live, ctrlNotify, armed>>

\* Mutant: accepted while the buffer plays, without a check.
SetPositionsAnyTime(b) ==
  /\ CanCall /\ b \in ctrlNotify
  /\ \E on \in BOOLEAN : armed' = [armed EXCEPT ![b] = on]
  /\ UNCHANGED <<notify, live, ctrlNotify, source, event, owed, stale>>

\* Only a buffer with the flag has the interface for it, and it is refused while
\* the buffer plays.  A check that is pending for this buffer is
\* made now, so that its notifications can be replaced.
SetNotificationPositions(b) ==
  /\ CanCall /\ b \in ctrlNotify
  /\ source[b] # "Playing"
  /\ IF source[b] # "None" /\ b \in notifyBuffers
       THEN TriggerNotifies(source, {b})
       ELSE UNCHANGED <<notifyBuffers, event, owed, stale>>
  /\ \E on \in BOOLEAN : armed' = [armed EXCEPT ![b] = on]
  /\ UNCHANGED <<mutex, thread, quitNotify, dtor, live, ctrlNotify, source>>

\* The application waits for the event, which resets it.
TakeEvent(b) ==
  /\ b \in live /\ event[b]
  /\ event' = [event EXCEPT ![b] = FALSE]
  /\ UNCHANGED <<notify, live, ctrlNotify, source, armed, owed, stale>>

-----------------------------------------------------------------------------
(* The mixer: a source that does not loop reaches the end of its data.     *)

NaturalEnd(b) ==
  /\ b \in live /\ source[b] = "Playing"
  /\ source' = [source EXCEPT ![b] = "Stopped"]
  /\ owed' = [owed EXCEPT ![b] = armed[b] \/ b \in notifyBuffers \ stale]
  /\ UNCHANGED <<notify, live, ctrlNotify, armed, event, stale>>

-----------------------------------------------------------------------------
(* notifyThread.                                                           *)

ThreadAcquire ==
  /\ thread = "acquire" /\ mutex = "free"
  /\ mutex' = "notifier" /\ thread' = "check"
  /\ UNCHANGED <<notifyBuffers, quitNotify, dtor, app>>

ThreadCheckQuit ==
  /\ thread = "check"
  /\ IF quitNotify THEN thread' = "exited" /\ mutex' = "free"
                   ELSE thread' = "body" /\ UNCHANGED mutex
  /\ UNCHANGED <<notifyBuffers, quitNotify, dtor, app>>

\* Mutant: the thread waits for a notification whatever is listed.
ThreadPollUntimed ==
  /\ thread = "body" /\ notifyBuffers # {}
  /\ TriggerNotifies(source, {})
  /\ thread' = "wait" /\ mutex' = "free"
  /\ UNCHANGED <<quitNotify, dtor, live, ctrlNotify, source, armed>>

\* Nothing to poll: give the mutex up and wait to be notified, in one step.
ThreadWait ==
  /\ thread = "body" /\ notifyBuffers = {}
  /\ thread' = "wait" /\ mutex' = "free"
  /\ UNCHANGED <<notifyBuffers, quitNotify, dtor, app>>

\* Poll every listed buffer, then wait for a notification or the timeout.
ThreadPoll ==
  /\ thread = "body" /\ notifyBuffers # {}
  /\ TriggerNotifies(source, {})
  /\ thread' = "waitFor" /\ mutex' = "free"
  /\ UNCHANGED <<quitNotify, dtor, live, ctrlNotify, source, armed>>

ThreadTimeout ==
  /\ thread = "waitFor"
  /\ thread' = "acquire"
  /\ UNCHANGED <<mutex, notifyBuffers, quitNotify, dtor, app>>

\* A condition variable may return from wait for no reason.
SpuriousWakeup ==
  /\ thread = "wait"
  /\ thread' = "acquire"
  /\ UNCHANGED <<mutex, notifyBuffers, quitNotify, dtor, app>>

-----------------------------------------------------------------------------
(* ~DSound8OAL, run by the call that drops the last reference.  It sets    *)
(* mQuitNotify without the mutex, takes and releases the mutex, notifies,  *)
(* and joins the thread; then the members are destroyed.                   *)

DestroyBegin ==
  /\ dtor = "idle"
  /\ IF thread = "none"
       THEN dtor' = "join" /\ UNCHANGED quitNotify
       ELSE dtor' = "lock" /\ quitNotify' = TRUE
  /\ UNCHANGED <<mutex, notifyBuffers, thread, app>>

\* Mutant: the destructor notifies without having taken the mutex.
DestroyUnlocked ==
  /\ dtor = "lock"
  /\ dtor' = "notify"
  /\ UNCHANGED <<mutex, notifyBuffers, thread, quitNotify, app>>

DestroyLock ==
  /\ dtor = "lock" /\ mutex = "free"
  /\ dtor' = "notify"
  /\ UNCHANGED <<mutex, notifyBuffers, thread, quitNotify, app>>

\* Mutant: the flag alone is expected to end the thread.
DestroySilently ==
  /\ dtor = "notify"
  /\ dtor' = "join"
  /\ UNCHANGED <<mutex, notifyBuffers, thread, quitNotify, app>>

DestroyNotify ==
  /\ dtor = "notify"
  /\ thread' = Notified
  /\ dtor' = "join"
  /\ UNCHANGED <<mutex, notifyBuffers, quitNotify, app>>

DestroyJoin ==
  /\ dtor = "join" /\ thread \in {"none", "exited"}
  /\ thread' = IF thread = "none" THEN "none" ELSE "joined"
  /\ dtor' = "done"
  /\ notifyBuffers' = {} /\ live' = {} /\ ctrlNotify' = {} /\ stale' = {}
  /\ source' = [b \in Buffers |-> "None"]
  /\ armed' = [b \in Buffers |-> FALSE]
  /\ event' = [b \in Buffers |-> FALSE]
  /\ owed' = [b \in Buffers |-> FALSE]
  /\ UNCHANGED <<mutex, quitNotify>>

-----------------------------------------------------------------------------
Call(b) ==
  \/ CreateSoundBuffer(b)
  \/ Release(b)
  \/ Play(b)
  \/ SetLocation(b)
  \/ Stop(b)
  \/ SetNotificationPositions(b)
  \/ TakeEvent(b)

ThreadStep ==
  \/ ThreadAcquire
  \/ ThreadCheckQuit
  \/ ThreadWait
  \/ ThreadPoll
  \/ ThreadTimeout

DestroyStep == DestroyLock \/ DestroyNotify \/ DestroyJoin

Next ==
  \/ \E b \in Buffers : Call(b) \/ NaturalEnd(b)
  \/ ThreadStep
  \/ SpuriousWakeup
  \/ DestroyBegin
  \/ DestroyStep

(* Fairness: the scheduler runs the thread and the destructor, whoever     *)
(* keeps asking for mDsMutex gets it, and wait_for times out.  The         *)
(* application, the mixer and spurious wake-ups owe nothing.               *)
Spec == Init /\ [][Next]_vars /\ WF_vars(ThreadStep) /\ WF_vars(DestroyStep)

-----------------------------------------------------------------------------
(* Correctness.                                                            *)

TypeOK ==
  /\ mutex \in {"free", "notifier"}
  /\ notifyBuffers \subseteq Buffers
  /\ thread \in ThreadStates
  /\ quitNotify \in BOOLEAN
  /\ dtor \in DtorStates
  /\ live \subseteq Buffers /\ ctrlNotify \subseteq live
  /\ source \in [Buffers -> SourceStates]
  /\ armed \in [Buffers -> BOOLEAN]
  /\ event \in [Buffers -> BOOLEAN]
  /\ owed \in [Buffers -> BOOLEAN]
  /\ stale \subseteq Buffers

(* No wake-up is lost.  When the thread sits in the wait without a timeout *)
(* nothing is listed, and if the object is being destroyed the notify_all  *)
(* of the destructor is still to come: the comment in ~DSound8OAL, "ensure *)
(* we're not between checking mQuitNotify and before waiting on            *)
(* mNotifyCond", and the size() == 1 test of addNotifyBuffer.              *)
NoLostWakeup ==
  thread = "wait" =>
    /\ notifyBuffers = {}
    /\ quitNotify => dtor \in {"lock", "notify"}

(* Everything the application can be told about is polled: an armed buffer *)
(* that plays is on the list, whatever the thread, Stop on another buffer  *)
(* and SetNotificationPositions removed from it in the meantime.           *)
PlayingIsPolled ==
  \A b \in live : source[b] = "Playing" /\ armed[b] => b \in notifyBuffers

(* The list says what happened: a listed buffer that is not playing ended  *)
(* by itself and nobody was told yet ("it *just* stopped on its own" in    *)
(* SetNotificationPositions), and an end nobody was told of is listed.     *)
(* Entries a released buffer left behind are the exception.                *)
PendingIsOwed ==
  \A b \in live \ stale :
    (b \in notifyBuffers /\ source[b] # "Playing") <=> owed[b]

(* Stop events are exact.  One is signalled only because a playback ended: *)
(* by Stop on a playing buffer, or because an end by itself is reported,   *)
(* so that no end is reported twice.  And an end by itself is never struck *)
(* off without its event, unless Play supersedes it, the notifications     *)
(* were taken away or the buffer is destroyed.                             *)
StopEventExact ==
  [][\A b \in live \ stale :
       /\ ~event[b] /\ event'[b] => source[b] = "Playing" \/ owed[b]
       /\ owed[b] /\ ~owed'[b] /\ armed[b] /\ b \in live' =>
            event'[b] \/ source'[b] = "Playing"]_vars

(* The end of a playback does not stay unreported, unless the application  *)
(* drops the object before that.                                           *)
EndIsReported ==
  \A b \in Buffers : owed[b] ~> ~owed[b] \/ dtor # "idle"

(* The destructor ends: the thread never sleeps through the request to     *)
(* quit, and the two never wait for each other.                            *)
DestructorEnds == (dtor = "lock") ~> (dtor = "done")

(* What the comment in SetNotificationPositions says without exception of  *)
(* a buffer that has a source: "If the source isn't playing and still has  *)
(* a notification check pending, it *just* stopped on its own."            *)
PendingJustStopped ==
  \A b \in live :
    b \in notifyBuffers /\ source[b] \notin {"None", "Playing"} => owed[b]
=============================================================================
