------------------------- MODULE NotifyThreadProofs -------------------------
(***************************************************************************)
(* Proofs about NotifyThread, for any set of buffers.                      *)
(***************************************************************************)
EXTENDS NotifyThread, TLAPS

(* The mutex is the thread's exactly between ThreadAcquire and the wait.   *)
MutexInv == mutex = "notifier" <=> thread \in {"check", "body"}

(* How far the destructor can be, given where the thread is: it cannot get *)
(* past its lock while the thread is between reading mQuitNotify and       *)
(* waiting.                                                                *)
QuitInv ==
  /\ thread = "none" => notifyBuffers = {}
  /\ quitNotify /\ thread = "body" => dtor = "lock"
  /\ quitNotify /\ thread = "wait" => dtor \in {"lock", "notify"}

(* The entries of the list that do not belong to a constructed Buffer, and *)
(* the slots without one.                                                  *)
StaleInv ==
  /\ stale \subseteq notifyBuffers
  /\ notifyBuffers \ live \subseteq stale
  /\ \A b \in Buffers \ live : source[b] = "None" /\ ~owed[b]
  /\ \A b \in stale : ~owed[b] /\ (source[b] = "Playing" => b \notin ctrlNotify)

(* Only a buffer with DSBCAPS_CTRLPOSITIONNOTIFY has notifications, and    *)
(* only such a buffer lists itself.                                        *)
FlagInv ==
  /\ \A b \in live : armed[b] => b \in ctrlNotify
  /\ \A b \in live \cap notifyBuffers : b \in stale \/ b \in ctrlNotify

(* The inductive invariant.  NoLostWakeup is not inductive alone: that the *)
(* list is empty when the thread starts to wait is read from the list, but *)
(* that the destructor cannot have notified before needs MutexInv and      *)
(* QuitInv; PendingIsOwed needs StaleInv for slots that are reused, and    *)
(* FlagInv for buffers whose Stop leaves the list alone.                   *)
IInv ==
  /\ TypeOK /\ MutexInv /\ QuitInv /\ StaleInv /\ FlagInv
  /\ NoLostWakeup /\ PlayingIsPolled /\ PendingIsOwed

-----------------------------------------------------------------------------
LEMMA InitIInv == Init => IInv
BY DEF Init, IInv, TypeOK, MutexInv, QuitInv, StaleInv, FlagInv, NoLostWakeup,
       PlayingIsPolled, PendingIsOwed, SourceStates, ThreadStates, DtorStates

(* What a poll of the list leaves behind, for any states of the sources:   *)
(* every entry that stays is a playing buffer or a dead one.               *)
LEMMA TriggerLemma ==
  ASSUME IInv, NEW states \in [Buffers -> SourceStates],
         NEW dropped \in SUBSET Buffers, TriggerNotifies(states, dropped)
  PROVE  /\ notifyBuffers' \subseteq notifyBuffers \ dropped
         /\ event' \in [Buffers -> BOOLEAN]
         /\ owed' \in [Buffers -> BOOLEAN]
         /\ stale' \subseteq stale
         /\ stale' = stale \cap notifyBuffers'
         /\ notifyBuffers' \ live \subseteq stale'
         /\ \A b \in notifyBuffers' \cap live : states[b] = "Playing"
         /\ \A b \in (notifyBuffers \cap live) \ dropped :
              states[b] = "Playing" => b \in notifyBuffers'
         /\ \A b \in Buffers : owed'[b] => owed[b] /\ b \notin dropped
         /\ \A b \in live : states[b] # "Playing" => 
              (b \in notifyBuffers => ~owed'[b])
         /\ \A b \in Buffers :
              owed[b] /\ b \notin notifyBuffers /\ b \notin dropped => owed'[b]
BY DEF TriggerNotifies, IInv, TypeOK, StaleInv
-----------------------------------------------------------------------------
(* Every step preserves the inductive invariant.                           *)
LEMMA NextIInv == IInv /\ [Next]_vars => IInv'
<1> SUFFICES ASSUME IInv, [Next]_vars PROVE IInv'
  OBVIOUS
<1> USE DEF IInv, TypeOK, MutexInv, QuitInv, StaleInv, FlagInv, NoLostWakeup,
            PlayingIsPolled, PendingIsOwed, SourceStates, ThreadStates, DtorStates,
            notify, app
<1>1. ASSUME NEW b \in Buffers, CreateSoundBuffer(b) PROVE IInv'
  BY <1>1 DEF CreateSoundBuffer, CanCall
<1>2. ASSUME NEW b \in Buffers, Release(b) PROVE IInv'
  BY <1>2 DEF Release, CanCall
<1>3. ASSUME NEW b \in Buffers, Play(b) PROVE IInv'
  <2>1. TypeOK' /\ MutexInv' /\ QuitInv' /\ NoLostWakeup'
    BY <1>3 DEF Play, AddNotifyBuffer, CanCall, Notified
  <2>2. CASE b \in ctrlNotify /\ armed[b]
    <3>1. notifyBuffers' = notifyBuffers \cup {b} /\ stale' = stale \ {b}
      BY <1>3, <2>2 DEF Play, AddNotifyBuffer
    <3>2. StaleInv' /\ FlagInv'
      BY <1>3, <2>2, <3>1 DEF Play
    <3>3. PlayingIsPolled' /\ PendingIsOwed'
      BY <1>3, <2>2, <3>1 DEF Play
    <3> QED BY <2>1, <3>2, <3>3
  <2>3. CASE ~(b \in ctrlNotify /\ armed[b])
    <3>1. notifyBuffers' = notifyBuffers
      BY <1>3, <2>3 DEF Play
    <3>2. StaleInv' /\ FlagInv'
      BY <1>3, <2>3, <3>1 DEF Play
    <3>3. PlayingIsPolled' /\ PendingIsOwed'
      BY <1>3, <2>3, <3>1 DEF Play
    <3> QED BY <2>1, <3>2, <3>3
  <2> QED BY <2>2, <2>3
<1>4. ASSUME NEW b \in Buffers, SetLocation(b) PROVE IInv'
  BY <1>4 DEF SetLocation, CanCall
<1>5. ASSUME NEW b \in Buffers, Stop(b) PROVE IInv'
  <2>1. Paused(b) \in [Buffers -> SourceStates]
    BY DEF Paused
  <2>2. IF b \in ctrlNotify
        THEN TriggerNotifies(Paused(b), {b})
        ELSE UNCHANGED <<notifyBuffers, event, owed, stale>>
    BY <1>5 DEF Stop
  <2>3. \A c \in Buffers : c # b => Paused(b)[c] = source[c]
    BY DEF Paused
  <2>4. Paused(b)[b] # "Playing"
    BY DEF Paused
  <2>5. CASE b \in ctrlNotify
    BY <1>5, <2>1, <2>2, <2>3, <2>4, <2>5, TriggerLemma DEF Stop, CanCall
  <2>6. CASE b \notin ctrlNotify
    <3>1. /\ source' = Paused(b)
          /\ UNCHANGED <<notify, live, ctrlNotify, armed, event, owed, stale>>
      BY <1>5, <2>2, <2>6 DEF Stop
    <3>2. TypeOK' /\ MutexInv' /\ QuitInv' /\ NoLostWakeup'
      BY <2>1, <3>1
    <3>3. StaleInv' /\ FlagInv' /\ PlayingIsPolled'
      BY <1>5, <2>3, <2>4, <3>1 DEF Stop
    <3>4. PendingIsOwed'
      BY <1>5, <2>3, <2>6, <3>1 DEF Stop
    <3> QED BY <3>2, <3>3, <3>4
  <2> QED BY <2>5, <2>6
<1>6. ASSUME NEW b \in Buffers, SetNotificationPositions(b) PROVE IInv'
  <2>1. CASE source[b] # "None" /\ b \in notifyBuffers
    <3>1. TriggerNotifies(source, {b})
      BY <1>6, <2>1 DEF SetNotificationPositions
    <3> QED
      BY <1>6, <3>1, TriggerLemma DEF SetNotificationPositions, CanCall
  <2>2. CASE ~(source[b] # "None" /\ b \in notifyBuffers)
    BY <1>6, <2>2 DEF SetNotificationPositions, CanCall
  <2> QED BY <2>1, <2>2
<1>7. ASSUME NEW b \in Buffers, TakeEvent(b) PROVE IInv'
  BY <1>7 DEF TakeEvent
<1>8. ASSUME NEW b \in Buffers, NaturalEnd(b) PROVE IInv'
  BY <1>8 DEF NaturalEnd
<1>9. ASSUME ThreadAcquire PROVE IInv'
  BY <1>9 DEF ThreadAcquire
<1>10. ASSUME ThreadCheckQuit PROVE IInv'
  BY <1>10 DEF ThreadCheckQuit
<1>11. ASSUME ThreadWait PROVE IInv'
  BY <1>11 DEF ThreadWait
<1>12. ASSUME ThreadPoll PROVE IInv'
  <2>1. TriggerNotifies(source, {})
    BY <1>12 DEF ThreadPoll
  <2> QED
    BY <1>12, <2>1, TriggerLemma DEF ThreadPoll
<1>13. ASSUME ThreadTimeout PROVE IInv'
  BY <1>13 DEF ThreadTimeout
<1>14. ASSUME SpuriousWakeup PROVE IInv'
  BY <1>14 DEF SpuriousWakeup
<1>15. ASSUME DestroyBegin PROVE IInv'
  BY <1>15 DEF DestroyBegin
<1>16. ASSUME DestroyLock PROVE IInv'
  BY <1>16 DEF DestroyLock
<1>17. ASSUME DestroyNotify PROVE IInv'
  BY <1>17 DEF DestroyNotify, Notified
<1>18. ASSUME DestroyJoin PROVE IInv'
  BY <1>18 DEF DestroyJoin
<1>19. CASE UNCHANGED vars
  BY <1>19 DEF vars
<1> QED
  BY <1>1, <1>2, <1>3, <1>4, <1>5, <1>6, <1>7, <1>8, <1>9, <1>10, <1>11,
     <1>12, <1>13, <1>14, <1>15, <1>16, <1>17, <1>18, <1>19
  DEF Next, Call, ThreadStep, DestroyStep

(* The inductive invariant holds in every reachable state: whatever the    *)
(* thread, the destructor and the calls of the application interleave.     *)
THEOREM Invariance == Spec => []IInv
  BY InitIInv, NextIInv, PTL DEF Spec

(* All variables keep their types.                                         *)
THEOREM TypeCorrect == Spec => []TypeOK
  BY Invariance, PTL DEF IInv

(* The thread never waits without a timeout while a buffer is listed, or   *)
(* after the notify_all of ~DSound8OAL.                                    *)
THEOREM WakeupsAreNotLost == Spec => []NoLostWakeup
  BY Invariance, PTL DEF IInv

(* An armed buffer that plays is on the list of Play's addNotifyBuffer.    *)
THEOREM PlayingBuffersArePolled == Spec => []PlayingIsPolled
  BY Invariance, PTL DEF IInv

(* A listed buffer that is not playing is exactly one whose end, come by   *)
(* itself, was not reported.                                               *)
THEOREM ListIsExact == Spec => []PendingIsOwed
  BY Invariance, PTL DEF IInv

-----------------------------------------------------------------------------
(* What one poll does to the stop event of a buffer.                       *)
LEMMA TriggerEvents ==
  ASSUME IInv, NEW states \in [Buffers -> SourceStates],
         NEW dropped \in SUBSET Buffers, TriggerNotifies(states, dropped),
         NEW c \in live
  PROVE  /\ ~event[c] /\ event'[c] =>
              c \in notifyBuffers /\ states[c] # "Playing"
         /\ owed[c] /\ ~owed'[c] /\ armed[c] =>
              event'[c] \/ (c \in dropped /\ c \notin notifyBuffers)
                       \/ (c \in dropped /\ states[c] = "Playing")
  BY DEF TriggerNotifies, IInv, TypeOK

(* Stop events are exact, step by step: one for every end, and only then.  *)
THEOREM StopEventsAreExact == Spec => StopEventExact
<1> DEFINE Exact ==
      \A b \in live \ stale :
        /\ ~event[b] /\ event'[b] => source[b] = "Playing" \/ owed[b]
        /\ owed[b] /\ ~owed'[b] /\ armed[b] /\ b \in live' =>
             event'[b] \/ source'[b] = "Playing"
<1>1. IInv /\ [Next]_vars => Exact
  <2> SUFFICES ASSUME IInv, [Next]_vars, NEW c \in live \ stale
               PROVE  /\ ~event[c] /\ event'[c] =>
                           source[c] = "Playing" \/ owed[c]
                      /\ owed[c] /\ ~owed'[c] /\ armed[c] /\ c \in live' =>
                           event'[c] \/ source'[c] = "Playing"
    OBVIOUS
  <2>0. /\ TypeOK
        /\ c \in Buffers
        /\ c \in notifyBuffers /\ source[c] # "Playing" <=> owed[c]
    BY DEF IInv, TypeOK, PendingIsOwed
  <2>2. ASSUME NEW b \in Buffers,
               \/ CreateSoundBuffer(b) \/ Release(b) \/ Play(b)
               \/ SetLocation(b) \/ TakeEvent(b) \/ NaturalEnd(b)
        PROVE  /\ event'[c] => event[c]
               /\ owed[c] /\ ~owed'[c] /\ c \in live' =>
                    source'[c] = "Playing"
    BY <2>0, <2>2 DEF CreateSoundBuffer, Release, Play, SetLocation,
       TakeEvent, NaturalEnd, TypeOK
  <2>3. ASSUME NEW b \in Buffers, Stop(b)
        PROVE  /\ ~event[c] /\ event'[c] => source[c] = "Playing" \/ owed[c]
               /\ owed[c] /\ ~owed'[c] /\ armed[c] => event'[c]
    <3>1. /\ Paused(b) \in [Buffers -> SourceStates]
          /\ Paused(b)[c] # "Playing" \/ Paused(b)[c] = source[c]
          /\ Paused(b)[b] # "Playing"
      BY <2>0 DEF Paused, TypeOK, SourceStates
    <3>2. CASE b \in ctrlNotify
      <4>1. TriggerNotifies(Paused(b), {b})
        BY <2>3, <3>2 DEF Stop
      <4> QED BY <2>0, <3>1, <4>1, TriggerEvents
    <3>3. CASE b \notin ctrlNotify
      BY <2>3, <3>3 DEF Stop
    <3> QED BY <3>2, <3>3
  <2>4. ASSUME NEW b \in Buffers, SetNotificationPositions(b)
        PROVE  /\ ~event[c] /\ event'[c] => owed[c]
               /\ owed[c] /\ ~owed'[c] /\ armed[c] => event'[c]
    <3>1. CASE source[b] # "None" /\ b \in notifyBuffers
      <4>1. TriggerNotifies(source, {b})
        BY <2>4, <3>1 DEF SetNotificationPositions
      <4>2. source[b] # "Playing"
        BY <2>4 DEF SetNotificationPositions
      <4>3. source \in [Buffers -> SourceStates]
        BY <2>0 DEF TypeOK
      <4> QED BY <2>0, <4>1, <4>2, <4>3, TriggerEvents
    <3>2. CASE ~(source[b] # "None" /\ b \in notifyBuffers)
      BY <2>4, <3>2 DEF SetNotificationPositions
    <3> QED BY <3>1, <3>2
  <2>5. ASSUME ThreadPoll
        PROVE  /\ ~event[c] /\ event'[c] => owed[c]
               /\ owed[c] /\ ~owed'[c] /\ armed[c] => event'[c]
    <3>1. TriggerNotifies(source, {}) /\ source \in [Buffers -> SourceStates]
      BY <2>0, <2>5 DEF ThreadPoll, TypeOK
    <3> QED BY <2>0, <3>1, TriggerEvents
  <2>6. ASSUME \/ ThreadAcquire \/ ThreadCheckQuit \/ ThreadWait
               \/ ThreadTimeout \/ SpuriousWakeup \/ DestroyBegin
               \/ DestroyLock \/ DestroyNotify \/ UNCHANGED vars
        PROVE  UNCHANGED <<event, owed>>
    BY <2>6 DEF ThreadAcquire, ThreadCheckQuit, ThreadWait, ThreadTimeout,
       SpuriousWakeup, DestroyBegin, DestroyLock, DestroyNotify, vars, app
  <2>7. ASSUME DestroyJoin
        PROVE  ~event'[c] /\ c \notin live'
    BY <2>0, <2>7 DEF DestroyJoin
  <2> QED
    BY <2>2, <2>3, <2>4, <2>5, <2>6, <2>7
    DEF Next, Call, ThreadStep, DestroyStep
<1>2. Spec => [][Exact]_vars
  <2> HIDE DEF Exact
  <2> QED BY Invariance, <1>1, PTL DEF Spec
<1> QED
  BY <1>2 DEF StopEventExact

=============================================================================
