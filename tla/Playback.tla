------------------------------ MODULE Playback ------------------------------
(***************************************************************************)
(* One secondary buffer as it plays: its OpenAL source, which the mixer    *)
(* moves at any time, and the position mLastPos the code keeps beside it,  *)
(* from which it tells what position notifications are due and where a     *)
(* source that was never played starts.                                    *)
(*                                                                         *)
(* Positions are counted in sample blocks.  A call of the application runs *)
(* under mDsMutex, so it is one step; updateNotify in the notification     *)
(* thread reads the offset and the state of a source that goes on playing, *)
(* so it is two; GetCurrentPosition takes no mutex and is two as well.     *)
(* The buffer has DSBCAPS_CTRLPOSITIONNOTIFY and DSBCAPS_LOCDEFER: one     *)
(* without the first never has notifications, one without the second is    *)
(* not relocated.                                                          *)
(***************************************************************************)
EXTENDS Naturals

CONSTANTS
  Size,       \* mBuffer->mData.size()
  NotifySets  \* the sets of notification offsets the application may set

\* DSBPN_OFFSETSTOP is the largest DWORD: larger than any offset.
OffsetStop == Size + 1
Positions == 0 .. Size - 1

ASSUME SizeAssumption == Size \in Nat \ {0}
ASSUME NotifySetsAssumption == NotifySets \subseteq SUBSET (Positions \cup {OffsetStop})

VARIABLES
  alState,   \* the state of mSource, "None" while mSource is 0
  alOffset,  \* where it is while it plays or is paused, otherwise where it
             \* will start
  looping,   \* AL_LOOPING
  lastPos,   \* mLastPos
  notifies,  \* the offsets in mNotifies
  listed,    \* whether the buffer is in mNotifyBuffers
  events,    \* the offsets whose event is signalled
  poll,      \* the thread's updateNotify, between its two reads
  getter,    \* GetCurrentPosition, between its two reads
  crossed,   \* history: positions played since mLastPos was set
  lapped,    \* history: more was played since than the offset can tell
  misplaced  \* history: Play started the source somewhere else than mLastPos

al      == <<alState, alOffset, looping>>
history == <<crossed, lapped, misplaced>>
buffer  == <<al, lastPos, notifies, listed, events, poll, history>>
vars    == <<buffer, getter>>

SourceStates == {"None", "Initial", "Playing", "Paused", "Stopped"}
Idle == [pc |-> "idle"]
Polls == {Idle} \cup [pc : {"state"}, offset : Positions,
                      crossed : SUBSET Positions, lapped : BOOLEAN]
Getters == {Idle} \cup [pc : {"status"}, offset : Positions,
                        seen : SUBSET Positions, started : BOOLEAN]

Init ==
  /\ alState = "None" /\ alOffset = 0 /\ looping = FALSE
  /\ lastPos = 0
  /\ notifies = {} /\ listed = FALSE /\ events = {}
  /\ poll = Idle /\ getter = Idle
  /\ crossed = {} /\ lapped = FALSE /\ misplaced = FALSE

-----------------------------------------------------------------------------
(* OpenAL.                                                                 *)

\* AL_BYTE_OFFSET is 0 on a source that neither plays nor is paused.
ByteOffset(state, offset) ==
  IF state \in {"Playing", "Paused"} THEN offset ELSE 0

\* The mixer plays one block, and ends or rewinds the source after the last.
Mix ==
  /\ alState = "Playing"
  /\ alOffset' = (alOffset + 1) % Size
  /\ alState' = IF alOffset' = 0 /\ ~looping THEN "Stopped" ELSE "Playing"
  /\ crossed' = crossed \cup {alOffset}
  /\ lapped' = \/ lapped \/ alOffset \in crossed
               \/ crossed' = Positions /\ alState' = "Playing"
  /\ UNCHANGED <<looping, lastPos, notifies, listed, events, poll, misplaced>>

-----------------------------------------------------------------------------
(* updateNotify.                                                           *)

\* Mutant: the position that was reached last is taken to be reported.
IsHitAfter(n, offset) ==
  IF offset > lastPos THEN n > lastPos /\ n < offset
  ELSE offset < lastPos /\ (n > lastPos \/ n < offset) /\ n # OffsetStop

\* Whether updateNotify signals a position, given the offset it has settled
\* on: it lies in what was played since mLastPos, around the end if need be.
IsHit(n, offset) ==
  IF offset > lastPos THEN n >= lastPos /\ n < offset
  ELSE IF offset < lastPos
    THEN (n >= lastPos \/ n < offset) /\ n # OffsetStop
  ELSE FALSE

\* A source that stopped by itself was played to the end.
Settled(state, offset) == IF state = "Stopped" THEN Size ELSE offset

Signal(state, offset) ==
  events' = events
    \cup {n \in notifies : IsHit(n, Settled(state, offset))}
    \cup (IF state # "Playing" THEN notifies \cap {OffsetStop} ELSE {})

\* No call holds mDsMutex, and neither does the thread.
CanCall == poll = Idle

PollOffset ==
  /\ listed /\ poll = Idle
  /\ poll' = [pc |-> "state", offset |-> ByteOffset(alState, alOffset),
              crossed |-> crossed, lapped |-> lapped]
  /\ crossed' = {} /\ lapped' = FALSE
  /\ UNCHANGED <<al, lastPos, notifies, listed, events, misplaced>>

PollState ==
  /\ poll.pc = "state"
  /\ Signal(alState, poll.offset)
  /\ lastPos' = Settled(alState, poll.offset)
  /\ listed' = (alState = "Playing")
  /\ poll' = Idle
  /\ IF listed' THEN UNCHANGED <<crossed, lapped>>
                ELSE crossed' = {} /\ lapped' = FALSE
  /\ misplaced' = FALSE
  /\ UNCHANGED <<al, notifies>>

-----------------------------------------------------------------------------
(* The application's calls.                                                *)

\* mLastPos is set to where the buffer is now.
Track(pos) ==
  /\ lastPos' = pos
  /\ crossed' = {} /\ lapped' = FALSE /\ misplaced' = FALSE

\* setLocation on a buffer that does not play: the source is deleted and
\* there is a new one, unless the pools are exhausted.
AcquireResources ==
  /\ CanCall /\ alState # "Playing"
  /\ alState' \in {"None", "Initial"} /\ alOffset' = 0 /\ looping' = FALSE
  /\ lapped' = (lapped \/ crossed = Positions)
  /\ UNCHANGED <<lastPos, notifies, listed, events, poll, crossed, misplaced>>

\* Mutant: mLastPos is not wrapped.
StartUnwrapped(state, offset) ==
  /\ state \in {"Initial", "Paused", "Stopped"}
  /\ alOffset' = IF state = "Initial" THEN lastPos ELSE offset
  /\ alState' = "Playing"
  /\ listed' = (listed \/ notifies # {})
  /\ UNCHANGED <<lastPos, notifies, events, poll, history>>

\* Mutant: a new source is not moved to mLastPos.
StartAtOffset(state, offset) ==
  /\ state \in {"Initial", "Paused", "Stopped"}
  /\ lastPos' = lastPos % Size
  /\ alOffset' = offset
  /\ alState' = "Playing"
  /\ listed' = (listed \/ notifies # {})
  /\ UNCHANGED <<notifies, events, poll, history>>

(* Play.  It relocates a buffer without a source, and may relocate another *)
(* one that does not play; then it goes on from a source in "state" that   *)
(* would start at "offset".                                                *)
StartSource(state, offset) ==
  /\ state \in {"Initial", "Paused", "Stopped"}
  /\ lastPos' = lastPos % Size
  /\ alOffset' = IF state = "Initial" THEN lastPos' ELSE offset
  /\ alState' = "Playing"
  /\ listed' = (listed \/ notifies # {})
  /\ lapped' = \/ lapped \/ crossed = Positions
               \/ state = "Initial" /\ crossed # {}
  /\ misplaced' = \/ misplaced
                  \/ state = "Stopped" /\ crossed = {} /\ lastPos' # offset
  /\ UNCHANGED <<notifies, events, poll, crossed>>

Play(loop) ==
  /\ CanCall
  /\ looping' = loop
  /\ \/ StartSource(alState, alOffset)
     \/ alState # "Playing" /\ StartSource("Initial", 0)
     \/ /\ alState = "Playing"
        /\ UNCHANGED <<alState, alOffset, lastPos, notifies, listed, events,
                       poll, history>>

\* Mutant: mLastPos stays where the last report left it.
StopUntracked ==
  LET state == IF alState = "Playing" THEN "Paused" ELSE alState
  IN  /\ CanCall /\ alState # "None"
      /\ alState' = state
      /\ IF listed THEN Signal(state, ByteOffset(state, alOffset))
                   ELSE UNCHANGED events
      /\ listed' = FALSE
      /\ crossed' = {}
      /\ UNCHANGED <<alOffset, looping, lastPos, notifies, poll, lapped,
                     misplaced>>

Stop ==
  LET state == IF alState = "Playing" THEN "Paused" ELSE alState
      offset == ByteOffset(state, alOffset)
  IN  /\ CanCall /\ alState # "None"
      /\ alState' = state
      /\ IF listed THEN Signal(state, offset) ELSE UNCHANGED events
      /\ listed' = FALSE
      /\ Track(Settled(state, offset))
      /\ UNCHANGED <<alOffset, looping, notifies, poll>>

\* The new position is aligned to a block before it is used.
SetCurrentPosition(pos) ==
  /\ CanCall
  /\ alOffset' = IF alState = "None" THEN alOffset ELSE pos
  /\ Track(pos)
  /\ UNCHANGED <<alState, looping, notifies, listed, events, poll>>

\* A check that is pending is made before the new set is validated; an invalid
\* one leaves mNotifies as it was.
SetNotificationPositions ==
  /\ CanCall /\ alState # "Playing"
  /\ LET offset == ByteOffset(alState, alOffset) IN
     IF listed /\ alState # "None"
       THEN /\ Signal(alState, offset)
            /\ lastPos' = Settled(alState, offset)
            /\ listed' = FALSE
       ELSE UNCHANGED <<events, lastPos, listed>>
  /\ notifies' \in NotifySets \cup {notifies}
  /\ crossed' = {} /\ lapped' = FALSE /\ misplaced' = FALSE
  /\ UNCHANGED <<al, poll>>

\* The application waits for an event, which resets it.
TakeEvent ==
  /\ \E n \in events : events' = events \ {n}
  /\ UNCHANGED <<al, lastPos, notifies, listed, poll, history>>

-----------------------------------------------------------------------------
(* GetCurrentPosition.                                                     *)

\* Mutant: a source that ended is taken to be where it was last seen.
LastSeenPosition(state, offset) ==
  (IF state \in {"Playing", "Paused"} THEN offset ELSE lastPos) % Size

\* What it returns for a source in "state" whose offset was read before.
ReportedPosition(state, offset) ==
  (CASE state = "Stopped" -> Size
     [] state \in {"Playing", "Paused"} -> offset
     [] OTHER -> lastPos) % Size

\* Where the buffer is: at the start again once it was played to the end, and
\* where Play will start as long as its source was never played.
Cursor ==
  CASE alState \in {"Playing", "Paused"} -> alOffset
    [] alState = "Stopped" -> 0
    [] OTHER -> lastPos % Size

GetOffset ==
  /\ getter = Idle
  /\ getter' = [pc |-> "status", offset |-> ByteOffset(alState, alOffset),
                seen |-> {Cursor}, started |-> FALSE]
  /\ UNCHANGED buffer

GetStatus ==
  /\ getter.pc = "status"
  /\ getter' = Idle
  /\ UNCHANGED buffer

\* What a call in progress lives through.
Watch ==
  getter' = IF getter = Idle THEN Idle
            ELSE [getter EXCEPT
                    !.seen = @ \cup {Cursor'},
                    !.started = @ \/ (/\ alState \in {"None", "Initial"}
                                      /\ alState' = "Playing")]

-----------------------------------------------------------------------------
Next ==
  \/ AcquireResources /\ Watch
  \/ \E loop \in BOOLEAN : Play(loop) /\ Watch
  \/ Stop /\ Watch
  \/ \E pos \in Positions : SetCurrentPosition(pos) /\ Watch
  \/ SetNotificationPositions /\ Watch
  \/ TakeEvent /\ Watch
  \/ Mix /\ Watch
  \/ PollOffset /\ Watch
  \/ PollState /\ Watch
  \/ GetOffset
  \/ GetStatus

Spec == Init /\ [][Next]_vars

-----------------------------------------------------------------------------
(* Correctness.                                                            *)

TypeOK ==
  /\ alState \in SourceStates
  /\ alOffset \in Positions
  /\ looping \in BOOLEAN
  /\ lastPos \in 0 .. Size
  /\ notifies \subseteq Positions \cup {OffsetStop}
  /\ listed \in BOOLEAN
  /\ events \subseteq Positions \cup {OffsetStop}
  /\ poll \in Polls
  /\ getter \in Getters
  /\ crossed \subseteq Positions
  /\ lapped \in BOOLEAN
  /\ misplaced \in BOOLEAN

\* What a report made now has to report.
Played ==
  IF poll = Idle THEN crossed
  ELSE IF alState = "Playing" THEN poll.crossed
  ELSE poll.crossed \cup crossed

\* An end is still to be reported, but the application has moved the buffer
\* or replaced its notifications since.
Overtaken == listed /\ alState # "Playing" /\ Played = {}

(* A position notification is signalled only for a position that was       *)
(* played since the last one that was looked at.                           *)
NothingSpurious ==
  [][misplaced \/ Overtaken
       \/ events' \ events \subseteq Played \cup {OffsetStop}]_vars

\* The thread, Stop or SetNotificationPositions reports on the buffer.
Reports ==
  /\ listed
  /\ IF poll = Idle THEN ~listed' ELSE poll' = Idle

\* The source is at most one turn of the buffer ahead of mLastPos.
InReach ==
  /\ ~lapped /\ ~misplaced
  /\ poll # Idle => /\ ~poll.lapped
                    /\ alState = "Playing" \/ poll.crossed \cap crossed = {}

(* Every report signals all notifications of positions played since the    *)
(* last one, also when the source wrapped or ended in between, even        *)
(* between the two reads of updateNotify.                                  *)
NothingMissed ==
  [][Reports /\ InReach => Played \cap notifies \subseteq events']_vars

\* The position is set, or lost by Stop on a source that was never played.
Moved ==
  \/ \E pos \in Positions : SetCurrentPosition(pos)
  \/ alState = "Initial" /\ Stop

(* The position is kept: a buffer that was stopped or never played stays   *)
(* where it is, and goes on from there, through Stop, relocation, Play and *)
(* every step of the thread, unless it is moved.                           *)
PositionKept ==
  [][(alState \in {"None", "Initial", "Paused"} /\ ~listed) =>
       (Cursor' = Cursor \/ Moved)]_vars

(* GetCurrentPosition, though it takes no mutex, returns a position where  *)
(* the buffer was at some moment of the call, unless the first Play on a   *)
(* source falls between its two reads.                                     *)
PositionWasReal ==
  [][getter # Idle /\ getter' = Idle /\ ~getter.started =>
       ReportedPosition(alState, getter.offset) \in getter.seen]_vars

(* The comment in updateNotify: "If the source is AL_STOPPED, it reached   *)
(* the end naturally, so all notifies since the last position have been    *)
(* hit".                                                                   *)
StoppedHitAll ==
  listed /\ alState = "Stopped" /\ poll = Idle =>
    \A n \in Positions : n >= lastPos => n \in crossed

(* The comment in GetCurrentPosition: "The Stop method correlates to       *)
(* pausing, which would put the source into an AL_PAUSED state and         *)
(* correctly hold its current position."                                   *)
StopHoldsPosition == [][Stop => Cursor' = Cursor]_vars
=============================================================================
