---------------------------- MODULE PlaybackProofs ----------------------------
(***************************************************************************)
(* Proofs about Playback, for a buffer of any size and any notifications.  *)
(***************************************************************************)
EXTENDS Playback, TLAPS

-----------------------------------------------------------------------------
(* Going round the buffer.                                                 *)

LEMMA Wrapped ==
  ASSUME NEW p \in 0 .. Size
  PROVE  p % Size = IF p = Size THEN 0 ELSE p
BY SizeAssumption

LEMMA NextOffset ==
  ASSUME NEW p \in Positions
  PROVE  (p + 1) % Size = IF p = Size - 1 THEN 0 ELSE p + 1
BY SizeAssumption DEF Positions

(* The positions that are played from one up to another, around the end of *)
(* the buffer if that is where the other is.                               *)
Arc(a, b) ==
  IF a < b THEN a .. b - 1
  ELSE IF b < a THEN (a .. Size - 1) \cup (0 .. b - 1)
  ELSE {}

LEMMA ArcGrows ==
  ASSUME NEW a \in Positions, NEW b \in Positions, b # Size - 1
  PROVE  /\ Arc(a, b + 1) \subseteq Arc(a, b) \cup {b}
         /\ Arc(a, b + 1) = Arc(a, b) \cup {b} \/ Arc(a, b) \cup {b} = Positions
BY SizeAssumption DEF Arc, Positions

LEMMA ArcTurns ==
  ASSUME NEW a \in Positions
  PROVE  /\ Arc(a, Size - 1) \cup {Size - 1} = a .. Size - 1
         /\ Arc(a, 0) \subseteq a .. Size - 1
         /\ Arc(a, 0) = a .. Size - 1 \/ (a = 0 /\ a .. Size - 1 = Positions)
BY SizeAssumption DEF Arc, Positions

LEMMA ArcFacts ==
  ASSUME NEW a \in 0 .. Size
  PROVE  /\ Arc(a, a) = {}
         /\ Arc(a, Size) = a .. Size - 1
         /\ a > 0 => Arc(a, 0) = a .. Size - 1
BY SizeAssumption DEF Arc

LEMMA ArcToEnd ==
  ASSUME NEW a \in Positions, NEW b \in Positions
  PROVE  /\ a .. Size - 1 \subseteq Arc(a, b) \cup (b .. Size - 1)
         /\ Arc(a, b) \cap (b .. Size - 1) = {}
              => Arc(a, b) \cup (b .. Size - 1) = a .. Size - 1
BY SizeAssumption DEF Arc, Positions

(* What updateNotify takes to be hit is what was played in between.        *)
LEMMA HitsAreArc ==
  ASSUME NEW n \in Positions \cup {OffsetStop}, NEW offset \in 0 .. Size,
         lastPos \in 0 .. Size
  PROVE  IsHit(n, offset) <=> n \in Arc(lastPos, offset)
BY SizeAssumption DEF IsHit, Arc, Positions, OffsetStop

-----------------------------------------------------------------------------
(* The inductive invariant.                                                *)

SourceTypes ==
  /\ alState \in SourceStates /\ alOffset \in Positions /\ looping \in BOOLEAN
  /\ lastPos \in 0 .. Size
  /\ notifies \subseteq Positions \cup {OffsetStop} /\ listed \in BOOLEAN
  /\ events \subseteq Positions \cup {OffsetStop}
  /\ poll \in Polls
  /\ crossed \subseteq Positions /\ lapped \in BOOLEAN /\ misplaced \in BOOLEAN

(* A source that is paused is where mLastPos is, one that ended will start *)
(* from the beginning, and only one that ended was heard of at the end.    *)
SourceInv ==
  /\ alState = "Paused" => ~listed /\ alOffset = lastPos /\ crossed = {}
  /\ alState = "Stopped" /\ crossed # {} => alOffset = 0
  /\ alState = "Playing" => lastPos < Size

(* What was played since mLastPos: all from there to where the source is,  *)
(* or to the end; and, unless it may have gone round, nothing else.        *)
Trail(from, played, more) ==
  /\ alState = "Playing" =>
       /\ Arc(from, alOffset) \subseteq played
       /\ ~more => played = Arc(from, alOffset)
  /\ alState \in {"None", "Initial", "Stopped"} /\ played # {} =>
       /\ from .. Size - 1 \subseteq played
       /\ ~more => played = from .. Size - 1 /\ (alState # "Stopped" => from > 0)

(* Between its reads the thread has an offset of a listed buffer, and what *)
(* was played since then is what leads from there.                         *)
PollInv ==
  /\ poll # Idle => listed
  /\ poll # Idle /\ alState \in {"None", "Initial"} => poll.offset = 0
  /\ poll # Idle /\ alState = "Playing" => Trail(poll.offset, crossed, lapped)

\* What was played is no longer told by the two offsets alone.
Blurred == lapped \/ poll.lapped \/ poll.crossed \cap crossed # {}

TrailInv ==
  /\ poll = Idle /\ ~misplaced => Trail(lastPos, crossed, lapped)
  /\ poll # Idle /\ ~misplaced /\ alState = "Playing" =>
       /\ Arc(lastPos, poll.offset) \subseteq poll.crossed
       /\ ~poll.lapped => poll.crossed = Arc(lastPos, poll.offset)
  /\ poll # Idle /\ ~misplaced /\ alState # "Playing" =>
       Trail(lastPos, poll.crossed \cup crossed, Blurred)

(* A call of GetCurrentPosition that is in progress has seen where the     *)
(* buffer is, and what it has read unless the source was never played.     *)
GetterInv ==
  getter # Idle =>
    /\ Cursor \in getter.seen
    /\ \/ getter.offset \in getter.seen
       \/ getter.started
       \/ alState \in {"None", "Initial"}

BufferInv == SourceTypes /\ SourceInv /\ PollInv /\ TrailInv
IInv == BufferInv /\ getter \in Getters /\ GetterInv

-----------------------------------------------------------------------------
(* The mixer.                                                              *)

(* As a source plays on, what was played since any position stays what     *)
(* leads from there to where the source is, or to the end when it ends.    *)
LEMMA TrailGrows ==
  ASSUME BufferInv, Mix, NEW p \in Positions, Trail(p, crossed, lapped)
  PROVE  Trail(p, crossed, lapped)'
<1>1. /\ alState = "Playing" /\ alOffset \in Positions /\ lapped \in BOOLEAN
      /\ alOffset' = (alOffset + 1) % Size
      /\ alState' = IF alOffset' = 0 /\ ~looping THEN "Stopped" ELSE "Playing"
      /\ crossed' = crossed \cup {alOffset}
  BY DEF BufferInv, SourceTypes, Mix
<1>2. ~lapped' => ~lapped /\ ~(crossed' = Positions /\ alState' = "Playing")
  BY DEF Mix
<1>3. alOffset' = IF alOffset = Size - 1 THEN 0 ELSE alOffset + 1
  BY <1>1, NextOffset
<1>4. Arc(p, alOffset) \subseteq crossed /\ (~lapped => crossed = Arc(p, alOffset))
  BY <1>1 DEF Trail
<1>5. CASE alOffset # Size - 1
  <2>1. alOffset' = alOffset + 1 /\ alState' = "Playing"
    BY <1>1, <1>3, <1>5 DEF Positions
  <2>2. Arc(p, alOffset') \subseteq crossed'
    BY <1>1, <1>4, <1>5, <2>1, ArcGrows
  <2>3. ASSUME ~lapped' PROVE crossed' = Arc(p, alOffset')
    <3>1. crossed' = Arc(p, alOffset) \cup {alOffset} /\ crossed' # Positions
      BY <1>1, <1>2, <1>4, <2>1, <2>3
    <3> QED BY <1>1, <1>5, <2>1, <3>1, ArcGrows
  <2> QED BY <2>1, <2>2, <2>3 DEF Trail
<1>6. CASE alOffset = Size - 1
  <2>1. alOffset' = 0
    BY <1>3, <1>6
  <2>2. p .. Size - 1 \subseteq crossed'
    BY <1>1, <1>4, <1>6, ArcTurns
  <2>3. ~lapped' => crossed' = p .. Size - 1
    BY <1>1, <1>2, <1>4, <1>6, ArcTurns
  <2>4. CASE alState' = "Stopped"
    BY <2>2, <2>3, <2>4 DEF Trail
  <2>5. CASE alState' = "Playing"
    <3>1. Arc(p, alOffset') \subseteq crossed'
      BY <2>1, <2>2, ArcTurns
    <3>2. ~lapped' => crossed' = Arc(p, alOffset')
      BY <1>2, <2>1, <2>3, <2>5, ArcTurns
    <3> QED BY <2>5, <3>1, <3>2 DEF Trail
  <2> QED BY <1>1, <2>4, <2>5
<1> QED BY <1>5, <1>6

LEMMA MixKeeps ==
  ASSUME BufferInv, Mix
  PROVE  BufferInv'
<1>1. SourceTypes /\ SourceInv /\ PollInv /\ TrailInv
  BY DEF BufferInv
<1>2. /\ alState = "Playing" /\ alOffset' = (alOffset + 1) % Size
      /\ alState' = IF alOffset' = 0 /\ ~looping THEN "Stopped" ELSE "Playing"
      /\ crossed' = crossed \cup {alOffset}
      /\ looping' = looping /\ lastPos' = lastPos /\ notifies' = notifies
      /\ listed' = listed /\ events' = events /\ poll' = poll /\ misplaced' = misplaced
  BY DEF Mix
<1>3. alOffset' = IF alOffset = Size - 1 THEN 0 ELSE alOffset + 1
  BY <1>1, <1>2, NextOffset DEF SourceTypes
<1>4. lapped' \in BOOLEAN /\ (lapped => lapped')
  BY <1>1 DEF Mix, SourceTypes
<1>5. lastPos \in Positions
  BY <1>1, <1>2, SizeAssumption DEF SourceTypes, SourceInv, Positions
<1>6. SourceTypes'
  <2>1. alOffset' \in Positions /\ crossed' \subseteq Positions
    BY <1>1, <1>2, <1>3, SizeAssumption DEF SourceTypes, Positions
  <2> QED BY <1>1, <1>2, <1>4, <2>1 DEF SourceTypes, SourceStates
<1>7. SourceInv'
  BY <1>1, <1>2 DEF SourceInv
<1>8. poll # Idle => poll.offset \in Positions
  BY <1>1 DEF SourceTypes, Polls
<1>9. poll # Idle => Trail(poll.offset, crossed, lapped)'
  <2> SUFFICES ASSUME poll # Idle PROVE Trail(poll.offset, crossed, lapped)'
    OBVIOUS
  <2>1. PICK p \in Positions : p = poll.offset
    BY <1>8
  <2>2. Trail(p, crossed, lapped)
    BY <1>1, <1>2, <2>1 DEF PollInv
  <2>3. Trail(p, crossed, lapped)'
    BY <2>2, TrailGrows
  <2> QED BY <1>2, <2>1, <2>3 DEF Trail
<1>10. PollInv'
  BY <1>1, <1>2, <1>9 DEF PollInv
<1>11. TrailInv'
  <2> SUFFICES ASSUME ~misplaced PROVE TrailInv'
    BY <1>2 DEF TrailInv
  <2>1. CASE poll = Idle
    <3>1. PICK p \in Positions : p = lastPos
      BY <1>5
    <3>2. Trail(p, crossed, lapped)
      BY <1>1, <2>1, <3>1 DEF TrailInv
    <3>3. Trail(p, crossed, lapped)'
      BY <3>2, TrailGrows
    <3> QED BY <1>2, <2>1, <3>1, <3>3 DEF TrailInv, Trail
  <2>2. CASE poll # Idle /\ alState' = "Playing"
    BY <1>1, <1>2, <2>2 DEF TrailInv
  <2>3. CASE poll # Idle /\ alState' = "Stopped"
    <3> DEFINE o == poll.offset
               pc == poll.crossed
    <3>1. /\ Arc(lastPos, o) \subseteq pc
          /\ ~poll.lapped => pc = Arc(lastPos, o)
      BY <1>1, <1>2, <2>3 DEF TrailInv
    <3>2. /\ crossed' # {} => o .. Size - 1 \subseteq crossed'
          /\ crossed' # {} /\ ~lapped' => crossed' = o .. Size - 1
      BY <1>2, <1>9, <2>3 DEF Trail
    <3>3. crossed' # {}
      BY <1>2
    <3>4. /\ lastPos .. Size - 1 \subseteq Arc(lastPos, o) \cup (o .. Size - 1)
          /\ Arc(lastPos, o) \cap (o .. Size - 1) = {}
               => Arc(lastPos, o) \cup (o .. Size - 1) = lastPos .. Size - 1
      BY <1>5, <1>8, <2>3, ArcToEnd
    <3> HIDE DEF o, pc
    <3>5. lastPos .. Size - 1 \subseteq pc \cup crossed'
      BY <3>1, <3>2, <3>3, <3>4
    <3>6. ASSUME ~lapped', ~poll.lapped, pc \cap crossed' = {}
          PROVE  pc \cup crossed' = lastPos .. Size - 1
      BY <3>1, <3>2, <3>3, <3>4, <3>6
    <3>7. Trail(lastPos, poll.crossed \cup crossed, Blurred)'
      BY <1>2, <2>3, <3>5, <3>6 DEF Trail, Blurred, pc
    <3> QED BY <1>2, <2>3, <3>7 DEF TrailInv
  <2> QED BY <1>2, <2>1, <2>2, <2>3
<1> QED BY <1>6, <1>7, <1>10, <1>11 DEF BufferInv

-----------------------------------------------------------------------------
(* updateNotify.                                                           *)

LEMMA SignalTypes ==
  ASSUME SourceTypes, NEW st, NEW offset, Signal(st, offset)
  PROVE  events' \subseteq Positions \cup {OffsetStop}
BY DEF SourceTypes, Signal

LEMMA OffsetTypes ==
  ASSUME SourceTypes
  PROVE  /\ ByteOffset(alState, alOffset) \in Positions
         /\ \A st, offset : offset \in Positions => Settled(st, offset) \in 0 .. Size
BY SizeAssumption DEF SourceTypes, ByteOffset, Settled, Positions

LEMMA PollOffsetKeeps ==
  ASSUME BufferInv, PollOffset
  PROVE  BufferInv'
<1>1. SourceTypes /\ SourceInv /\ PollInv /\ TrailInv
  BY DEF BufferInv
<1>2. /\ listed /\ poll = Idle
      /\ poll' = [pc |-> "state", offset |-> ByteOffset(alState, alOffset),
                  crossed |-> crossed, lapped |-> lapped]
      /\ crossed' = {} /\ lapped' = FALSE
      /\ alState' = alState /\ alOffset' = alOffset /\ looping' = looping
      /\ lastPos' = lastPos /\ notifies' = notifies /\ listed' = listed
      /\ events' = events /\ misplaced' = misplaced
  BY DEF PollOffset, al
<1>3. /\ poll'.pc = "state" /\ poll'.offset = ByteOffset(alState, alOffset)
      /\ poll'.crossed = crossed /\ poll'.lapped = lapped
  BY <1>2
<1>4. poll' \in Polls /\ poll' # Idle
  BY <1>1, <1>2, OffsetTypes DEF SourceTypes, Polls, Idle
<1>5. SourceTypes'
  BY <1>1, <1>2, <1>4 DEF SourceTypes
<1>6. alState # "Paused"
  BY <1>1, <1>2 DEF SourceInv
<1>7. SourceInv'
  BY <1>1, <1>2, <1>6 DEF SourceInv
<1>8. PollInv'
  <2>1. ASSUME alState \in {"None", "Initial"} PROVE poll'.offset = 0
    BY <1>3, <2>1 DEF ByteOffset
  <2>2. ASSUME alState = "Playing" PROVE Trail(poll.offset, crossed, lapped)'
    <3>1. poll'.offset = alOffset'
      BY <1>2, <1>3, <2>2 DEF ByteOffset
    <3>2. alOffset \in 0 .. Size
      BY <1>1, SizeAssumption DEF SourceTypes, Positions
    <3>3. Arc(alOffset', alOffset') = {}
      BY <1>2, <3>2, ArcFacts
    <3> QED BY <1>2, <2>2, <3>1, <3>3 DEF Trail
  <2> QED BY <1>2, <2>1, <2>2 DEF PollInv
<1>9. TrailInv'
  <2> SUFFICES ASSUME ~misplaced PROVE TrailInv'
    BY <1>2, <1>4 DEF TrailInv
  <2>1. Trail(lastPos, crossed, lapped)
    BY <1>1, <1>2 DEF TrailInv
  <2>2. CASE alState = "Playing"
    <3>1. poll'.offset = alOffset
      BY <1>3, <2>2 DEF ByteOffset
    <3> QED BY <1>2, <1>3, <1>4, <2>1, <2>2, <3>1 DEF TrailInv, Trail
  <2>3. CASE alState # "Playing"
    <3>1. poll'.crossed \cup crossed' = crossed
      BY <1>2, <1>3
    <3>2. Blurred' <=> lapped
      BY <1>2, <1>3 DEF Blurred
    <3>3. Trail(lastPos, poll.crossed \cup crossed, Blurred)'
      BY <1>2, <2>1, <2>3, <3>1, <3>2 DEF Trail
    <3> QED BY <1>2, <1>4, <2>3, <3>3 DEF TrailInv
  <2> QED BY <2>2, <2>3
<1> QED BY <1>5, <1>7, <1>8, <1>9 DEF BufferInv

LEMMA PollStateKeeps ==
  ASSUME BufferInv, PollState
  PROVE  BufferInv'
<1>1. SourceTypes /\ SourceInv /\ PollInv /\ TrailInv
  BY DEF BufferInv
<1>2. /\ poll.pc = "state" /\ Signal(alState, poll.offset)
      /\ lastPos' = Settled(alState, poll.offset)
      /\ listed' = (alState = "Playing") /\ poll' = Idle /\ misplaced' = FALSE
      /\ alState' = alState /\ alOffset' = alOffset /\ looping' = looping
      /\ notifies' = notifies
  BY DEF PollState, al
<1>3. poll # Idle /\ listed /\ poll.offset \in Positions
  BY <1>1, <1>2 DEF SourceTypes, PollInv, Polls, Idle
<1>4. \/ alState = "Playing" /\ crossed' = crossed /\ lapped' = lapped
      \/ alState # "Playing" /\ crossed' = {} /\ lapped' = FALSE
  BY <1>2 DEF PollState
<1>5. SourceTypes'
  <2>1. events' \subseteq Positions \cup {OffsetStop}
    BY <1>1, <1>2, SignalTypes
  <2>2. lastPos' \in 0 .. Size
    BY <1>1, <1>2, <1>3, OffsetTypes
  <2>3. crossed' \subseteq Positions /\ lapped' \in BOOLEAN
    BY <1>1, <1>4 DEF SourceTypes
  <2>4. listed' \in BOOLEAN /\ misplaced' \in BOOLEAN
    BY <1>2
  <2> QED BY <1>1, <1>2, <2>1, <2>2, <2>3, <2>4 DEF SourceTypes, Polls
<1>6. SourceInv'
  <2>1. alState # "Paused"
    BY <1>1, <1>3 DEF SourceInv
  <2>2. alState = "Playing" => lastPos' = poll.offset /\ poll.offset < Size
    BY <1>2, <1>3, SizeAssumption DEF Settled, Positions
  <2> QED BY <1>2, <1>4, <2>1, <2>2 DEF SourceInv
<1>7. PollInv'
  BY <1>2 DEF PollInv
<1>8. Trail(lastPos, crossed, lapped)'
  <2>1. CASE alState = "Playing"
    <3>1. Trail(poll.offset, crossed, lapped) /\ lastPos' = poll.offset
      BY <1>1, <1>2, <1>3, <2>1 DEF PollInv, Settled
    <3> QED BY <1>2, <1>4, <2>1, <3>1 DEF Trail
  <2>2. CASE alState # "Playing"
    BY <1>2, <1>4, <2>2 DEF Trail
  <2> QED BY <2>1, <2>2
<1>9. TrailInv'
  BY <1>2, <1>8 DEF TrailInv
<1> QED BY <1>5, <1>6, <1>7, <1>9 DEF BufferInv

-----------------------------------------------------------------------------
(* The application's calls.                                                *)

\* A new trail: mLastPos is where the source is, or it does not play.
LEMMA Tracked ==
  ASSUME SourceTypes', SourceInv', poll = Idle, poll' = Idle, crossed' = {},
         alState' = "Playing" => alOffset' = lastPos'
  PROVE  BufferInv'
<1>1. Arc(lastPos', lastPos') = {}
  <2>1. lastPos' \in 0 .. Size
    BY DEF SourceTypes
  <2> QED BY <2>1, ArcFacts
<1>2. Trail(lastPos, crossed, lapped)'
  BY <1>1 DEF Trail
<1> QED BY <1>2 DEF BufferInv, PollInv, TrailInv

LEMMA AcquireResourcesKeeps ==
  ASSUME BufferInv, AcquireResources
  PROVE  BufferInv'
<1>1. SourceTypes /\ SourceInv /\ PollInv /\ TrailInv
  BY DEF BufferInv
<1>2. /\ poll = Idle /\ alState # "Playing"
      /\ alState' \in {"None", "Initial"} /\ alOffset' = 0 /\ looping' = FALSE
      /\ lastPos' = lastPos /\ notifies' = notifies /\ listed' = listed
      /\ events' = events /\ poll' = poll /\ crossed' = crossed /\ misplaced' = misplaced
  BY DEF AcquireResources, CanCall
<1>3. lapped' \in BOOLEAN /\ (~lapped' => ~lapped /\ crossed # Positions)
  BY DEF AcquireResources
<1>4. SourceTypes'
  <2>1. alState' \in SourceStates /\ looping' \in BOOLEAN
    BY <1>2 DEF SourceStates
  <2>2. alOffset' \in Positions
    BY <1>2, SizeAssumption DEF Positions
  <2> QED BY <1>1, <1>2, <1>3, <2>1, <2>2 DEF SourceTypes
<1>5. SourceInv' /\ PollInv'
  BY <1>2 DEF SourceInv, PollInv
<1>6. ASSUME ~misplaced PROVE Trail(lastPos, crossed, lapped)'
  <2>1. Trail(lastPos, crossed, lapped)
    BY <1>1, <1>2, <1>6 DEF TrailInv
  <2> SUFFICES ASSUME crossed # {}
               PROVE  /\ lastPos .. Size - 1 \subseteq crossed
                      /\ ~lapped' => crossed = lastPos .. Size - 1 /\ lastPos > 0
    BY <1>2 DEF Trail
  <2>2. alState \in {"None", "Initial", "Stopped"}
    BY <1>1, <1>2 DEF SourceTypes, SourceStates, SourceInv
  <2>3. /\ lastPos .. Size - 1 \subseteq crossed
        /\ ~lapped => crossed = lastPos .. Size - 1
    BY <2>1, <2>2 DEF Trail
  <2>4. lastPos = 0 => lastPos .. Size - 1 = Positions
    BY DEF Positions
  <2>5. lastPos \in 0 .. Size
    BY <1>1 DEF SourceTypes
  <2>6. ~lapped' => lastPos # 0
    BY <1>3, <2>3, <2>4
  <2> QED BY <1>3, <2>3, <2>5, <2>6, SizeAssumption
<1>7. TrailInv'
  BY <1>2, <1>6 DEF TrailInv
<1> QED BY <1>4, <1>5, <1>7 DEF BufferInv

LEMMA StopKeeps ==
  ASSUME BufferInv, Stop
  PROVE  BufferInv'
<1>1. SourceTypes
  BY DEF BufferInv
<1> DEFINE st == IF alState = "Playing" THEN "Paused" ELSE alState
           offset == ByteOffset(st, alOffset)
<1>2. /\ poll = Idle /\ alState' = st
      /\ (IF listed THEN Signal(st, offset) ELSE UNCHANGED events)
      /\ listed' = FALSE /\ lastPos' = Settled(st, offset)
      /\ crossed' = {} /\ lapped' = FALSE /\ misplaced' = FALSE
      /\ alOffset' = alOffset /\ looping' = looping /\ notifies' = notifies
      /\ poll' = poll
  BY DEF Stop, CanCall, Track
<1>3. offset \in Positions
  BY <1>1, SizeAssumption DEF SourceTypes, ByteOffset, Positions
<1>4. st \in SourceStates
  BY <1>1 DEF SourceTypes, SourceStates
<1>5. lastPos' \in 0 .. Size
  BY <1>1, <1>2, <1>3, OffsetTypes
<1>6. events' \subseteq Positions \cup {OffsetStop}
  <2>1. CASE listed
    BY <1>1, <1>2, <2>1, SignalTypes
  <2>2. CASE ~listed
    BY <1>1, <1>2, <2>2 DEF SourceTypes
  <2> QED BY <2>1, <2>2
<1>7. SourceTypes'
  BY <1>1, <1>2, <1>4, <1>5, <1>6 DEF SourceTypes
<1>8. st # "Playing" /\ (st = "Paused" => offset = alOffset /\ lastPos' = offset)
  BY <1>2 DEF ByteOffset, Settled
<1>9. SourceInv'
  BY <1>2, <1>8 DEF SourceInv
<1> HIDE DEF st, offset
<1> QED BY <1>2, <1>7, <1>8, <1>9, Tracked

LEMMA SetCurrentPositionKeeps ==
  ASSUME BufferInv, NEW pos \in Positions, SetCurrentPosition(pos)
  PROVE  BufferInv'
<1>1. SourceTypes /\ SourceInv
  BY DEF BufferInv
<1>2. /\ poll = Idle /\ alOffset' = (IF alState = "None" THEN alOffset ELSE pos)
      /\ lastPos' = pos
      /\ crossed' = {} /\ lapped' = FALSE /\ misplaced' = FALSE
      /\ alState' = alState /\ looping' = looping /\ notifies' = notifies
      /\ listed' = listed /\ events' = events /\ poll' = poll
  BY DEF SetCurrentPosition, CanCall, Track
<1>3. pos \in 0 .. Size /\ pos < Size
  BY SizeAssumption DEF Positions
<1>4. SourceTypes'
  BY <1>1, <1>2, <1>3 DEF SourceTypes
<1>5. SourceInv'
  BY <1>1, <1>2, <1>3 DEF SourceInv
<1> QED BY <1>2, <1>4, <1>5, Tracked

LEMMA SetNotificationPositionsKeeps ==
  ASSUME BufferInv, SetNotificationPositions
  PROVE  BufferInv'
<1>1. SourceTypes /\ SourceInv
  BY DEF BufferInv
<1> DEFINE offset == ByteOffset(alState, alOffset)
<1>2. /\ poll = Idle /\ alState # "Playing"
      /\ notifies' \in NotifySets \cup {notifies}
      /\ crossed' = {} /\ lapped' = FALSE /\ misplaced' = FALSE
      /\ alState' = alState /\ alOffset' = alOffset /\ looping' = looping
      /\ poll' = poll
  BY DEF SetNotificationPositions, CanCall, al
<1>3. \/ /\ listed /\ Signal(alState, offset) /\ lastPos' = Settled(alState, offset)
         /\ listed' = FALSE
      \/ events' = events /\ lastPos' = lastPos /\ listed' = listed
  BY DEF SetNotificationPositions
<1>4. offset \in Positions
  BY <1>1, OffsetTypes
<1>5. notifies' \subseteq Positions \cup {OffsetStop}
  BY <1>1, <1>2, NotifySetsAssumption DEF SourceTypes
<1>6. lastPos' \in 0 .. Size /\ listed' \in BOOLEAN
  BY <1>1, <1>3, <1>4, OffsetTypes DEF SourceTypes
<1>7. events' \subseteq Positions \cup {OffsetStop}
  BY <1>1, <1>3, SignalTypes DEF SourceTypes
<1>8. SourceTypes'
  BY <1>1, <1>2, <1>5, <1>6, <1>7 DEF SourceTypes
<1>9. SourceInv'
  BY <1>1, <1>2, <1>3 DEF SourceInv
<1> HIDE DEF offset
<1> QED BY <1>2, <1>8, <1>9, Tracked

LEMMA StartSourceKeeps ==
  ASSUME BufferInv, poll = Idle, alState # "Playing", looping' \in BOOLEAN,
         NEW st, NEW offset \in Positions, StartSource(st, offset),
         (st = alState /\ offset = alOffset) \/ st = "Initial"
  PROVE  BufferInv'
<1>1. SourceTypes /\ SourceInv /\ TrailInv
  BY DEF BufferInv
<1>2. /\ st \in {"Initial", "Paused", "Stopped"}
      /\ lastPos' = lastPos % Size
      /\ alOffset' = IF st = "Initial" THEN lastPos' ELSE offset
      /\ alState' = "Playing"
      /\ notifies' = notifies /\ events' = events /\ poll' = poll /\ crossed' = crossed
  BY DEF StartSource
<1>3. /\ listed' \in BOOLEAN /\ misplaced' \in BOOLEAN /\ lapped' \in BOOLEAN
      /\ ~lapped' => /\ ~lapped /\ crossed # Positions
                     /\ ~(st = "Initial" /\ crossed # {})
      /\ ~misplaced' => /\ ~misplaced
                        /\ ~(st = "Stopped" /\ crossed = {} /\ lastPos' # offset)
  BY DEF StartSource
<1>4. lastPos \in 0 .. Size /\ lastPos' = IF lastPos = Size THEN 0 ELSE lastPos
  BY <1>1, <1>2, Wrapped DEF SourceTypes
<1>5. lastPos' \in Positions /\ alOffset' \in Positions
  BY <1>2, <1>4, SizeAssumption DEF Positions
<1>6. lastPos' \in 0 .. Size /\ lastPos' < Size
  BY <1>4, <1>5, SizeAssumption DEF Positions
<1>7. SourceTypes'
  BY <1>1, <1>2, <1>3, <1>5, <1>6 DEF SourceTypes, SourceStates
<1>8. SourceInv' /\ PollInv'
  BY <1>2, <1>6 DEF SourceInv, PollInv
<1>9. ASSUME ~misplaced' PROVE Trail(lastPos, crossed, lapped)'
  <2> SUFFICES /\ Arc(lastPos', alOffset') \subseteq crossed
               /\ ~lapped' => crossed = Arc(lastPos', alOffset')
    BY <1>2 DEF Trail
  <2>1. Arc(lastPos', lastPos') = {}
    BY <1>6, ArcFacts
  <2>2. CASE st = "Initial"
    BY <1>2, <1>3, <2>1, <2>2
  <2>3. CASE st = "Paused"
    <3>1. alState = "Paused" /\ offset = alOffset
      BY <2>3
    <3>2. crossed = {} /\ alOffset = lastPos
      BY <1>1, <3>1 DEF SourceInv
    <3>3. alOffset' = lastPos'
      BY <1>2, <1>4, <2>3, <3>1, <3>2, SizeAssumption DEF Positions
    <3> QED BY <2>1, <3>2, <3>3
  <2>4. CASE st = "Stopped" /\ crossed = {}
    <3>1. alOffset' = lastPos'
      BY <1>2, <1>3, <1>9, <2>4
    <3> QED BY <2>1, <2>4, <3>1
  <2>5. CASE st = "Stopped" /\ crossed # {}
    <3>1. alState = "Stopped" /\ offset = alOffset /\ alOffset = 0
      BY <1>1, <2>5 DEF SourceInv
    <3>2. alOffset' = 0
      BY <1>2, <2>5, <3>1
    <3>3. /\ lastPos .. Size - 1 \subseteq crossed
          /\ ~lapped => crossed = lastPos .. Size - 1
      BY <1>1, <1>3, <1>9, <2>5, <3>1 DEF TrailInv, Trail
    <3>4. CASE lastPos = Size
      <4>1. lastPos' = 0 /\ lastPos .. Size - 1 = {}
        BY <1>4, <3>4, SizeAssumption
      <4> QED BY <1>3, <2>1, <2>5, <3>2, <3>3, <4>1
    <3>5. CASE lastPos # Size
      <4>1. lastPos' = lastPos
        BY <1>4, <3>5
      <4>2. /\ Arc(lastPos, 0) \subseteq lastPos .. Size - 1
            /\ \/ Arc(lastPos, 0) = lastPos .. Size - 1
               \/ lastPos = 0 /\ lastPos .. Size - 1 = Positions
        BY <1>5, <4>1, ArcTurns
      <4> QED BY <1>3, <3>2, <3>3, <4>1, <4>2
    <3> QED BY <3>4, <3>5
  <2> QED BY <1>2, <2>2, <2>3, <2>4, <2>5
<1>10. TrailInv'
  BY <1>2, <1>9 DEF TrailInv
<1> QED BY <1>7, <1>8, <1>10 DEF BufferInv

LEMMA PlayKeeps ==
  ASSUME BufferInv, NEW loop \in BOOLEAN, Play(loop)
  PROVE  BufferInv'
<1>1. poll = Idle /\ looping' \in BOOLEAN /\ alOffset \in Positions /\ 0 \in Positions
  BY SizeAssumption DEF Play, CanCall, BufferInv, SourceTypes, Positions
<1>2. CASE StartSource(alState, alOffset)
  <2>1. alState # "Playing"
    BY <1>2 DEF StartSource
  <2> QED BY <1>1, <1>2, <2>1, StartSourceKeeps
<1>3. CASE alState # "Playing" /\ StartSource("Initial", 0)
  BY <1>1, <1>3, StartSourceKeeps
<1>4. CASE /\ alState = "Playing"
           /\ UNCHANGED <<alState, alOffset, lastPos, notifies, listed, events,
                          poll, history>>
  <2>1. /\ alState' = alState /\ alOffset' = alOffset /\ lastPos' = lastPos
        /\ notifies' = notifies /\ listed' = listed /\ events' = events /\ poll' = poll
        /\ crossed' = crossed /\ lapped' = lapped /\ misplaced' = misplaced
    BY <1>4 DEF history
  <2> QED BY <1>1, <2>1 DEF BufferInv, SourceTypes, SourceInv, PollInv, TrailInv, Trail,
                            Blurred
<1> QED BY <1>2, <1>3, <1>4 DEF Play

LEMMA TakeEventKeeps ==
  ASSUME BufferInv, TakeEvent
  PROVE  BufferInv'
<1>1. events' \subseteq events
  BY DEF TakeEvent
<1>2. /\ alState' = alState /\ alOffset' = alOffset /\ looping' = looping
      /\ lastPos' = lastPos /\ notifies' = notifies /\ listed' = listed /\ poll' = poll
      /\ crossed' = crossed /\ lapped' = lapped /\ misplaced' = misplaced
  BY DEF TakeEvent, al, history
<1> QED BY <1>1, <1>2 DEF BufferInv, SourceTypes, SourceInv, PollInv, TrailInv, Trail, Blurred

LEMMA BufferUnchanged ==
  ASSUME BufferInv, UNCHANGED buffer
  PROVE  BufferInv'
BY DEF BufferInv, SourceTypes, SourceInv, PollInv, TrailInv, Trail, Blurred, buffer, al,
       history

-----------------------------------------------------------------------------
(* GetCurrentPosition beside each of these steps.                          *)

NeverPlayed == {"None", "Initial"}

LEMMA CursorTypes ==
  ASSUME SourceTypes
  PROVE  Cursor \in Positions
<1>1. alOffset \in Positions /\ 0 \in Positions
  BY SizeAssumption DEF SourceTypes, Positions
<1>2. lastPos % Size \in Positions
  BY Wrapped, SizeAssumption DEF SourceTypes, Positions
<1> QED BY <1>1, <1>2 DEF Cursor

CursorFits == SourceTypes => Cursor \in Positions

LEMMA CursorTypesNext == CursorFits'
<1>1. CursorFits
  BY CursorTypes DEF CursorFits
<1> QED BY <1>1, PTL

LEMMA WatchKeeps ==
  ASSUME IInv, Watch, BufferInv',
         alState \in NeverPlayed => alState' \in NeverPlayed \cup {"Playing"}
  PROVE  IInv'
<1>1. CASE getter = Idle
  <2>1. getter' = Idle
    BY <1>1 DEF Watch
  <2> QED BY <2>1 DEF IInv, Getters, GetterInv
<1>2. CASE getter # Idle
  <2> DEFINE G == [pc : {"status"}, offset : Positions, seen : SUBSET Positions,
                   started : BOOLEAN]
             begun == alState \in NeverPlayed /\ alState' = "Playing"
  <2>1. getter \in G /\ GetterInv
    BY <1>2 DEF IInv, Getters
  <2>2. Cursor' \in Positions
    BY CursorTypesNext DEF CursorFits, BufferInv
  <2>3. getter' = [getter EXCEPT !.seen = @ \cup {Cursor'}, !.started = @ \/ begun]
    BY <1>2 DEF Watch, NeverPlayed
  <2> HIDE DEF begun
  <2>4. /\ getter'.pc = getter.pc /\ getter'.offset = getter.offset
        /\ getter'.seen = getter.seen \cup {Cursor'}
        /\ getter'.started = (getter.started \/ begun)
    BY <2>1, <2>3
  <2>5. getter' \in G
    BY <2>1, <2>2, <2>3
  <2>6. getter' \in Getters
    BY <2>5 DEF Getters
  <2>7. \/ getter.offset \in getter.seen \/ getter.started \/ alState \in NeverPlayed
    BY <1>2, <2>1 DEF GetterInv, NeverPlayed
  <2>8. \/ getter'.offset \in getter'.seen \/ getter'.started \/ alState' \in NeverPlayed
    BY <2>4, <2>7 DEF begun
  <2>9. GetterInv'
    BY <2>4, <2>8 DEF GetterInv, NeverPlayed
  <2> QED BY <2>6, <2>9 DEF IInv
<1> QED BY <1>1, <1>2

LEMMA GetOffsetKeeps ==
  ASSUME IInv, GetOffset
  PROVE  IInv'
<1>1. BufferInv'
  BY BufferUnchanged DEF IInv, GetOffset
<1>2. SourceTypes
  BY DEF IInv, BufferInv
<1>3. getter' = [pc |-> "status", offset |-> ByteOffset(alState, alOffset),
                 seen |-> {Cursor}, started |-> FALSE]
  BY DEF GetOffset
<1>4. ByteOffset(alState, alOffset) \in Positions /\ Cursor \in Positions
  BY <1>2, OffsetTypes, CursorTypes
<1>5. getter' \in Getters
  BY <1>3, <1>4 DEF Getters
<1>6. alState' = alState /\ alOffset' = alOffset /\ lastPos' = lastPos
  BY DEF GetOffset, buffer, al
<1>7. Cursor' = Cursor
  BY <1>6 DEF Cursor
<1>8. ByteOffset(alState, alOffset) = Cursor \/ alState \in {"None", "Initial"}
  BY <1>2 DEF ByteOffset, Cursor, SourceTypes, SourceStates
<1>9. /\ getter'.seen = {Cursor} /\ getter'.offset = ByteOffset(alState, alOffset)
      /\ getter'.started = FALSE
  BY <1>3
<1>10. GetterInv'
  BY <1>6, <1>7, <1>8, <1>9 DEF GetterInv
<1> QED BY <1>1, <1>5, <1>10 DEF IInv

LEMMA GetStatusKeeps ==
  ASSUME IInv, GetStatus
  PROVE  IInv'
<1>1. BufferInv'
  BY BufferUnchanged DEF IInv, GetStatus
<1>2. getter' = Idle
  BY DEF GetStatus
<1> QED BY <1>1, <1>2 DEF IInv, Getters, GetterInv

-----------------------------------------------------------------------------
(* The invariant.                                                          *)

LEMMA InitIInv == Init => IInv
<1> SUFFICES ASSUME Init PROVE IInv
  OBVIOUS
<1>1. 0 \in Positions /\ 0 \in 0 .. Size
  BY SizeAssumption DEF Positions
<1>2. SourceTypes /\ getter \in Getters
  BY <1>1 DEF Init, SourceTypes, SourceStates, Polls, Getters
<1>3. SourceInv /\ PollInv /\ TrailInv /\ GetterInv
  BY DEF Init, SourceInv, PollInv, TrailInv, Trail, GetterInv
<1> QED BY <1>2, <1>3 DEF IInv, BufferInv

LEMMA NextIInv == IInv /\ [Next]_vars => IInv'
<1> SUFFICES ASSUME IInv, [Next]_vars PROVE IInv'
  OBVIOUS
<1>1. BufferInv /\ alState \in SourceStates
  BY DEF IInv, BufferInv, SourceTypes
<1>2. CASE UNCHANGED vars
  <2>1. UNCHANGED buffer /\ getter' = getter /\ alState' = alState /\ Cursor' = Cursor
    BY <1>2 DEF vars, buffer, al, Cursor
  <2>2. BufferInv'
    BY <1>1, <2>1, BufferUnchanged
  <2> QED BY <2>1, <2>2 DEF IInv, GetterInv
<1>3. CASE AcquireResources /\ Watch
  BY <1>1, <1>3, AcquireResourcesKeeps, WatchKeeps DEF AcquireResources, NeverPlayed
<1>4. ASSUME NEW loop \in BOOLEAN, Play(loop), Watch PROVE IInv'
  <2>1. alState' = "Playing"
    BY <1>4 DEF Play, StartSource
  <2> QED BY <1>1, <1>4, <2>1, PlayKeeps, WatchKeeps
<1>5. CASE Stop /\ Watch
  <2>1. alState' \in {alState, "Paused"} /\ (alState \in NeverPlayed => alState' = alState)
    BY <1>5 DEF Stop, NeverPlayed
  <2> QED BY <1>1, <1>5, <2>1, StopKeeps, WatchKeeps
<1>6. ASSUME NEW pos \in Positions, SetCurrentPosition(pos), Watch PROVE IInv'
  BY <1>1, <1>6, SetCurrentPositionKeeps, WatchKeeps DEF SetCurrentPosition
<1>7. CASE SetNotificationPositions /\ Watch
  BY <1>1, <1>7, SetNotificationPositionsKeeps, WatchKeeps DEF SetNotificationPositions, al
<1>8. CASE TakeEvent /\ Watch
  BY <1>1, <1>8, TakeEventKeeps, WatchKeeps DEF TakeEvent, al
<1>9. CASE Mix /\ Watch
  BY <1>1, <1>9, MixKeeps, WatchKeeps DEF Mix, NeverPlayed
<1>10. CASE PollOffset /\ Watch
  BY <1>1, <1>10, PollOffsetKeeps, WatchKeeps DEF PollOffset, al
<1>11. CASE PollState /\ Watch
  BY <1>1, <1>11, PollStateKeeps, WatchKeeps DEF PollState, al
<1>12. CASE GetOffset \/ GetStatus
  BY <1>12, GetOffsetKeeps, GetStatusKeeps
<1> QED BY <1>2, <1>3, <1>4, <1>5, <1>6, <1>7, <1>8, <1>9, <1>10, <1>11, <1>12 DEF Next

(* The inductive invariant holds in every state that the program reaches. *)
THEOREM Invariance == Spec => []IInv
<1> QED BY InitIInv, NextIInv, PTL DEF Spec

(* Every variable has the values of its type: a position is one of the     *)
(* buffer, mLastPos may be its end.                                        *)
THEOREM TypeCorrect == Spec => []TypeOK
<1>1. IInv => TypeOK
  BY DEF IInv, BufferInv, SourceTypes, TypeOK
<1> QED BY <1>1, Invariance, PTL

-----------------------------------------------------------------------------
(* What a report tells.                                                    *)

LEMMA SignalledIsArc ==
  ASSUME SourceTypes, NEW st, NEW offset, Signal(st, offset),
         Settled(st, offset) \in 0 .. Size
  PROVE  /\ events' \ events \subseteq Arc(lastPos, Settled(st, offset)) \cup {OffsetStop}
         /\ notifies \cap Arc(lastPos, Settled(st, offset)) \subseteq events'
<1>1. \A n \in notifies : IsHit(n, Settled(st, offset)) <=> n \in Arc(lastPos, Settled(st, offset))
  BY HitsAreArc DEF SourceTypes
<1>2. /\ events' \ events \subseteq {n \in notifies : IsHit(n, Settled(st, offset))} \cup {OffsetStop}
      /\ {n \in notifies : IsHit(n, Settled(st, offset))} \subseteq events'
  BY DEF Signal
<1> QED BY <1>1, <1>2

\* What lies between mLastPos and the offset that a report goes by.
Told(played, settled, more) ==
  /\ played # {} => Arc(lastPos, settled) \subseteq played
  /\ ~more => played \subseteq Arc(lastPos, settled)

LEMMA EndedTells ==
  ASSUME SourceTypes, alState \in {"None", "Initial", "Stopped"}, NEW played, NEW more,
         Trail(lastPos, played, more)
  PROVE  Told(played, IF alState = "Stopped" THEN Size ELSE 0, more)
<1>1. lastPos \in 0 .. Size
  BY DEF SourceTypes
<1>2. played # {} =>
        /\ lastPos .. Size - 1 \subseteq played
        /\ ~more => played = lastPos .. Size - 1 /\ (alState # "Stopped" => lastPos > 0)
  BY DEF Trail
<1>3. CASE alState = "Stopped"
  BY <1>1, <1>2, <1>3, ArcFacts DEF Told
<1>4. CASE alState # "Stopped" /\ lastPos > 0
  BY <1>1, <1>2, <1>4, ArcFacts DEF Told
<1>5. CASE alState # "Stopped" /\ lastPos = 0
  BY <1>1, <1>2, <1>5, ArcFacts DEF Told
<1> QED BY <1>1, <1>3, <1>4, <1>5

\* The report of a call, which holds the mutex.
LEMMA CallTells ==
  ASSUME IInv, poll = Idle, listed, ~misplaced, alState # "None", NEW st,
         st = alState \/ (alState = "Playing" /\ st = "Paused")
  PROVE  /\ Settled(st, ByteOffset(st, alOffset)) \in 0 .. Size
         /\ alState # "Playing" => Told(crossed, Settled(st, ByteOffset(st, alOffset)), lapped)
         /\ alState = "Playing" =>
              /\ Arc(lastPos, Settled(st, ByteOffset(st, alOffset))) \subseteq crossed
              /\ ~lapped => crossed \subseteq Arc(lastPos, Settled(st, ByteOffset(st, alOffset)))
<1>1. SourceTypes /\ SourceInv /\ Trail(lastPos, crossed, lapped)
  BY DEF IInv, BufferInv, TrailInv
<1>2. alState \in {"Initial", "Playing", "Stopped"}
  BY <1>1 DEF SourceTypes, SourceStates, SourceInv
<1>3. CASE alState = "Playing"
  <2>1. Settled(st, ByteOffset(st, alOffset)) = alOffset /\ alOffset \in 0 .. Size
    BY <1>1, <1>3, SizeAssumption DEF Settled, ByteOffset, SourceTypes, Positions
  <2> QED BY <1>1, <1>3, <2>1 DEF Trail
<1>4. CASE alState # "Playing"
  <2>1. Settled(st, ByteOffset(st, alOffset)) = IF alState = "Stopped" THEN Size ELSE 0
    BY <1>2, <1>4 DEF Settled, ByteOffset
  <2>2. Told(crossed, IF alState = "Stopped" THEN Size ELSE 0, lapped)
    BY <1>1, <1>2, <1>4, EndedTells
  <2> QED BY <1>4, <2>1, <2>2, SizeAssumption
<1> QED BY <1>3, <1>4

\* The report of the thread.
LEMMA PollTells ==
  ASSUME IInv, poll # Idle, ~misplaced
  PROVE  /\ alState # "Playing" =>
              Told(poll.crossed \cup crossed, Settled(alState, poll.offset), Blurred)
         /\ alState = "Playing" =>
              /\ Arc(lastPos, Settled(alState, poll.offset)) \subseteq poll.crossed
              /\ ~poll.lapped => poll.crossed \subseteq Arc(lastPos, Settled(alState, poll.offset))
<1>1. SourceTypes /\ SourceInv /\ PollInv /\ TrailInv
  BY DEF IInv, BufferInv
<1>2. CASE alState = "Playing"
  BY <1>1, <1>2 DEF TrailInv, Settled
<1>3. CASE alState # "Playing"
  <2>1. alState \in {"None", "Initial", "Stopped"}
    BY <1>1, <1>3 DEF SourceTypes, SourceStates, SourceInv, PollInv
  <2>2. Settled(alState, poll.offset) = IF alState = "Stopped" THEN Size ELSE 0
    BY <1>1, <2>1 DEF PollInv, Settled
  <2>3. Trail(lastPos, poll.crossed \cup crossed, Blurred)
    BY <1>1, <1>3 DEF TrailInv
  <2>4. Told(poll.crossed \cup crossed, IF alState = "Stopped" THEN Size ELSE 0, Blurred)
    BY <1>1, <2>1, <2>3, EndedTells
  <2> QED BY <1>3, <2>2, <2>4
<1> QED BY <1>2, <1>3

\* A report: what is signalled lies between mLastPos and the offset that it goes
\* by, and all that lies there and is asked for is signalled.
LEMMA ReportTells ==
  ASSUME IInv, listed, ~misplaced,
         PollState \/ Stop \/ (SetNotificationPositions /\ alState # "None")
  PROVE  \E settled \in 0 .. Size :
           /\ events' \ events \subseteq Arc(lastPos, settled) \cup {OffsetStop}
           /\ notifies \cap Arc(lastPos, settled) \subseteq events'
           /\ ~Overtaken => Arc(lastPos, settled) \subseteq Played
           /\ InReach => Played \subseteq Arc(lastPos, settled)
<1>1. SourceTypes /\ PollInv /\ SourceInv
  BY DEF IInv, BufferInv
<1>2. CASE PollState
  <2> DEFINE o == Settled(alState, poll.offset)
  <2>1. poll # Idle /\ poll.offset \in Positions /\ Signal(alState, poll.offset)
    BY <1>1, <1>2 DEF PollState, SourceTypes, Polls, Idle
  <2>2. o \in 0 .. Size
    BY <1>1, <2>1, OffsetTypes
  <2>3. /\ events' \ events \subseteq Arc(lastPos, o) \cup {OffsetStop}
        /\ notifies \cap Arc(lastPos, o) \subseteq events'
    BY <1>1, <2>1, <2>2, SignalledIsArc
  <2>4. /\ alState # "Playing" => Told(poll.crossed \cup crossed, o, Blurred)
        /\ alState = "Playing" =>
             /\ Arc(lastPos, o) \subseteq poll.crossed
             /\ ~poll.lapped => poll.crossed \subseteq Arc(lastPos, o)
    BY <2>1, PollTells
  <2>5. /\ alState = "Playing" => Played = poll.crossed
        /\ alState # "Playing" => Played = poll.crossed \cup crossed
    BY <2>1 DEF Played
  <2> HIDE DEF o
  <2>6. ~Overtaken => Arc(lastPos, o) \subseteq Played
    BY <2>4, <2>5 DEF Overtaken, Told
  <2>7. InReach => ~lapped /\ ~poll.lapped
                     /\ (alState = "Playing" \/ poll.crossed \cap crossed = {})
    BY <2>1 DEF InReach
  <2>8. InReach => Played \subseteq Arc(lastPos, o)
    BY <2>4, <2>5, <2>7 DEF Told, Blurred
  <2> QED BY <2>2, <2>3, <2>6, <2>8
<1>3. ASSUME NEW st, Signal(st, ByteOffset(st, alOffset)), poll = Idle, alState # "None",
             st = alState \/ (alState = "Playing" /\ st = "Paused")
      PROVE  \E settled \in 0 .. Size :
               /\ events' \ events \subseteq Arc(lastPos, settled) \cup {OffsetStop}
               /\ notifies \cap Arc(lastPos, settled) \subseteq events'
               /\ ~Overtaken => Arc(lastPos, settled) \subseteq Played
               /\ InReach => Played \subseteq Arc(lastPos, settled)
  <2> DEFINE o == Settled(st, ByteOffset(st, alOffset))
  <2>1. /\ o \in 0 .. Size
        /\ alState # "Playing" => Told(crossed, o, lapped)
        /\ alState = "Playing" =>
             /\ Arc(lastPos, o) \subseteq crossed
             /\ ~lapped => crossed \subseteq Arc(lastPos, o)
    BY <1>3, CallTells
  <2>2. /\ events' \ events \subseteq Arc(lastPos, o) \cup {OffsetStop}
        /\ notifies \cap Arc(lastPos, o) \subseteq events'
    BY <1>1, <1>3, <2>1, SignalledIsArc
  <2>3. Played = crossed
    BY <1>3 DEF Played
  <2> HIDE DEF o
  <2>4. ~Overtaken => Arc(lastPos, o) \subseteq Played
    BY <2>1, <2>3 DEF Overtaken, Told
  <2>5. InReach => Played \subseteq Arc(lastPos, o)
    BY <2>1, <2>3 DEF InReach, Told
  <2> QED BY <2>1, <2>2, <2>4, <2>5
<1>4. CASE Stop
  <2> DEFINE st == IF alState = "Playing" THEN "Paused" ELSE alState
  <2>1. /\ poll = Idle /\ alState # "None" /\ Signal(st, ByteOffset(st, alOffset))
        /\ st = alState \/ (alState = "Playing" /\ st = "Paused")
    BY <1>4 DEF Stop, CanCall
  <2> HIDE DEF st
  <2> QED BY <1>3, <2>1
<1>5. CASE SetNotificationPositions /\ alState # "None"
  <2>1. poll = Idle /\ Signal(alState, ByteOffset(alState, alOffset))
    BY <1>5 DEF SetNotificationPositions, CanCall
  <2> QED BY <1>3, <1>5, <2>1
<1> QED BY <1>2, <1>4, <1>5

\* No other step signals anything, or takes a buffer off the list.
LEMMA OnlyReportsSignal ==
  ASSUME IInv, [Next]_vars
  PROVE  \/ events' \subseteq events /\ ~Reports
         \/ listed /\ (PollState \/ Stop \/ (SetNotificationPositions /\ alState # "None"))
<1>1. PollInv
  BY DEF IInv, BufferInv
<1>2. CASE UNCHANGED vars
  BY <1>2 DEF vars, buffer, Reports
<1>3. CASE AcquireResources \/ (\E pos \in Positions : SetCurrentPosition(pos))
  BY <1>3 DEF AcquireResources, SetCurrentPosition, CanCall, Reports
<1>4. ASSUME NEW loop \in BOOLEAN, Play(loop)
      PROVE  events' \subseteq events /\ ~Reports
  <2>1. poll = Idle /\ events' = events
    BY <1>4 DEF Play, StartSource, CanCall
  <2>2. listed => listed'
    <3>1. listed' = (listed \/ notifies # {}) \/ listed' = listed
      BY <1>4, Zenon DEF Play, StartSource
    <3> QED BY <3>1, Zenon
  <2> QED BY <2>1, <2>2 DEF Reports
<1>5. CASE Stop
  BY <1>5 DEF Stop, CanCall, Reports
<1>6. CASE SetNotificationPositions
  BY <1>6 DEF SetNotificationPositions, CanCall, Reports
<1>7. CASE TakeEvent \/ Mix
  BY <1>7 DEF TakeEvent, Mix, Reports
<1>8. CASE PollOffset
  BY <1>8 DEF PollOffset, Reports
<1>9. CASE PollState
  <2>1. poll # Idle
    BY <1>9 DEF PollState, Idle
  <2> QED BY <1>1, <1>9, <2>1 DEF PollInv
<1>10. CASE GetOffset \/ GetStatus
  BY <1>10 DEF GetOffset, GetStatus, buffer, Reports
<1> QED BY <1>2, <1>3, <1>4, <1>5, <1>6, <1>7, <1>8, <1>9, <1>10 DEF Next

-----------------------------------------------------------------------------
(* The theorems about the steps.                                           *)

(* A position notification is signalled only for a position that was       *)
(* played since the last one that was looked at: by the thread, by Stop    *)
(* and by SetNotificationPositions.                                        *)
THEOREM NothingIsSpurious == Spec => NothingSpurious
<1>1. IInv /\ [Next]_vars =>
        [misplaced \/ Overtaken \/ events' \ events \subseteq Played \cup {OffsetStop}]_vars
  <2> SUFFICES ASSUME IInv, [Next]_vars, ~misplaced, ~Overtaken
               PROVE  events' \ events \subseteq Played \cup {OffsetStop}
    OBVIOUS
  <2>1. CASE events' \subseteq events
    BY <2>1
  <2>2. CASE listed /\ (PollState \/ Stop \/ (SetNotificationPositions /\ alState # "None"))
    BY <2>2, ReportTells
  <2> QED BY <2>1, <2>2, OnlyReportsSignal
<1> QED BY <1>1, Invariance, PTL DEF Spec, NothingSpurious

(* Every report signals all notifications of positions played since the    *)
(* last one, although the source plays on, wraps or ends between the two   *)
(* reads of updateNotify, as long as it is at most one turn ahead.         *)
THEOREM NothingIsMissed == Spec => NothingMissed
<1>1. IInv /\ [Next]_vars => [Reports /\ InReach => Played \cap notifies \subseteq events']_vars
  <2> SUFFICES ASSUME IInv, [Next]_vars, Reports, InReach
               PROVE  Played \cap notifies \subseteq events'
    OBVIOUS
  <2>1. listed /\ (PollState \/ Stop \/ (SetNotificationPositions /\ alState # "None"))
    BY OnlyReportsSignal
  <2>2. ~misplaced
    BY DEF InReach
  <2> QED BY <2>1, <2>2, ReportTells
<1> QED BY <1>1, Invariance, PTL DEF Spec, NothingMissed

(* A buffer that was stopped or never played stays where it is and goes on *)
(* from there, through Stop, relocation, Play and every step of the        *)
(* thread, unless the application moves it.                                *)
THEOREM PositionIsKept == Spec => PositionKept
<1>1. IInv /\ [Next]_vars =>
        [(alState \in {"None", "Initial", "Paused"} /\ ~listed) =>
           (Cursor' = Cursor \/ Moved)]_vars
  <2> SUFFICES ASSUME IInv, [Next]_vars, alState \in {"None", "Initial", "Paused"}, ~listed,
                      ~Moved
               PROVE  Cursor' = Cursor
    OBVIOUS
  <2>1. SourceTypes /\ SourceInv /\ PollInv
    BY DEF IInv, BufferInv
  <2>2. poll = Idle
    BY <2>1 DEF PollInv
  <2>3. alState = "Paused" => lastPos % Size = alOffset
    <3>1. alState = "Paused" => lastPos = alOffset /\ alOffset \in Positions
      BY <2>1 DEF SourceInv, SourceTypes
    <3> QED BY <2>1, <3>1, Wrapped, SizeAssumption DEF SourceTypes, Positions
  <2>4. Cursor = lastPos % Size
    BY <2>3 DEF Cursor
  <2>5. CASE UNCHANGED vars
    BY <2>5 DEF vars, buffer, al, Cursor
  <2>6. CASE AcquireResources
    BY <2>4, <2>6 DEF AcquireResources, Cursor
  <2>7. ASSUME NEW loop \in BOOLEAN, Play(loop) PROVE Cursor' = Cursor
    <3>1. /\ alState' = "Playing"
          /\ alOffset' = lastPos % Size \/ (alState = "Paused" /\ alOffset' = alOffset)
      BY <2>7 DEF Play, StartSource
    <3> QED BY <2>3, <2>4, <3>1 DEF Cursor
  <2>8. CASE Stop
    BY <2>8 DEF Stop, Moved, Cursor
  <2>9. CASE SetNotificationPositions
    BY <2>9 DEF SetNotificationPositions, al, Cursor
  <2>10. CASE TakeEvent
    BY <2>10 DEF TakeEvent, al, Cursor
  <2>11. CASE Mix \/ PollOffset \/ PollState
    BY <2>2, <2>11 DEF Mix, PollOffset, PollState, Idle
  <2>12. CASE GetOffset \/ GetStatus
    BY <2>12 DEF GetOffset, GetStatus, buffer, al, Cursor
  <2> QED BY <2>5, <2>6, <2>7, <2>8, <2>9, <2>10, <2>11, <2>12 DEF Next, Moved
<1> QED BY <1>1, Invariance, PTL DEF Spec, PositionKept

(* GetCurrentPosition, though it takes no mutex, returns a position where  *)
(* the buffer was at some moment of the call, unless the first Play on a   *)
(* source falls between its two reads.                                     *)
THEOREM ReportedWasReal == Spec => PositionWasReal
<1>1. IInv => (getter # Idle /\ ~getter.started =>
                 ReportedPosition(alState, getter.offset) \in getter.seen)
  <2> SUFFICES ASSUME IInv, getter # Idle, ~getter.started
               PROVE  ReportedPosition(alState, getter.offset) \in getter.seen
    OBVIOUS
  <2>1. SourceTypes /\ Cursor \in getter.seen /\ getter.offset \in Positions
    BY DEF IInv, BufferInv, GetterInv, Getters
  <2>2. CASE alState = "Stopped"
    <3>1. ReportedPosition(alState, getter.offset) = Size % Size /\ Cursor = 0
      BY <2>2 DEF ReportedPosition, Cursor
    <3>2. Size % Size = 0
      BY Wrapped, SizeAssumption
    <3> QED BY <2>1, <3>1, <3>2
  <2>3. CASE alState \in {"Playing", "Paused"}
    <3>1. getter.offset \in getter.seen
      BY <2>3 DEF IInv, GetterInv
    <3>2. ReportedPosition(alState, getter.offset) = getter.offset % Size
      BY <2>3 DEF ReportedPosition
    <3>3. getter.offset % Size = getter.offset
      BY <2>1, Wrapped, SizeAssumption DEF Positions
    <3> QED BY <3>1, <3>2, <3>3
  <2>4. CASE alState \in {"None", "Initial"}
    <3>1. ReportedPosition(alState, getter.offset) = Cursor
      BY <2>4 DEF ReportedPosition, Cursor
    <3> QED BY <2>1, <3>1
  <2> QED BY <2>1, <2>2, <2>3, <2>4 DEF SourceTypes, SourceStates
<1>2. IInv /\ [Next]_vars =>
        [getter # Idle /\ getter' = Idle /\ ~getter.started =>
           ReportedPosition(alState, getter.offset) \in getter.seen]_vars
  BY <1>1
<1> QED BY <1>2, Invariance, PTL DEF Spec, PositionWasReal
=============================================================================
