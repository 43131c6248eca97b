----------------------------- MODULE SourcePool -----------------------------
(***************************************************************************)
(* How the secondary buffers of several DSound8OAL objects share the       *)
(* voices of one SharedDevice.  The counters mCurrentHwSources and         *)
(* mCurrentSwSources are atomics taken with a load and a compare-exchange  *)
(* loop and given back with fetch_sub.  Each object serialises the calls   *)
(* on its own buffers with its own mDsMutex, so the race is between the    *)
(* objects, and a call of each object is at most one step of setLocation   *)
(* ahead: an object is the process here.                                   *)
(*                                                                         *)
(* A buffer that is not LOCDEFER gets its voice in Initialize and keeps    *)
(* it; a LOCDEFER one gets it in AcquireResources or Play, and may change  *)
(* it there while it does not play.  OpenAL has as many sources as there   *)
(* are voices of the two kinds together (CreateDeviceShare).               *)
(***************************************************************************)
EXTENDS Integers, FiniteSets

CONSTANTS
  Objects,   \* the DSound8OAL objects that share the device
  Buffers,   \* their buffers
  Parent,    \* Parent[b] is the object of buffer b
  MaxHw,     \* mMaxHwSources
  MaxSw      \* mMaxSwSources

ASSUME ParentAssumption == Parent \in [Buffers -> Objects]
ASSUME FiniteAssumption == IsFiniteSet(Buffers) /\ IsFiniteSet(Objects)
ASSUME MaxAssumption == MaxHw \in Nat /\ MaxSw \in Nat

Kinds == {"Hardware", "Software"}
LocStatus == Kinds \cup {"None"}
MaxOf(k) == IF k = "Hardware" THEN MaxHw ELSE MaxSw

VARIABLES
  count,    \* mCurrentHwSources and mCurrentSwSources, by kind
  buffer,   \* per buffer, its state: see BufferStates
  location, \* per buffer, mLocStatus
  sources,  \* the buffers whose mSource is a generated source
  call,     \* per object, the call of setLocation in progress
  strayed   \* history: a source was generated without a voice

vars == <<count, buffer, location, sources, call, strayed>>

(* "free" is a slot without a Buffer; "fixed" and "deferred" buffers do    *)
(* not play, with LOCDEFER or without it.                                  *)
BufferStates == {"free", "fixed", "deferred", "fixedPlaying",
                 "deferredPlaying", "failed"}
Playing(b) == buffer[b] \in {"fixedPlaying", "deferredPlaying"}

Wants == Kinds \cup {"Any"}
Calls ==
  [pc : {"idle"}] \cup
  [pc : {"load", "cas"}, buf : Buffers, want : Wants, kind : Kinds,
   cur : Nat] \cup
  [pc : {"place"}, buf : Buffers, kind : Kinds] \cup
  [pc : {"fail"}, buf : Buffers]
Idle == [pc |-> "idle"]

Init ==
  /\ count = [k \in Kinds |-> 0]
  /\ buffer = [b \in Buffers |-> "free"]
  /\ location = [b \in Buffers |-> "None"]
  /\ sources = {}
  /\ call = [o \in Objects |-> Idle]
  /\ strayed = FALSE

\* mDsMutex of the buffer's object is free.
Unlocked(b) == call[Parent[b]] = Idle

-----------------------------------------------------------------------------
(* setLocation(want), from the early returns to the first counter.  The    *)
(* old voice is given back before a new one is asked for.                  *)

Suits(b, want) ==
  IF want = "Any" THEN location[b] # "None" ELSE location[b] = want

\* Mutant: "Any" is not resolved to a kind.
FirstKindUnresolved(want) == want

FirstKind(want) == IF want = "Software" THEN "Software" ELSE "Hardware"

\* Mutant: the old source is deleted, its voice is not given back.
BeginWithoutGivingBack(b, want) ==
  /\ ~Suits(b, want)
  /\ call' = [call EXCEPT ![Parent[b]] =
       [pc |-> "load", buf |-> b, want |-> want, kind |-> FirstKind(want),
        cur |-> 0]]
  /\ sources' = sources \ {b}
  /\ location' = [location EXCEPT ![b] = "None"]
  /\ UNCHANGED count

BeginLocation(b, want) ==
  /\ ~Suits(b, want)
  /\ call' = [call EXCEPT ![Parent[b]] =
       [pc |-> "load", buf |-> b, want |-> want, kind |-> FirstKind(want),
        cur |-> 0]]
  /\ IF location[b] = "None"
       THEN UNCHANGED <<count, location, sources>>
       ELSE /\ sources' = sources \ {b}
            /\ count' = [count EXCEPT ![location[b]] = @ - 1]
            /\ location' = [location EXCEPT ![b] = "None"]

(* incHwSources or incSwSources found the counter at "cur": at the maximum *)
(* the call goes on to the other kind, or fails; below it, it tries to     *)
(* replace cur by cur + 1.                                                 *)
Found(o, cur) ==
  LET c == call[o]
  IN  IF cur # MaxOf(c.kind)
        THEN [c EXCEPT !.pc = "cas", !.cur = cur]
      ELSE IF c.kind = "Hardware" /\ c.want = "Any"
        THEN [c EXCEPT !.pc = "load", !.kind = "Software", !.cur = 0]
      ELSE [pc |-> "fail", buf |-> c.buf]

LoadCount(o) ==
  /\ call[o].pc = "load"
  /\ call' = [call EXCEPT ![o] = Found(o, count[call[o].kind])]
  /\ UNCHANGED <<count, buffer, location, sources, strayed>>

\* Mutant: a plain load and store instead of the compare-exchange.
StoreSucceeds(o) ==
  /\ call[o].pc = "cas"
  /\ count' = [count EXCEPT ![call[o].kind] = call[o].cur + 1]
  /\ call' = [call EXCEPT ![o] =
       [pc |-> "place", buf |-> call[o].buf, kind |-> call[o].kind]]
  /\ UNCHANGED <<buffer, location, sources, strayed>>

\* Mutant: a load, and an atomic increment whatever the counter is by then.
IncrementSucceeds(o) ==
  /\ call[o].pc = "cas"
  /\ count' = [count EXCEPT ![call[o].kind] = @ + 1]
  /\ call' = [call EXCEPT ![o] =
       [pc |-> "place", buf |-> call[o].buf, kind |-> call[o].kind]]
  /\ UNCHANGED <<buffer, location, sources, strayed>>

CasSucceeds(o) ==
  /\ call[o].pc = "cas"
  /\ count[call[o].kind] = call[o].cur
  /\ count' = [count EXCEPT ![call[o].kind] = @ + 1]
  /\ call' = [call EXCEPT ![o] =
       [pc |-> "place", buf |-> call[o].buf, kind |-> call[o].kind]]
  /\ UNCHANGED <<buffer, location, sources, strayed>>

\* compare_exchange_weak may fail though the counter did not change.  It
\* reloads the counter.
CasFails(o) ==
  /\ call[o].pc = "cas"
  /\ call' = [call EXCEPT ![o] = Found(o, count[call[o].kind])]
  /\ UNCHANGED <<count, buffer, location, sources, strayed>>

\* Mutant: one source is kept back.
GenerateLess(b) ==
  sources' = IF b \in sources \/ Cardinality(sources) + 1 < MaxHw + MaxSw
             THEN sources \cup {b} ELSE sources

\* alGenSources: fails, unnoticed, when OpenAL has no source left.
Generate(b) ==
  sources' = IF b \in sources \/ Cardinality(sources) < MaxHw + MaxSw
             THEN sources \cup {b} ELSE sources

\* The end of setLocation.  A Play goes on to start the source.
PlaceBuffer(o) ==
  /\ call[o].pc = "place"
  /\ Generate(call[o].buf)
  /\ location' = [location EXCEPT ![call[o].buf] = call[o].kind]
  /\ call' = [call EXCEPT ![o] = Idle]
  /\ \/ UNCHANGED buffer
     \/ /\ buffer[call[o].buf] = "deferred" /\ call[o].buf \in sources'
        /\ buffer' = [buffer EXCEPT ![call[o].buf] = "deferredPlaying"]
  /\ UNCHANGED <<count, strayed>>

\* DSERR_ALLOCATED.  When it is Initialize that failed, the creation fails and
\* the Buffer is released; a LOCDEFER buffer stays, without a voice.
FailLocation(o) ==
  /\ call[o].pc = "fail"
  /\ buffer' = [buffer EXCEPT ![call[o].buf] =
                  IF @ = "fixed" THEN "failed" ELSE @]
  /\ call' = [call EXCEPT ![o] = Idle]
  /\ UNCHANGED <<count, location, sources, strayed>>

-----------------------------------------------------------------------------
(* The calls on a buffer.                                                  *)

\* createSecondaryBuffer and Buffer::Initialize.
CreateDeferred(b) ==
  /\ Unlocked(b) /\ buffer[b] = "free"
  /\ buffer' = [buffer EXCEPT ![b] = "deferred"]
  /\ UNCHANGED <<count, location, sources, call, strayed>>

CreateFixed(b) ==
  /\ Unlocked(b) /\ buffer[b] = "free"
  /\ buffer' = [buffer EXCEPT ![b] = "fixed"]
  /\ \E want \in Wants : BeginLocation(b, want)
  /\ UNCHANGED strayed

\* Mutant: a playing buffer is relocated as well.
LocateAnyTime(b) ==
  /\ Unlocked(b) /\ buffer[b] \in {"deferred", "deferredPlaying"}
  /\ \E want \in Wants : BeginLocation(b, want)
  /\ UNCHANGED <<buffer, strayed>>

\* AcquireResources or Play on a LOCDEFER buffer that has to be located.  While
\* the source plays only its own location or any is accepted, and that changes
\* nothing.
Locate(b) ==
  /\ Unlocked(b) /\ buffer[b] = "deferred"
  /\ \E want \in Wants : BeginLocation(b, want)
  /\ UNCHANGED <<buffer, strayed>>

\* Play on a buffer that need not be located: a source that was not generated
\* cannot start.
Start(b) ==
  /\ Unlocked(b) /\ buffer[b] \in {"fixed", "deferred"}
  /\ location[b] # "None" /\ b \in sources
  /\ buffer' = [buffer EXCEPT ![b] = IF @ = "fixed" THEN "fixedPlaying"
                                     ELSE "deferredPlaying"]
  /\ UNCHANGED <<count, location, sources, call, strayed>>

\* Stop, or the end of the data, which waits for no mutex.
Halt(b) ==
  /\ Playing(b)
  /\ buffer' = [buffer EXCEPT ![b] = IF @ = "fixedPlaying" THEN "fixed"
                                     ELSE "deferred"]
  /\ UNCHANGED <<count, location, sources, call, strayed>>

\* Prop::Set of an EAX property on a buffer that has no source generates one,
\* without taking a voice.
SetEaxProperty(b) ==
  /\ Unlocked(b) /\ buffer[b] \in {"fixed", "deferred"}
  /\ b \notin sources
  /\ Generate(b)
  /\ strayed' = (strayed \/ (b \in sources' /\ location[b] = "None"))
  /\ UNCHANGED <<count, buffer, location, call>>

\* The last Release, and dispose: ~Buffer gives everything back.
Dispose(b) ==
  /\ Unlocked(b) /\ buffer[b] # "free"
  /\ buffer' = [buffer EXCEPT ![b] = "free"]
  /\ sources' = sources \ {b}
  /\ count' = IF location[b] = "None" THEN count
              ELSE [count EXCEPT ![location[b]] = @ - 1]
  /\ location' = [location EXCEPT ![b] = "None"]
  /\ UNCHANGED <<call, strayed>>

BufferCall(b) ==
  \/ CreateDeferred(b)
  \/ CreateFixed(b)
  \/ Locate(b)
  \/ Start(b)
  \/ Halt(b)
  \/ SetEaxProperty(b)
  \/ Dispose(b)

CallStep(o) ==
  \/ LoadCount(o)
  \/ CasSucceeds(o)
  \/ CasFails(o)
  \/ PlaceBuffer(o)
  \/ FailLocation(o)

Next == (\E b \in Buffers : BufferCall(b)) \/ (\E o \in Objects : CallStep(o))

Spec == Init /\ [][Next]_vars

-----------------------------------------------------------------------------
(* Correctness.                                                            *)

TypeOK ==
  /\ count \in [Kinds -> Int]
  /\ buffer \in [Buffers -> BufferStates]
  /\ location \in [Buffers -> LocStatus]
  /\ sources \subseteq Buffers
  /\ call \in [Objects -> Calls]
  /\ strayed \in BOOLEAN

\* Who holds a voice: a located buffer, or one about to be located.
Holders(k) ==
  {b \in Buffers :
     \/ location[b] = k
     \/ LET c == call[Parent[b]] IN c.pc = "place" /\ c.buf = b /\ c.kind = k}

(* The counters count: at any point of any calls of any objects each is    *)
(* the number of voices of its kind that somebody holds.  Every path that  *)
(* clears mLocStatus, and no other, gives a voice back.                    *)
CountersExact == \A k \in Kinds : count[k] = Cardinality(Holders(k))

(* The limit of incHwSources and incSwSources is never passed, and the     *)
(* unsigned counters never wrap below zero.                                *)
CountersBounded == \A k \in Kinds : count[k] \in 0..MaxOf(k)

(* A voice is backed by an OpenAL source, as long as no source was         *)
(* generated without a voice: setLocation does not look at the result of   *)
(* alGenSources.  A buffer that plays has both a voice and a source of its *)
(* own, even if one was.                                                   *)
VoicesAreBacked ==
  /\ ~strayed => \A b \in Buffers : location[b] # "None" => b \in sources
  /\ \A b \in Buffers : Playing(b) => location[b] # "None" /\ b \in sources

(* No call takes the voice or the source of a buffer while it plays.       *)
PlayingKeepsVoice ==
  [][\A b \in Buffers : Playing(b) /\ Playing(b)' =>
       location'[b] = location[b] /\ (b \in sources' <=> b \in sources)]_vars

(* The counters implement an atomic pool of voices.                        *)
Pool == INSTANCE VoicePool WITH
  Claimants <- Buffers,
  Capacity <- [k \in Kinds |-> MaxOf(k)],
  held <- [k \in Kinds |-> Holders(k)]

ImplementsVoicePool == Pool!Spec
=============================================================================
