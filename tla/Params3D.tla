------------------------------ MODULE Params3D ------------------------------
(***************************************************************************)
(* The 3D parameters of the buffers that have DSBCAPS_CTRL3D and of the    *)
(* listener: what was set at once (mImmediate), what was deferred          *)
(* (mDeferred, mDirty), and what OpenAL was told; and the volume, pan and  *)
(* frequency, which every buffer has and which are never deferred.  A      *)
(* buffer without DSBCAPS_CTRL3D is called flat here.                      *)
(*                                                                         *)
(* Every call holds the mutex of the DSound8OAL from beginning to end and  *)
(* is one step.  The parameters are told apart by how they are treated:    *)
(* Spatial ones reach OpenAL only while the mode is not disabled, Plain    *)
(* ones always, the mode and the rolloff factor affect other parameters.   *)
(* What setLocation does about voices is in SourcePool; here a source is   *)
(* had or not.  What mDeferred holds of a parameter that is not dirty is   *)
(* never read: here it is its default.                                     *)
(***************************************************************************)
EXTENDS Naturals, FiniteSets, Functions

CONSTANTS
  Buffers,      \* places for buffers
  Spatial,      \* vPosition, vVelocity, vConeOrientation
  Plain,        \* cone angles, cone volume, minimal and maximal distance
  Listening,    \* the listener's parameters, without the rolloff factor
  Values,       \* the values a parameter other than the mode is set to
  Default,      \* the value it has at first
  Zero,         \* the rolloff factor's value before the listener has one
  Parked,       \* what OpenAL is told of a Spatial parameter when disabled
  Listener,     \* the listener, among the objects with settings
  Nothing,      \* no setting
  MaxBusy       \* bound: the settings that are pending, or not as they were at first

Modes == {"Normal", "HeadRelative", "Disable"}
Controls == {"Volume", "Pan", "Frequency"}
Fields == Spatial \cup Plain \cup {"Mode"}
ListenerFields == Listening \cup {"Rolloff"}

ASSUME FieldsAssumption ==
  /\ Spatial \cap Plain = {}
  /\ ({"Mode", "Rolloff", "Relative"} \cup Controls)
       \cap (Spatial \cup Plain \cup Listening) = {}
ASSUME ValuesAssumption ==
  {Default, Zero} \subseteq Values /\ Parked \notin Values \cup {Nothing}
ASSUME NothingAssumption ==
  Listener \notin Buffers /\ Nothing \notin Values \cup Modes

VARIABLES
  m3dBuffers,  \* the 3D buffers that exist
  flat,        \* the others that exist
  controls,    \* per buffer, mVolume, mPan and mFrequency
  immediate, deferred, dirty,  \* per buffer, mImmediate, mDeferred, mDirty
  source,      \* per buffer: "None", "Unmarked" (without a location), "Located"
  al,          \* per buffer, what OpenAL was told for its source
  listener,    \* whether the application has the listener
  lImmediate, lDeferred, lDirty,  \* the same for the listener
  lAl,
  asked        \* history: the call that was made last, and what it asked for

buffers == <<m3dBuffers, flat, controls, immediate, deferred, dirty, source, al>>
primary == <<listener, lImmediate, lDeferred, lDirty, lAl>>
vars == <<buffers, primary, asked>>

Params == {p \in [Fields -> Values \cup Modes] :
             \A f \in Fields : IF f = "Mode" THEN p[f] \in Modes ELSE p[f] \in Values}
ListenerParams == [ListenerFields -> Values]

ListenerDefaults == [f \in ListenerFields |-> Default]
DefaultControls == [f \in Controls |-> Default]
DefaultParams == [f \in Fields |-> IF f = "Mode" THEN "Normal" ELSE Default]
Moded == Spatial \cup {"Rolloff", "Relative"}
AlFields == Moded \cup Plain \cup Controls
FreshSource == [f \in AlFields |-> Nothing]

Init ==
  /\ m3dBuffers = {} /\ flat = {}
  /\ controls = [b \in Buffers |-> DefaultControls]
  /\ immediate = [b \in Buffers |-> DefaultParams]
  /\ deferred = [b \in Buffers |-> DefaultParams]
  /\ dirty = [b \in Buffers |-> {}]
  /\ source = [b \in Buffers |-> "None"]
  /\ al = [b \in Buffers |-> FreshSource]
  /\ listener = FALSE
  /\ lImmediate = [f \in ListenerFields |-> Zero]
  /\ lDeferred = ListenerDefaults
  /\ lDirty = {}
  /\ lAl = [f \in Listening |-> Nothing]
  /\ asked = [what |-> "Other"]

(* What a call asks for, told before anything is done about it: whom it    *)
(* concerns, and which settings it gives.  A call that has no business     *)
(* with settings is an "Other".                                            *)
Asks(what, o) == asked' = [what |-> what, object |-> o]
AsksToSet(what, o, p, flags) ==
  asked' = [what |-> what, object |-> o, fields |-> flags, to |-> p]
AsksToCopy(o, from) == asked' = [what |-> "Copy", object |-> o, from |-> from]
AsksToCommit == asked' = [what |-> "Commit"]
AsksOther == asked' = [what |-> "Other"]

-----------------------------------------------------------------------------
(* setParams, and what it tells OpenAL.                                    *)

\* What the source of a 3D buffer is told of its mode, its parameters and the
\* listener's rolloff factor.
Told(p, rolloff) ==
  [f \in Moded \cup Plain |->
    IF f \in Spatial THEN IF p["Mode"] = "Disable" THEN Parked ELSE p[f]
    ELSE IF f \in Plain THEN p[f]
    ELSE IF f = "Rolloff" THEN IF p["Mode"] = "Disable" THEN Zero ELSE rolloff
    ELSE p["Mode"] # "Normal"]

\* What setLocation tells a source: all of it.  What a source without a
\* location was told is not followed for that reason.
ToldAll(b) ==
  [f \in AlFields |->
    IF f \in Controls
    THEN IF f = "Pan" /\ b \notin flat THEN Nothing ELSE controls[b][f]
    ELSE IF b \notin flat THEN Told(immediate[b], lImmediate["Rolloff"])[f]
    ELSE IF f = "Rolloff" THEN Zero
    ELSE IF f = "Relative" THEN TRUE
    ELSE Nothing]

Overlaid(old, new, flags) == [f \in DOMAIN old |-> IF f \in flags THEN new[f] ELSE old[f]]

\* Mutant: a mode that is set tells OpenAL what came with it.
RetoldFromParams(told, p, i, flags, rolloff) ==
  [f \in AlFields |->
    IF f \in flags \cap Plain THEN p[f]
    ELSE IF "Mode" \in flags /\ f \in Moded THEN Told(p, rolloff)[f]
    ELSE IF f \in flags \cap Spatial /\ i["Mode"] # "Disable" THEN p[f]
    ELSE told[f]]

\* setParams for a source that was told `told', with the parameters p of
\* which flags are set, when mImmediate is i already.
Retold(told, p, i, flags, rolloff) ==
  [f \in AlFields |->
    IF f \in flags \cap Plain THEN p[f]
    ELSE IF "Mode" \in flags /\ f \in Moded THEN Told(i, rolloff)[f]
    ELSE IF f \in flags \cap Spatial /\ i["Mode"] # "Disable" THEN p[f]
    ELSE told[f]]

AfterSet(b, p, flags, rolloff) ==
  IF source[b] # "Located" THEN al[b]
  ELSE Retold(al[b], p, Overlaid(immediate[b], p, flags), flags, rolloff)

\* The loop over m3dBuffers that follows a new rolloff factor.
WithRolloff(rolloff) ==
  [b \in Buffers |->
    IF b \in m3dBuffers /\ source[b] = "Located" /\ immediate[b]["Mode"] # "Disable"
    THEN [al[b] EXCEPT !["Rolloff"] = rolloff]
    ELSE al[b]]

-----------------------------------------------------------------------------
(* Buffers come, get and lose a source, and go.                            *)

Changed(params, defaults) == {f \in DOMAIN defaults : params[f] # defaults[f]}
Busy(b) ==
  Cardinality(dirty[b]) + Cardinality(Changed(immediate[b], DefaultParams))
    + Cardinality(Changed(controls[b], DefaultControls))
ListenerBusy ==
  Cardinality(lDirty) + Cardinality(Changed(lImmediate, ListenerDefaults))
Bounded == FoldFunctionOnSet(+, ListenerBusy, [b \in Buffers |-> Busy(b)], Buffers) <= MaxBusy

\* The end of Initialize: a buffer has a location from the start, or gets it
\* later when it has DSBCAPS_LOCDEFER.
FirstLocation(b) ==
  \/ UNCHANGED <<source, al>>
  \/ /\ source' = [source EXCEPT ![b] = "Located"]
     /\ al' = [al EXCEPT ![b] = ToldAll(b)']

\* The constructor and Initialize, for CreateSoundBuffer.
CreateBuffer(b) ==
  /\ b \notin m3dBuffers \cup flat
  /\ \/ m3dBuffers' = m3dBuffers \cup {b} /\ UNCHANGED flat
     \/ flat' = flat \cup {b} /\ UNCHANGED m3dBuffers
  /\ UNCHANGED <<controls, immediate, deferred, dirty, primary>>
  /\ FirstLocation(b)

\* And for DuplicateSoundBuffer: all but the volume is copied.
DuplicateBuffer(b) ==
  /\ b \notin m3dBuffers \cup flat
  /\ \E o \in m3dBuffers \cup flat :
       /\ AsksToCopy(b, o)
       /\ m3dBuffers' = IF o \in flat THEN m3dBuffers ELSE m3dBuffers \cup {b}
       /\ flat' = IF o \in flat THEN flat \cup {b} ELSE flat
       /\ controls' = [controls EXCEPT ![b] = [controls[o] EXCEPT !["Volume"] = Default]]
       /\ immediate' = [immediate EXCEPT ![b] = immediate[o]]
  /\ UNCHANGED <<deferred, dirty, primary>>
  /\ FirstLocation(b)
  /\ Bounded'

\* setLocation gives the buffer a location, and its source, be it new, had
\* before or generated by an EAX property, is told everything.
SetLocation(b) ==
  /\ b \in m3dBuffers \cup flat
  /\ source' = [source EXCEPT ![b] = "Located"]
  /\ al' = [al EXCEPT ![b] = ToldAll(b)]
  /\ UNCHANGED <<m3dBuffers, flat, controls, immediate, deferred, dirty, primary>>

\* setLocation gives back the voice and gets no other.
LoseLocation(b) ==
  /\ source[b] = "Located"
  /\ source' = [source EXCEPT ![b] = "None"]
  /\ al' = [al EXCEPT ![b] = FreshSource]
  /\ UNCHANGED <<m3dBuffers, flat, controls, immediate, deferred, dirty, primary>>

\* Mutant: the buffer leaves its source behind.
DestroyWithSource(b) ==
  /\ b \in m3dBuffers \cup flat
  /\ m3dBuffers' = m3dBuffers \ {b} /\ flat' = flat \ {b}
  /\ dirty' = [dirty EXCEPT ![b] = {}]
  /\ UNCHANGED <<controls, immediate, deferred, source, al, primary>>

\* The destructor.  What is left in the place is set by the constructor of
\* the next buffer there.
DestroyBuffer(b) ==
  /\ b \in m3dBuffers \cup flat
  /\ m3dBuffers' = m3dBuffers \ {b} /\ flat' = flat \ {b}
  /\ controls' = [controls EXCEPT ![b] = DefaultControls]
  /\ source' = [source EXCEPT ![b] = "None"]
  /\ al' = [al EXCEPT ![b] = FreshSource]
  /\ immediate' = [immediate EXCEPT ![b] = DefaultParams]
  /\ deferred' = [deferred EXCEPT ![b] = DefaultParams]
  /\ dirty' = [dirty EXCEPT ![b] = {}]
  /\ UNCHANGED primary

-----------------------------------------------------------------------------
(* The setters of volume, pan and frequency, and Buffer3D's setters.       *)

\* The pan of a 3D buffer is kept, for a duplicate, and never told.
SetControl(b) ==
  /\ b \in m3dBuffers \cup flat
  /\ \E f \in Controls, v \in Values :
       /\ controls' = [controls EXCEPT ![b][f] = v]
       /\ al' = IF source[b] # "Located" \/ (f = "Pan" /\ b \in m3dBuffers) THEN al
                ELSE [al EXCEPT ![b][f] = v]
  /\ UNCHANGED <<m3dBuffers, flat, immediate, deferred, dirty, source, primary>>
  /\ Bounded'

\* Mutant: what is set at once is no longer marked as deferred.
SetNowForgets(b, p, flags) ==
  /\ b \in m3dBuffers
  /\ immediate' = [immediate EXCEPT ![b] = Overlaid(@, p, flags)]
  /\ dirty' = [dirty EXCEPT ![b] = @ \ flags]
  /\ UNCHANGED <<m3dBuffers, flat, controls, deferred, source, primary>>
  /\ Bounded'
  /\ al' = [al EXCEPT ![b] = AfterSet(b, p, flags, lImmediate["Rolloff"])]

SetNow(b, p, flags) ==
  /\ b \in m3dBuffers
  /\ immediate' = [immediate EXCEPT ![b] = Overlaid(@, p, flags)]
  /\ UNCHANGED <<m3dBuffers, flat, controls, deferred, dirty, source, primary>>
  /\ Bounded'
  /\ al' = [al EXCEPT ![b] = AfterSet(b, p, flags, lImmediate["Rolloff"])]

SetDeferred(b, p, flags) ==
  /\ b \in m3dBuffers
  /\ dirty' = [dirty EXCEPT ![b] = @ \cup flags]
  /\ UNCHANGED <<m3dBuffers, flat, controls, immediate, source, al, primary>>
  /\ Bounded'
  /\ deferred' = [deferred EXCEPT ![b] = Overlaid(@, p, flags)]

SetParams(b, p, flags) ==
  \/ SetNow(b, p, flags) /\ AsksToSet("Set", b, p, flags)
  \/ SetDeferred(b, p, flags) /\ AsksToSet("Defer", b, p, flags)

SetSpatial(b) ==
  \E f \in Spatial, v \in Values : SetParams(b, [immediate[b] EXCEPT ![f] = v], {f})

SetPlain(b) ==
  \E f \in Plain, v \in Values : SetParams(b, [immediate[b] EXCEPT ![f] = v], {f})

SetMode(b) ==
  \E m \in Modes : SetParams(b, [immediate[b] EXCEPT !["Mode"] = m], {"Mode"})

SetAllParameters(b) == \E p \in Params : SetParams(b, p, Fields)

-----------------------------------------------------------------------------
(* The listener, and the commit of everything that was deferred.           *)

\* setParams of the listener.
TellListener(p, flags) ==
  /\ lImmediate' = Overlaid(lImmediate, p, flags)
  /\ lAl' = Overlaid(lAl, p, flags)
  /\ al' = IF "Rolloff" \in flags THEN WithRolloff(p["Rolloff"]) ELSE al

\* PrimaryBuffer::Initialize, when the application gets the primary buffer.
InitializePrimary ==
  /\ ~listener /\ listener' = TRUE
  /\ lDeferred' = ListenerDefaults /\ lDirty' = {}
  /\ TellListener(ListenerDefaults, ListenerFields)
  /\ UNCHANGED <<m3dBuffers, flat, controls, immediate, deferred, dirty, source>>

ReleasePrimary ==
  /\ listener /\ listener' = FALSE
  /\ UNCHANGED <<buffers, lImmediate, lDeferred, lDirty, lAl>>

SetListenerNow(p, flags) ==
  /\ listener
  /\ TellListener(p, flags)
  /\ UNCHANGED <<m3dBuffers, flat, controls, immediate, deferred, dirty, source,
                 listener, lDeferred, lDirty>>
  /\ Bounded'

SetListenerDeferred(p, flags) ==
  /\ listener
  /\ lDeferred' = Overlaid(lDeferred, p, flags)
  /\ lDirty' = lDirty \cup flags
  /\ UNCHANGED <<buffers, listener, lImmediate, lAl>>
  /\ Bounded'

SetListenerParams(p, flags) ==
  \/ SetListenerNow(p, flags) /\ AsksToSet("Set", Listener, p, flags)
  \/ SetListenerDeferred(p, flags) /\ AsksToSet("Defer", Listener, p, flags)

SetListener ==
  \/ \E f \in ListenerFields, v \in Values :
       SetListenerParams([lImmediate EXCEPT ![f] = v], {f})
  \/ \E p \in ListenerParams : SetListenerParams(p, ListenerFields)

\* PrimaryBuffer::commit: the listener's setParams, with the loop over
\* m3dBuffers, and then that of each buffer, with the new rolloff factor.
Commit ==
  LET committed == [b \in Buffers |-> Overlaid(immediate[b], deferred[b], dirty[b])]
      told == IF "Rolloff" \in lDirty THEN WithRolloff(lDeferred["Rolloff"]) ELSE al
  IN /\ lImmediate' = Overlaid(lImmediate, lDeferred, lDirty)
     /\ lAl' = Overlaid(lAl, lDeferred, lDirty)
     /\ immediate' = committed
     /\ al' = [b \in Buffers |->
                IF source[b] # "Located" THEN al[b]
                ELSE Retold(told[b], deferred[b], committed[b], dirty[b],
                            lImmediate'["Rolloff"])]
     /\ deferred' = [b \in Buffers |-> DefaultParams] /\ lDeferred' = ListenerDefaults
     /\ dirty' = [b \in Buffers |-> {}] /\ lDirty' = {}
     /\ UNCHANGED <<m3dBuffers, flat, controls, listener>>

CommitDeferredSettings == listener /\ Commit /\ UNCHANGED source

\* An EAX property of the listener, set at once.
SetEaxContext == Commit /\ UNCHANGED source

\* An EAX property of a buffer: it gets a source for it, if need be and if
\* OpenAL has one; unless the property is deferred, all else is committed.
SetEaxProperty(b) ==
  /\ b \in m3dBuffers \cup flat
  /\ \/ UNCHANGED source
     \/ source[b] = "None" /\ source' = [source EXCEPT ![b] = "Unmarked"]
  /\ \/ Commit /\ AsksToCommit
     \/ UNCHANGED <<m3dBuffers, flat, controls, immediate, deferred, dirty, al,
                    primary>> /\ AsksOther

Next ==
  \/ \E b \in Buffers :
       \/ CreateBuffer(b) /\ Asks("Create", b)
       \/ DuplicateBuffer(b)
       \/ DestroyBuffer(b) /\ Asks("Destroy", b)
       \/ SetControl(b) /\ AsksOther
       \/ SetLocation(b) /\ AsksOther
       \/ LoseLocation(b) /\ AsksOther
       \/ SetSpatial(b) \/ SetPlain(b) \/ SetMode(b) \/ SetAllParameters(b)
       \/ SetEaxProperty(b)
  \/ InitializePrimary /\ Asks("Create", Listener)
  \/ ReleasePrimary /\ AsksOther
  \/ SetListener
  \/ CommitDeferredSettings /\ AsksToCommit
  \/ SetEaxContext /\ AsksToCommit

Spec == Init /\ [][Next]_vars

-----------------------------------------------------------------------------
(* Parameters have values of their types, and only a buffer that exists    *)
(* has a source or deferred settings.                                      *)
TypeOK ==
  /\ m3dBuffers \subseteq Buffers /\ flat \subseteq Buffers \ m3dBuffers
  /\ controls \in [Buffers -> [Controls -> Values]]
  /\ immediate \in [Buffers -> Params] /\ deferred \in [Buffers -> Params]
  /\ dirty \in [Buffers -> SUBSET Fields]
  /\ source \in [Buffers -> {"None", "Unmarked", "Located"}]
  /\ \A b \in Buffers \ m3dBuffers : dirty[b] = {} /\ (b \notin flat => source[b] = "None")
  /\ \A b \in Buffers : DOMAIN al[b] = AlFields
  /\ listener \in BOOLEAN
  /\ lImmediate \in ListenerParams /\ lDeferred \in ListenerParams
  /\ lDirty \subseteq ListenerFields

(* Whatever was set at once, deferred and committed, and in whatever order *)
(* with sources coming, going and changing their mode: OpenAL has for each *)
(* source that has a location exactly what setLocation would tell a new    *)
(* one, of the parameters and controls in effect and the listener's        *)
(* rolloff factor, which no flat buffer takes part in; and for the         *)
(* listener the parameters in effect, once it was told any.                *)
AlFollowsImmediate ==
  /\ \A b \in Buffers :
       source[b] = "Located" => al[b] = ToldAll(b)
  /\ \A f \in Listening : lAl[f] # Nothing => lAl[f] = lImmediate[f]

(* The parameters in effect and those that are dirty are what the calls of *)
(* the application made of them, as the current and the pending settings   *)
(* of DeferredSettings: a setting that is deferred has no effect before    *)
(* the commit, whatever is set at once, relocated, duplicated or released  *)
(* in between; none is lost before it, not even one of a listener that the *)
(* application does not hold, and one commit is enough for everything.     *)
Objects == Buffers \cup {Listener}
Settings == INSTANCE DeferredSettings WITH
  Fields <- [o \in Objects |-> IF o = Listener THEN ListenerFields ELSE Fields],
  Defaults <- [o \in Objects |->
    IF o = Listener THEN ListenerDefaults ELSE DefaultParams],
  current <- [o \in Objects |-> IF o = Listener THEN lImmediate ELSE immediate[o]],
  pending <- [o \in Objects |->
    IF o = Listener
    THEN [f \in ListenerFields |-> IF f \in lDirty THEN lDeferred[f] ELSE Nothing]
    ELSE [f \in Fields |-> IF f \in dirty[o] THEN deferred[o][f] ELSE Nothing]]

ImplementsSettings == Settings!Spec
=============================================================================
