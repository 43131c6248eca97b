---------------------------- MODULE Params3DProofs ----------------------------
(***************************************************************************)
(* Proofs about Params3D, for any number of buffers, parameters and        *)
(* values.                                                                 *)
(***************************************************************************)
EXTENDS Params3D, TLAPS

(* What OpenAL was told is a value of each of its parameters, or nothing   *)
(* yet.                                                                    *)
AlValues == Values \cup {Parked, Nothing} \cup BOOLEAN
AlTypes ==
  /\ al \in [Buffers -> [AlFields -> AlValues]]
  /\ lAl \in [Listening -> Values \cup {Nothing}]

(* The inductive invariant.                                                *)
IInv == TypeOK /\ AlTypes /\ AlFollowsImmediate

-----------------------------------------------------------------------------
(* Parameters.                                                             *)

LEMMA FieldsDiffer ==
  /\ "Mode" \notin Spatial \cup Plain /\ "Rolloff" \notin Spatial \cup Plain
  /\ "Relative" \notin Spatial \cup Plain
  /\ Controls \cap (Moded \cup Plain) = {} /\ Spatial \cap Plain = {}
  /\ "Rolloff" \notin Listening
BY FieldsAssumption DEF Controls, Moded

LEMMA IsParams ==
  ASSUME NEW p
  PROVE  p \in Params <=> /\ p = [f \in Fields |-> p[f]]
                          /\ p["Mode"] \in Modes
                          /\ \A f \in Spatial \cup Plain : p[f] \in Values
BY FieldsDiffer DEF Params, Fields

LEMMA Defaults ==
  /\ DefaultParams \in Params /\ ListenerDefaults \in ListenerParams
  /\ DefaultControls \in [Controls -> Values]
<1>1. DefaultParams \in Params
  BY IsParams, FieldsDiffer, ValuesAssumption DEF DefaultParams, Fields, Modes
<1> QED BY <1>1, ValuesAssumption DEF ListenerDefaults, ListenerParams, DefaultControls

\* A set of parameters laid over another.
LEMMA OverlaidParams ==
  ASSUME NEW old \in Params, NEW new \in Params, NEW flags
  PROVE  /\ Overlaid(old, new, flags) \in Params
         /\ \A f \in Fields :
              Overlaid(old, new, flags)[f] = IF f \in flags THEN new[f] ELSE old[f]
<1> DEFINE p == Overlaid(old, new, flags)
<1>1. /\ DOMAIN old = Fields
      /\ old["Mode"] \in Modes /\ new["Mode"] \in Modes
      /\ \A f \in Spatial \cup Plain : old[f] \in Values /\ new[f] \in Values
  BY IsParams
<1>2. p = [f \in Fields |-> IF f \in flags THEN new[f] ELSE old[f]]
  BY <1>1 DEF Overlaid
<1>3. /\ p["Mode"] \in Modes /\ \A f \in Spatial \cup Plain : p[f] \in Values
      /\ p = [f \in Fields |-> p[f]]
  BY <1>1, <1>2 DEF Fields
<1>4. p \in Params
  BY <1>3, IsParams
<1> QED BY <1>2, <1>4

LEMMA OverlaidListener ==
  ASSUME NEW old \in ListenerParams, NEW new \in ListenerParams, NEW flags
  PROVE  /\ Overlaid(old, new, flags) \in ListenerParams
         /\ \A f \in ListenerFields :
              Overlaid(old, new, flags)[f] = IF f \in flags THEN new[f] ELSE old[f]
BY DEF Overlaid, ListenerParams

LEMMA ParamsExcept ==
  ASSUME NEW p \in Params
  PROVE  /\ \A f \in Spatial \cup Plain, v \in Values : [p EXCEPT ![f] = v] \in Params
         /\ \A m \in Modes : [p EXCEPT !["Mode"] = m] \in Params
<1>1. ASSUME NEW f \in Spatial \cup Plain, NEW v \in Values
      PROVE  [p EXCEPT ![f] = v] \in Params
  BY <1>1, IsParams, FieldsDiffer DEF Fields
<1>2. ASSUME NEW m \in Modes
      PROVE  [p EXCEPT !["Mode"] = m] \in Params
  BY <1>2, IsParams, FieldsDiffer DEF Fields
<1> QED BY <1>1, <1>2

\* The setters set some parameters, at once or deferred.
SetSome(b) ==
  \E p \in Params, flags \in SUBSET Fields : SetParams(b, p, flags)

SetListenerSome ==
  \E p \in ListenerParams, flags \in SUBSET ListenerFields :
    SetListenerParams(p, flags)

LEMMA SettersSetSome ==
  ASSUME TypeOK, NEW b \in Buffers,
         SetSpatial(b) \/ SetPlain(b) \/ SetMode(b) \/ SetAllParameters(b)
  PROVE  SetSome(b)
<1>1. immediate[b] \in Params
  BY DEF TypeOK
<1>2. CASE SetSpatial(b)
  BY <1>1, <1>2, ParamsExcept DEF SetSpatial, SetSome, Fields
<1>3. CASE SetPlain(b)
  BY <1>1, <1>3, ParamsExcept DEF SetPlain, SetSome, Fields
<1>4. CASE SetMode(b)
  BY <1>1, <1>4, ParamsExcept DEF SetMode, SetSome, Fields
<1>5. CASE SetAllParameters(b)
  BY <1>5 DEF SetAllParameters, SetSome
<1> QED BY <1>2, <1>3, <1>4, <1>5

LEMMA ListenerSettersSetSome ==
  ASSUME TypeOK, SetListener
  PROVE  SetListenerSome
<1>1. CASE \E f \in ListenerFields, v \in Values :
             SetListenerParams([lImmediate EXCEPT ![f] = v], {f})
  <2>1. PICK f \in ListenerFields, v \in Values :
               SetListenerParams([lImmediate EXCEPT ![f] = v], {f})
    BY <1>1
  <2>2. [lImmediate EXCEPT ![f] = v] \in ListenerParams /\ {f} \in SUBSET ListenerFields
    BY DEF TypeOK, ListenerParams
  <2> QED BY <2>1, <2>2 DEF SetListenerSome
<1>2. CASE \E p \in ListenerParams : SetListenerParams(p, ListenerFields)
  BY <1>2 DEF SetListenerSome
<1> QED BY <1>1, <1>2 DEF SetListener

-----------------------------------------------------------------------------
(* What OpenAL is told.                                                    *)

LEMMA ToldValues ==
  ASSUME NEW p \in Params, NEW rolloff \in Values
  PROVE  \A f \in Moded \cup Plain : Told(p, rolloff)[f] \in AlValues
BY IsParams, ValuesAssumption DEF Told, AlValues, Moded

\* ToldAll of any flat buffers, controls, parameters and rolloff factor.
ToldOf(b, flats, c, p, rolloff) ==
  [f \in AlFields |->
    IF f \in Controls
    THEN IF f = "Pan" /\ b \notin flats THEN Nothing ELSE c[f]
    ELSE IF b \notin flats THEN Told(p, rolloff)[f]
    ELSE IF f = "Rolloff" THEN Zero
    ELSE IF f = "Relative" THEN TRUE
    ELSE Nothing]

LEMMA ToldAllOf ==
  ASSUME NEW b \in Buffers
  PROVE  /\ ToldAll(b) =
              ToldOf(b, flat, controls[b], immediate[b], lImmediate["Rolloff"])
         /\ ToldAll(b)' =
              ToldOf(b, flat', controls'[b], immediate'[b], lImmediate'["Rolloff"])
BY DEF ToldAll, ToldOf

LEMMA ToldOfValues ==
  ASSUME NEW b, NEW flats, NEW c \in [Controls -> Values], NEW p \in Params,
         NEW rolloff \in Values
  PROVE  ToldOf(b, flats, c, p, rolloff) \in [AlFields -> AlValues]
<1> DEFINE told == ToldOf(b, flats, c, p, rolloff)
<1>1. \A f \in Moded \cup Plain : Told(p, rolloff)[f] \in AlValues
  BY ToldValues
<1>2. ASSUME NEW f \in AlFields
      PROVE  told[f] \in AlValues
  <2>1. CASE f \in Controls
    BY <2>1 DEF ToldOf, AlValues
  <2>2. CASE f \notin Controls
    <3>1. f \in Moded \cup Plain
      BY <2>2 DEF AlFields
    <3> QED BY <1>1, <2>2, <3>1, ValuesAssumption DEF ToldOf, AlValues
  <2> QED BY <2>1, <2>2
<1>3. told = [f \in AlFields |-> told[f]]
  BY DEF ToldOf
<1> QED BY <1>2, <1>3

LEMMA RetoldValues ==
  ASSUME NEW told \in [AlFields -> AlValues], NEW p \in Params, NEW i \in Params,
         NEW flags \in SUBSET Fields, NEW rolloff \in Values
  PROVE  /\ Retold(told, p, i, flags, rolloff) \in [AlFields -> AlValues]
         /\ \A f \in Controls : Retold(told, p, i, flags, rolloff)[f] = told[f]
<1> DEFINE r == Retold(told, p, i, flags, rolloff)
<1>1. \A f \in Moded \cup Plain : Told(i, rolloff)[f] \in AlValues
  BY ToldValues
<1>2. \A f \in Spatial \cup Plain : p[f] \in AlValues
  BY IsParams DEF AlValues
<1>3. r = [f \in AlFields |-> r[f]]
  BY DEF Retold
<1>4. ASSUME NEW f \in AlFields
      PROVE  r[f] \in AlValues
  BY <1>1, <1>2, <1>4 DEF Retold
<1>5. \A f \in Controls : r[f] = told[f]
  BY FieldsDiffer DEF Retold, AlFields, Moded
<1> QED BY <1>3, <1>4, <1>5

\* A source that was told all of the parameters i, and is then told of those
\* that are set, was told all of the new ones.
LEMMA RetoldFollows ==
  ASSUME NEW told \in [AlFields -> AlValues], NEW p \in Params, NEW i \in Params,
         NEW flags \in SUBSET Fields, NEW rolloff \in Values,
         \A f \in Moded \cup Plain : told[f] = Told(i, rolloff)[f]
  PROVE  \A f \in Moded \cup Plain :
           Retold(told, p, Overlaid(i, p, flags), flags, rolloff)[f]
             = Told(Overlaid(i, p, flags), rolloff)[f]
<1> DEFINE q == Overlaid(i, p, flags)
           r == Retold(told, p, q, flags, rolloff)
<1>1. /\ q \in Params
      /\ \A f \in Fields : q[f] = IF f \in flags THEN p[f] ELSE i[f]
  BY OverlaidParams
<1> SUFFICES \A f \in Moded \cup Plain : r[f] = Told(q, rolloff)[f]
  OBVIOUS
<1> HIDE DEF q
<1> TAKE f \in Moded \cup Plain
<1>2. f \in AlFields
  BY DEF AlFields
<1>3. CASE f \in Plain
  <2>1. f \notin Moded /\ f \notin Spatial /\ f \in Fields
    BY <1>3, FieldsDiffer DEF Moded, Fields
  <2> QED BY <1>1, <1>2, <1>3, <2>1 DEF Retold, Told
<1>4. CASE f \notin Plain /\ "Mode" \in flags
  BY <1>2, <1>4 DEF Retold
<1>5. CASE f \notin Plain /\ "Mode" \notin flags
  <2>1. q["Mode"] = i["Mode"]
    BY <1>1, <1>5 DEF Fields
  <2>2. CASE f \in Spatial
    BY <1>1, <1>2, <1>5, <2>1, <2>2 DEF Retold, Told, Fields
  <2>3. CASE f \notin Spatial
    BY <1>2, <1>5, <2>1, <2>3 DEF Retold, Told
  <2> QED BY <2>2, <2>3
<1> QED BY <1>3, <1>4, <1>5

-----------------------------------------------------------------------------
(* The invariant, action by action.                                        *)

Follows(b) == source[b] = "Located" => al[b] = ToldAll(b)

LEMMA InitIInv == Init => IInv
<1> SUFFICES ASSUME Init PROVE IInv
  OBVIOUS
<1>1. TypeOK
  <2>1. /\ controls \in [Buffers -> [Controls -> Values]]
        /\ immediate \in [Buffers -> Params] /\ deferred \in [Buffers -> Params]
        /\ lDeferred \in ListenerParams
    BY Defaults DEF Init
  <2>2. lImmediate \in ListenerParams
    BY ValuesAssumption DEF Init, ListenerParams
  <2>3. \A b \in Buffers : DOMAIN al[b] = AlFields
    BY DEF Init, FreshSource
  <2> QED BY <2>1, <2>2, <2>3 DEF Init, TypeOK
<1>2. AlTypes
  BY DEF Init, AlTypes, AlValues, FreshSource
<1>3. AlFollowsImmediate
  BY DEF Init, AlFollowsImmediate
<1> QED BY <1>1, <1>2, <1>3 DEF IInv

\* A buffer that the call does not change.
LEMMA FollowsKept ==
  ASSUME IInv, NEW b \in Buffers,
         al'[b] = al[b], source'[b] = source[b],
         controls'[b] = controls[b], immediate'[b] = immediate[b],
         b \in flat' <=> b \in flat, lImmediate'["Rolloff"] = lImmediate["Rolloff"]
  PROVE  Follows(b)'
<1>1. ToldAll(b)' = ToldAll(b)
  BY DEF ToldAll
<1> QED BY <1>1 DEF Follows, IInv, AlFollowsImmediate

\* A call that changes nothing of the listener.
LEMMA PrimaryKept ==
  ASSUME IInv, UNCHANGED primary, TypeOK', \A b \in Buffers : Follows(b)',
         al' \in [Buffers -> [AlFields -> AlValues]]
  PROVE  IInv'
<1>1. AlTypes'
  BY DEF IInv, AlTypes, primary
<1>2. AlFollowsImmediate'
  BY DEF IInv, AlFollowsImmediate, Follows, primary
<1> QED BY <1>1, <1>2 DEF IInv

\* The domain of what TypeOK says of al.
LEMMA AlDomain ==
  ASSUME al' \in [Buffers -> [AlFields -> AlValues]]
  PROVE  \A b \in Buffers : DOMAIN al'[b] = AlFields
OBVIOUS

LEMMA FirstLocationIInv ==
  ASSUME IInv, NEW b \in Buffers, FirstLocation(b), UNCHANGED primary,
         source[b] = "None",
         controls'[b] \in [Controls -> Values], immediate'[b] \in Params,
         \A c \in Buffers \ {b} : /\ controls'[c] = controls[c]
                                  /\ immediate'[c] = immediate[c]
                                  /\ c \in flat' <=> c \in flat
  PROVE  /\ source' \in [Buffers -> {"None", "Unmarked", "Located"}]
         /\ \A c \in Buffers \ {b} : source'[c] = source[c]
         /\ al' \in [Buffers -> [AlFields -> AlValues]]
         /\ \A c \in Buffers : Follows(c)'
<1>1. /\ source \in [Buffers -> {"None", "Unmarked", "Located"}]
      /\ al \in [Buffers -> [AlFields -> AlValues]]
      /\ lImmediate' = lImmediate /\ lImmediate["Rolloff"] \in Values
  BY DEF IInv, TypeOK, AlTypes, primary, ListenerParams, ListenerFields
<1>0. ToldAll(b)' \in [AlFields -> AlValues]
  <2>1. ToldAll(b)' = ToldOf(b, flat', controls'[b], immediate'[b], lImmediate'["Rolloff"])
    BY ToldAllOf
  <2>2. lImmediate'["Rolloff"] \in Values
    BY <1>1
  <2> QED BY <2>1, <2>2, ToldOfValues
<1>2. /\ source' \in [Buffers -> {"None", "Unmarked", "Located"}]
      /\ al' \in [Buffers -> [AlFields -> AlValues]]
      /\ \A c \in Buffers \ {b} : source'[c] = source[c] /\ al'[c] = al[c]
  BY <1>0, <1>1 DEF FirstLocation
<1>3. ASSUME NEW c \in Buffers, c # b PROVE Follows(c)'
  BY <1>1, <1>2, <1>3, FollowsKept
<1>4. Follows(b)'
  BY <1>1 DEF FirstLocation, Follows
<1> QED BY <1>2, <1>3, <1>4

LEMMA CreateBufferIInv ==
  ASSUME IInv, NEW b \in Buffers, CreateBuffer(b)
  PROVE  IInv'
<1>1. /\ b \notin m3dBuffers \cup flat /\ source[b] = "None"
      /\ \/ m3dBuffers' = m3dBuffers \cup {b} /\ flat' = flat
         \/ flat' = flat \cup {b} /\ m3dBuffers' = m3dBuffers
      /\ controls' = controls /\ immediate' = immediate /\ deferred' = deferred
      /\ dirty' = dirty /\ UNCHANGED primary
  BY DEF CreateBuffer, IInv, TypeOK
<1>2. /\ m3dBuffers' \subseteq Buffers /\ flat' \subseteq Buffers \ m3dBuffers'
      /\ \A c \in Buffers \ {b} : /\ c \in flat' <=> c \in flat
                                  /\ c \in m3dBuffers' <=> c \in m3dBuffers
  BY <1>1 DEF IInv, TypeOK
<1>3. controls[b] \in [Controls -> Values] /\ immediate[b] \in Params
  BY DEF IInv, TypeOK
<1>4. /\ source' \in [Buffers -> {"None", "Unmarked", "Located"}]
      /\ \A c \in Buffers \ {b} : source'[c] = source[c]
      /\ al' \in [Buffers -> [AlFields -> AlValues]]
      /\ \A c \in Buffers : Follows(c)'
  BY <1>1, <1>2, <1>3, FirstLocationIInv DEF CreateBuffer
<1>5. TypeOK'
  BY <1>1, <1>2, <1>4, AlDomain DEF IInv, TypeOK, primary
<1> QED BY <1>1, <1>4, <1>5, PrimaryKept

LEMMA DuplicateBufferIInv ==
  ASSUME IInv, NEW b \in Buffers, DuplicateBuffer(b)
  PROVE  IInv'
<1>1. PICK o \in m3dBuffers \cup flat :
        /\ m3dBuffers' = IF o \in flat THEN m3dBuffers ELSE m3dBuffers \cup {b}
        /\ flat' = IF o \in flat THEN flat \cup {b} ELSE flat
        /\ controls' = [controls EXCEPT ![b] = [controls[o] EXCEPT !["Volume"] = Default]]
        /\ immediate' = [immediate EXCEPT ![b] = immediate[o]]
  BY DEF DuplicateBuffer
<1>2. /\ b \notin m3dBuffers \cup flat /\ source[b] = "None" /\ o \in Buffers
      /\ deferred' = deferred /\ dirty' = dirty /\ UNCHANGED primary
      /\ FirstLocation(b)
  BY DEF DuplicateBuffer, IInv, TypeOK
<1>3. /\ m3dBuffers' \subseteq Buffers /\ flat' \subseteq Buffers \ m3dBuffers'
      /\ b \in m3dBuffers' \cup flat'
      /\ \A c \in Buffers \ {b} : /\ c \in flat' <=> c \in flat
                                  /\ c \in m3dBuffers' <=> c \in m3dBuffers
  BY <1>1, <1>2 DEF IInv, TypeOK
<1>4. /\ controls' \in [Buffers -> [Controls -> Values]]
      /\ immediate' \in [Buffers -> Params]
      /\ \A c \in Buffers \ {b} : /\ controls'[c] = controls[c]
                                  /\ immediate'[c] = immediate[c]
  <2>1. /\ controls \in [Buffers -> [Controls -> Values]]
        /\ immediate \in [Buffers -> Params] /\ Default \in Values
    BY ValuesAssumption DEF IInv, TypeOK
  <2>2. [controls[o] EXCEPT !["Volume"] = Default] \in [Controls -> Values]
    BY <1>2, <2>1
  <2> QED BY <1>1, <1>2, <2>1, <2>2
<1>5. /\ source' \in [Buffers -> {"None", "Unmarked", "Located"}]
      /\ \A c \in Buffers \ {b} : source'[c] = source[c]
      /\ al' \in [Buffers -> [AlFields -> AlValues]]
      /\ \A c \in Buffers : Follows(c)'
  <2>1. \A c \in Buffers \ {b} : /\ controls'[c] = controls[c]
                                 /\ immediate'[c] = immediate[c]
                                 /\ c \in flat' <=> c \in flat
    BY <1>3, <1>4
  <2>2. controls'[b] \in [Controls -> Values] /\ immediate'[b] \in Params
    BY <1>4
  <2> QED BY <1>2, <2>1, <2>2, FirstLocationIInv
<1>6. \A c \in Buffers \ m3dBuffers' :
        dirty'[c] = {} /\ (c \notin flat' => source'[c] = "None")
  <2> SUFFICES ASSUME NEW c \in Buffers \ m3dBuffers'
               PROVE  dirty'[c] = {} /\ (c \notin flat' => source'[c] = "None")
    OBVIOUS
  <2>1. c \notin m3dBuffers
    BY <1>1
  <2>2. dirty'[c] = {}
    BY <1>2, <2>1 DEF IInv, TypeOK
  <2>3. CASE c \in flat'
    BY <2>2, <2>3
  <2>4. CASE c \notin flat'
    <3>1. c # b /\ c \notin flat
      BY <1>3, <2>4
    <3>2. source'[c] = source[c] /\ source[c] = "None"
      BY <1>5, <2>1, <3>1 DEF IInv, TypeOK
    <3> QED BY <2>2, <3>2
  <2> QED BY <2>3, <2>4
<1>7. TypeOK'
  <2>1. /\ deferred' \in [Buffers -> Params] /\ dirty' \in [Buffers -> SUBSET Fields]
        /\ listener' \in BOOLEAN /\ lImmediate' \in ListenerParams
        /\ lDeferred' \in ListenerParams /\ lDirty' \subseteq ListenerFields
    BY <1>2 DEF IInv, TypeOK, primary
  <2> QED BY <1>3, <1>4, <1>5, <1>6, <2>1, AlDomain DEF TypeOK
<1> QED BY <1>2, <1>5, <1>7, PrimaryKept

LEMMA SetLocationIInv ==
  ASSUME IInv, NEW b \in Buffers, SetLocation(b)
  PROVE  IInv'
<1>1. /\ b \in m3dBuffers \cup flat
      /\ source' = [source EXCEPT ![b] = "Located"]
      /\ al' = [al EXCEPT ![b] = ToldAll(b)]
      /\ UNCHANGED <<m3dBuffers, flat, controls, immediate, deferred, dirty>>
      /\ UNCHANGED primary
  BY DEF SetLocation
<1>2. /\ source \in [Buffers -> {"None", "Unmarked", "Located"}]
      /\ al \in [Buffers -> [AlFields -> AlValues]]
      /\ controls[b] \in [Controls -> Values] /\ immediate[b] \in Params
      /\ lImmediate' = lImmediate /\ lImmediate["Rolloff"] \in Values
  BY <1>1 DEF IInv, TypeOK, AlTypes, primary, ListenerParams, ListenerFields
<1>3. ToldAll(b) \in [AlFields -> AlValues]
  <2>1. ToldAll(b) = ToldOf(b, flat, controls[b], immediate[b], lImmediate["Rolloff"])
    BY ToldAllOf
  <2>2. ToldOf(b, flat, controls[b], immediate[b], lImmediate["Rolloff"])
          \in [AlFields -> AlValues]
    BY <1>2, ToldOfValues, Zenon
  <2> QED BY <2>1, <2>2
<1>4. al' \in [Buffers -> [AlFields -> AlValues]]
  BY <1>1, <1>2, <1>3
<1>5. ASSUME NEW c \in Buffers, c # b PROVE Follows(c)'
  BY <1>1, <1>2, <1>5, FollowsKept
<1>6. Follows(b)'
  <2>1. ToldAll(b)' = ToldAll(b)
    BY <1>1, <1>2 DEF ToldAll
  <2> QED BY <1>1, <1>2, <2>1 DEF Follows
<1>7. TypeOK'
  BY <1>1, <1>2, <1>4, AlDomain DEF IInv, TypeOK, primary
<1> QED BY <1>1, <1>4, <1>5, <1>6, <1>7, PrimaryKept

LEMMA FreshValues == FreshSource \in [AlFields -> AlValues]
BY DEF FreshSource, AlValues

LEMMA LoseLocationIInv ==
  ASSUME IInv, NEW b \in Buffers, LoseLocation(b)
  PROVE  IInv'
<1>1. /\ source' = [source EXCEPT ![b] = "None"]
      /\ al' = [al EXCEPT ![b] = FreshSource]
      /\ UNCHANGED <<m3dBuffers, flat, controls, immediate, deferred, dirty>>
      /\ UNCHANGED primary
  BY DEF LoseLocation
<1>2. /\ source \in [Buffers -> {"None", "Unmarked", "Located"}]
      /\ al \in [Buffers -> [AlFields -> AlValues]]
      /\ lImmediate' = lImmediate
  BY <1>1 DEF IInv, TypeOK, AlTypes, primary
<1>3. al' \in [Buffers -> [AlFields -> AlValues]]
  BY <1>1, <1>2, FreshValues
<1>4. ASSUME NEW c \in Buffers, c # b PROVE Follows(c)'
  BY <1>1, <1>2, <1>4, FollowsKept
<1>5. Follows(b)'
  BY <1>1, <1>2 DEF Follows
<1>6. TypeOK'
  BY <1>1, <1>2, <1>3, AlDomain DEF IInv, TypeOK, primary
<1> QED BY <1>1, <1>3, <1>4, <1>5, <1>6, PrimaryKept

LEMMA DestroyBufferIInv ==
  ASSUME IInv, NEW b \in Buffers, DestroyBuffer(b)
  PROVE  IInv'
<1>1. /\ m3dBuffers' = m3dBuffers \ {b} /\ flat' = flat \ {b}
      /\ controls' = [controls EXCEPT ![b] = DefaultControls]
      /\ source' = [source EXCEPT ![b] = "None"]
      /\ al' = [al EXCEPT ![b] = FreshSource]
      /\ immediate' = [immediate EXCEPT ![b] = DefaultParams]
      /\ deferred' = [deferred EXCEPT ![b] = DefaultParams]
      /\ dirty' = [dirty EXCEPT ![b] = {}]
      /\ UNCHANGED primary
  BY DEF DestroyBuffer
<1>2. /\ source \in [Buffers -> {"None", "Unmarked", "Located"}]
      /\ al \in [Buffers -> [AlFields -> AlValues]]
      /\ controls \in [Buffers -> [Controls -> Values]]
      /\ immediate \in [Buffers -> Params] /\ deferred \in [Buffers -> Params]
      /\ dirty \in [Buffers -> SUBSET Fields]
      /\ lImmediate' = lImmediate
  BY <1>1 DEF IInv, TypeOK, AlTypes, primary
<1>3. al' \in [Buffers -> [AlFields -> AlValues]]
  BY <1>1, <1>2, FreshValues
<1>4. ASSUME NEW c \in Buffers, c # b PROVE Follows(c)'
  BY <1>1, <1>2, <1>4, FollowsKept
<1>5. Follows(b)'
  BY <1>1, <1>2 DEF Follows
<1>6. /\ controls' \in [Buffers -> [Controls -> Values]]
      /\ immediate' \in [Buffers -> Params] /\ deferred' \in [Buffers -> Params]
      /\ dirty' \in [Buffers -> SUBSET Fields]
      /\ source' \in [Buffers -> {"None", "Unmarked", "Located"}]
  BY <1>1, <1>2, Defaults
<1>7. \A c \in Buffers \ m3dBuffers' :
        dirty'[c] = {} /\ (c \notin flat' => source'[c] = "None")
  BY <1>1, <1>2 DEF IInv, TypeOK
<1>8. TypeOK'
  BY <1>1, <1>3, <1>6, <1>7, AlDomain DEF IInv, TypeOK, primary
<1> QED BY <1>1, <1>3, <1>4, <1>5, <1>8, PrimaryKept

-----------------------------------------------------------------------------
(* The setters.                                                            *)

\* What the source of a 3D buffer was told, one parameter at a time.
LEMMA ToldOf3D ==
  ASSUME NEW x \in [AlFields -> AlValues], NEW b, NEW flats, b \notin flats,
         NEW c, NEW p, NEW rolloff
  PROVE  x = ToldOf(b, flats, c, p, rolloff) <=>
           /\ \A f \in Moded \cup Plain : x[f] = Told(p, rolloff)[f]
           /\ \A f \in Controls : x[f] = IF f = "Pan" THEN Nothing ELSE c[f]
<1> DEFINE t == ToldOf(b, flats, c, p, rolloff)
<1>1. /\ t = [f \in AlFields |-> t[f]]
      /\ \A f \in Moded \cup Plain : t[f] = Told(p, rolloff)[f]
      /\ \A f \in Controls : t[f] = IF f = "Pan" THEN Nothing ELSE c[f]
  BY FieldsDiffer DEF ToldOf, AlFields
<1> HIDE DEF t
<1>2. x = [f \in AlFields |-> x[f]]
  OBVIOUS
<1>3. ASSUME \A f \in Moded \cup Plain : x[f] = Told(p, rolloff)[f],
             \A f \in Controls : x[f] = IF f = "Pan" THEN Nothing ELSE c[f]
      PROVE  x = t
  <2>1. \A f \in AlFields : x[f] = t[f]
    BY <1>1, <1>3 DEF AlFields
  <2> QED BY <1>1, <1>2, <2>1
<1> QED BY <1>1, <1>3 DEF t

LEMMA SetControlIInv ==
  ASSUME IInv, NEW b \in Buffers, SetControl(b)
  PROVE  IInv'
<1>1. PICK f \in Controls, v \in Values :
        /\ controls' = [controls EXCEPT ![b][f] = v]
        /\ al' = IF source[b] # "Located" \/ (f = "Pan" /\ b \in m3dBuffers) THEN al
                 ELSE [al EXCEPT ![b][f] = v]
  BY DEF SetControl
<1>2. /\ b \in m3dBuffers \cup flat /\ (b \in m3dBuffers => b \notin flat)
      /\ UNCHANGED <<m3dBuffers, flat, immediate, deferred, dirty, source>>
      /\ UNCHANGED primary
      /\ controls \in [Buffers -> [Controls -> Values]]
      /\ al \in [Buffers -> [AlFields -> AlValues]]
      /\ lImmediate' = lImmediate
  BY DEF SetControl, IInv, TypeOK, AlTypes, primary
<1>3. f \in AlFields /\ v \in AlValues
  BY DEF AlFields, AlValues
<1>4. al' \in [Buffers -> [AlFields -> AlValues]]
  BY <1>1, <1>2, <1>3
<1>5. controls' \in [Buffers -> [Controls -> Values]]
  BY <1>1, <1>2
<1>6. ASSUME NEW c \in Buffers, c # b PROVE Follows(c)'
  BY <1>1, <1>2, <1>6, FollowsKept
<1>7. Follows(b)'
  <2> SUFFICES ASSUME source[b] = "Located" PROVE al'[b] = ToldAll(b)'
    BY <1>2 DEF Follows
  <2>1. al[b] = ToldAll(b)
    BY DEF IInv, AlFollowsImmediate
  <2>2. CASE f = "Pan" /\ b \in m3dBuffers
    <3>1. controls'[b] = [controls[b] EXCEPT !["Pan"] = v]
      BY <1>1, <1>2, <2>2
    <3>2. ToldAll(b)' = ToldAll(b)
      BY <1>2, <2>2, <3>1 DEF ToldAll, Controls
    <3> QED BY <1>1, <2>1, <2>2, <3>2
  <2>3. CASE ~(f = "Pan" /\ b \in m3dBuffers)
    <3>1. controls'[b] = [controls[b] EXCEPT ![f] = v]
      BY <1>1, <1>2
    <3>2. al'[b] = [g \in AlFields |-> IF g = f THEN v ELSE al[b][g]]
      BY <1>1, <1>2, <2>3
    <3>3. \A g \in AlFields : ToldAll(b)'[g] = IF g = f THEN v ELSE ToldAll(b)[g]
      <4> TAKE g \in AlFields
      <4>1. CASE g = f
        <5>1. controls'[b][g] = v
          BY <1>2, <3>1, <4>1
        <5>2. ~(g = "Pan" /\ b \notin flat)
          BY <1>2, <2>3, <4>1
        <5> QED BY <1>2, <4>1, <5>1, <5>2 DEF ToldAll
      <4>2. CASE g # f
        <5>1. g \in Controls => controls'[b][g] = controls[b][g]
          BY <1>2, <3>1, <4>2
        <5> QED BY <1>2, <4>2, <5>1 DEF ToldAll
      <4> QED BY <4>1, <4>2
    <3>4. ToldAll(b)' = [g \in AlFields |-> ToldAll(b)'[g]]
      BY DEF ToldAll
    <3> QED BY <2>1, <3>2, <3>3, <3>4
  <2> QED BY <2>2, <2>3
<1>8. TypeOK'
  BY <1>2, <1>4, <1>5, AlDomain DEF IInv, TypeOK, primary
<1> QED BY <1>2, <1>4, <1>6, <1>7, <1>8, PrimaryKept

LEMMA SetNowIInv ==
  ASSUME IInv, NEW b \in Buffers, NEW p \in Params, NEW flags \in SUBSET Fields,
         SetNow(b, p, flags)
  PROVE  IInv'
<1> DEFINE i == immediate[b]
           rolloff == lImmediate["Rolloff"]
           q == Overlaid(i, p, flags)
           r == Retold(al[b], p, q, flags, rolloff)
<1>1. /\ b \in m3dBuffers
      /\ immediate' = [immediate EXCEPT ![b] = q]
      /\ UNCHANGED <<m3dBuffers, flat, controls, deferred, dirty, source>>
      /\ UNCHANGED primary
      /\ al' = [al EXCEPT ![b] = IF source[b] # "Located" THEN al[b] ELSE r]
  BY DEF SetNow, AfterSet
<1>2. /\ b \notin flat
      /\ immediate \in [Buffers -> Params] /\ i \in Params
      /\ al \in [Buffers -> [AlFields -> AlValues]] /\ al[b] \in [AlFields -> AlValues]
      /\ lImmediate' = lImmediate /\ rolloff \in Values
  BY <1>1 DEF IInv, TypeOK, AlTypes, primary, ListenerParams, ListenerFields
<1>3. q \in Params
  BY <1>2, OverlaidParams
<1>4. /\ r \in [AlFields -> AlValues]
      /\ \A f \in Controls : r[f] = al[b][f]
  <2> HIDE DEF q, rolloff
  <2>1. rolloff \in Values /\ al[b] \in [AlFields -> AlValues]
    BY <1>2
  <2>2. r \in [AlFields -> AlValues]
    BY <1>3, <2>1, RetoldValues
  <2>3. ASSUME NEW f \in Controls PROVE r[f] = al[b][f]
    BY <2>3, FieldsDiffer DEF Retold, AlFields, Moded
  <2> QED BY <2>2, <2>3
<1>5. Follows(b)'
  <2> SUFFICES ASSUME source[b] = "Located" PROVE r = ToldAll(b)'
    BY <1>1, <1>2 DEF Follows
  <2>1. al[b] = ToldOf(b, flat, controls[b], i, rolloff)
    BY ToldAllOf DEF IInv, AlFollowsImmediate
  <2>2. /\ \A f \in Moded \cup Plain : al[b][f] = Told(i, rolloff)[f]
        /\ \A f \in Controls : al[b][f] = IF f = "Pan" THEN Nothing ELSE controls[b][f]
    BY <1>2, <2>1, ToldOf3D
  <2>3. \A f \in Moded \cup Plain : r[f] = Told(q, rolloff)[f]
    BY <1>2, <2>2, RetoldFollows
  <2>4. r = ToldOf(b, flat, controls[b], q, rolloff)
    <3>1. r \in [AlFields -> AlValues] /\ b \notin flat
      BY <1>2, <1>4
    <3> HIDE DEF q, r, rolloff
    <3>2. \A f \in Controls : r[f] = IF f = "Pan" THEN Nothing ELSE controls[b][f]
      BY <1>4, <2>2
    <3> QED BY <2>3, <3>1, <3>2, ToldOf3D
  <2>5. ToldAll(b)' = ToldOf(b, flat', controls'[b], immediate'[b], lImmediate'["Rolloff"])
    BY ToldAllOf
  <2> QED BY <1>1, <1>2, <2>4, <2>5
<1> HIDE DEF q, r
<1>6. /\ al' \in [Buffers -> [AlFields -> AlValues]]
      /\ immediate' \in [Buffers -> Params]
  BY <1>1, <1>2, <1>3, <1>4
<1>7. ASSUME NEW c \in Buffers, c # b PROVE Follows(c)'
  BY <1>1, <1>2, <1>7, FollowsKept
<1>8. TypeOK'
  BY <1>1, <1>6, AlDomain DEF IInv, TypeOK, primary
<1> QED BY <1>1, <1>5, <1>6, <1>7, <1>8, PrimaryKept

LEMMA SetDeferredIInv ==
  ASSUME IInv, NEW b \in Buffers, NEW p \in Params, NEW flags \in SUBSET Fields,
         SetDeferred(b, p, flags)
  PROVE  IInv'
<1>1. /\ b \in m3dBuffers
      /\ dirty' = [dirty EXCEPT ![b] = @ \cup flags]
      /\ deferred' = [deferred EXCEPT ![b] = Overlaid(@, p, flags)]
      /\ UNCHANGED <<m3dBuffers, flat, controls, immediate, source, al>>
      /\ UNCHANGED primary /\ lImmediate' = lImmediate
  BY DEF SetDeferred, primary
<1>2. Overlaid(deferred[b], p, flags) \in Params
  BY OverlaidParams DEF IInv, TypeOK
<1>3. ASSUME NEW c \in Buffers PROVE Follows(c)'
  BY <1>1, <1>3, FollowsKept
<1>4. al' \in [Buffers -> [AlFields -> AlValues]]
  BY <1>1 DEF IInv, AlTypes
<1>5. /\ dirty' \in [Buffers -> SUBSET Fields] /\ deferred' \in [Buffers -> Params]
      /\ \A c \in Buffers \ m3dBuffers : dirty'[c] = dirty[c]
  BY <1>1, <1>2 DEF IInv, TypeOK
<1>6. TypeOK'
  BY <1>1, <1>4, <1>5, AlDomain DEF IInv, TypeOK, primary
<1> QED BY <1>1, <1>3, <1>4, <1>6, PrimaryKept

-----------------------------------------------------------------------------
(* The listener and the commit.                                            *)

\* The loop over m3dBuffers tells each source all of a new rolloff factor.
LEMMA WithRolloffFollows ==
  ASSUME IInv, NEW r \in Values
  PROVE  /\ WithRolloff(r) \in [Buffers -> [AlFields -> AlValues]]
         /\ \A b \in Buffers : source[b] = "Located" =>
              WithRolloff(r)[b] = ToldOf(b, flat, controls[b], immediate[b], r)
<1> DEFINE t == WithRolloff(r)
<1>1. /\ al \in [Buffers -> [AlFields -> AlValues]]
      /\ r \in AlValues /\ "Rolloff" \in AlFields
      /\ "Rolloff" \in Moded /\ "Rolloff" \notin Spatial \cup Plain \cup Controls
  BY FieldsDiffer DEF IInv, AlTypes, AlValues, AlFields, Moded
<1>2. t \in [Buffers -> [AlFields -> AlValues]]
  BY <1>1 DEF WithRolloff
<1>3. ASSUME NEW b \in Buffers, source[b] = "Located"
      PROVE  t[b] = ToldOf(b, flat, controls[b], immediate[b], r)
  <2> DEFINE i == immediate[b]
             old == lImmediate["Rolloff"]
  <2>1. /\ al[b] = ToldOf(b, flat, controls[b], i, old)
        /\ b \in m3dBuffers \cup flat /\ (b \in m3dBuffers => b \notin flat)
        /\ al[b] \in [AlFields -> AlValues] /\ t[b] \in [AlFields -> AlValues]
    BY <1>1, <1>2, <1>3, ToldAllOf DEF IInv, AlFollowsImmediate, TypeOK
  <2>2. CASE b \in flat
    <3>1. t[b] = al[b]
      BY <2>1, <2>2 DEF WithRolloff
    <3>2. ToldOf(b, flat, controls[b], i, old) = ToldOf(b, flat, controls[b], i, r)
      BY <2>2 DEF ToldOf
    <3> QED BY <2>1, <3>1, <3>2
  <2>3. CASE b \notin flat
    <3>1. t[b] = IF i["Mode"] # "Disable" THEN [al[b] EXCEPT !["Rolloff"] = r] ELSE al[b]
      BY <1>3, <2>1, <2>3 DEF WithRolloff
    <3>2. /\ \A f \in Moded \cup Plain : al[b][f] = Told(i, old)[f]
          /\ \A f \in Controls : al[b][f] = IF f = "Pan" THEN Nothing ELSE controls[b][f]
      <4> HIDE DEF i, old
      <4> QED BY <2>1, <2>3, ToldOf3D
    <3>3. \A f \in Moded \cup Plain : t[b][f] = Told(i, r)[f]
      <4> HIDE DEF t
      <4> TAKE f \in Moded \cup Plain
      <4>1. CASE f = "Rolloff"
        BY <1>1, <2>1, <3>1, <3>2, <4>1 DEF Told
      <4>2. CASE f # "Rolloff"
        <5>1. t[b][f] = al[b][f]
          BY <2>1, <3>1, <4>2
        <5>2. Told(i, old)[f] = Told(i, r)[f]
          BY <4>2 DEF Told
        <5> QED BY <3>2, <5>1, <5>2
      <4> QED BY <4>1, <4>2
    <3>4. \A f \in Controls : t[b][f] = IF f = "Pan" THEN Nothing ELSE controls[b][f]
      <4> HIDE DEF t
      <4> QED BY <1>1, <2>1, <3>1, <3>2
    <3> HIDE DEF t
    <3> QED BY <2>1, <2>3, <3>3, <3>4, ToldOf3D
  <2> QED BY <2>2, <2>3
<1> QED BY <1>2, <1>3

LEMMA TellListenerIInv ==
  ASSUME IInv, NEW p \in ListenerParams, NEW flags \in SUBSET ListenerFields,
         TellListener(p, flags),
         UNCHANGED <<m3dBuffers, flat, controls, immediate, deferred, dirty, source>>,
         listener' \in BOOLEAN, lDeferred' \in ListenerParams,
         lDirty' \subseteq ListenerFields
  PROVE  IInv'
<1>1. /\ lImmediate' = Overlaid(lImmediate, p, flags)
      /\ lAl' = Overlaid(lAl, p, flags)
      /\ al' = IF "Rolloff" \in flags THEN WithRolloff(p["Rolloff"]) ELSE al
  BY DEF TellListener
<1>2. /\ lImmediate \in ListenerParams /\ lAl \in [Listening -> Values \cup {Nothing}]
      /\ al \in [Buffers -> [AlFields -> AlValues]]
      /\ "Rolloff" \in ListenerFields /\ Listening \subseteq ListenerFields
      /\ p["Rolloff"] \in Values
  BY DEF IInv, TypeOK, AlTypes, ListenerFields, ListenerParams
<1>3. /\ lImmediate' \in ListenerParams
      /\ \A f \in ListenerFields :
           lImmediate'[f] = IF f \in flags THEN p[f] ELSE lImmediate[f]
  BY <1>1, <1>2, OverlaidListener
<1>4. /\ lAl' \in [Listening -> Values \cup {Nothing}]
      /\ \A f \in Listening : lAl'[f] = IF f \in flags THEN p[f] ELSE lAl[f]
  BY <1>1, <1>2 DEF Overlaid, ListenerParams
<1>5. al' \in [Buffers -> [AlFields -> AlValues]]
  BY <1>1, <1>2, WithRolloffFollows
<1>6. ASSUME NEW b \in Buffers, source[b] = "Located"
      PROVE  al'[b] = ToldAll(b)'
  <2>1. ToldAll(b)' = ToldOf(b, flat, controls[b], immediate[b], lImmediate'["Rolloff"])
    BY ToldAllOf
  <2>2. CASE "Rolloff" \in flags
    <3>1. lImmediate'["Rolloff"] = p["Rolloff"]
      BY <1>2, <1>3, <2>2
    <3> QED BY <1>1, <1>2, <1>6, <2>1, <2>2, <3>1, WithRolloffFollows
  <2>3. CASE "Rolloff" \notin flags
    <3>1. lImmediate'["Rolloff"] = lImmediate["Rolloff"]
      BY <1>2, <1>3, <2>3
    <3>2. al[b] = ToldAll(b)
      BY <1>6 DEF IInv, AlFollowsImmediate
    <3> QED BY <1>1, <2>1, <2>3, <3>1, <3>2, ToldAllOf
  <2> QED BY <2>2, <2>3
<1>7. TypeOK'
  BY <1>3, <1>5, AlDomain DEF IInv, TypeOK
<1>8. AlFollowsImmediate'
  <2>1. \A f \in Listening : lAl'[f] # Nothing => lAl'[f] = lImmediate'[f]
    BY <1>2, <1>3, <1>4 DEF IInv, AlFollowsImmediate
  <2> QED BY <1>6, <2>1 DEF AlFollowsImmediate
<1> QED BY <1>4, <1>5, <1>7, <1>8 DEF IInv, AlTypes

LEMMA InitializePrimaryIInv ==
  ASSUME IInv, InitializePrimary
  PROVE  IInv'
BY TellListenerIInv, Defaults DEF InitializePrimary

LEMMA SetListenerIInv ==
  ASSUME IInv, NEW p \in ListenerParams, NEW flags \in SUBSET ListenerFields,
         SetListenerParams(p, flags)
  PROVE  IInv'
<1>1. CASE SetListenerNow(p, flags)
  <2>1. /\ listener' \in BOOLEAN /\ lDeferred' \in ListenerParams
        /\ lDirty' \subseteq ListenerFields
    BY <1>1 DEF SetListenerNow, IInv, TypeOK
  <2> QED BY <1>1, <2>1, TellListenerIInv DEF SetListenerNow
<1>2. CASE SetListenerDeferred(p, flags)
  <2>1. /\ Overlaid(lDeferred, p, flags) \in ListenerParams
        /\ lDirty \cup flags \subseteq ListenerFields
    BY OverlaidListener DEF IInv, TypeOK
  <2>2. /\ UNCHANGED buffers /\ UNCHANGED <<listener, lImmediate, lAl>>
        /\ lDeferred' = Overlaid(lDeferred, p, flags) /\ lDirty' = lDirty \cup flags
    BY <1>2 DEF SetListenerDeferred
  <2>3. TypeOK'
    BY <2>1, <2>2 DEF IInv, TypeOK, buffers
  <2>4. \A b \in Buffers : ToldAll(b)' = ToldAll(b)
    BY <2>2 DEF ToldAll, buffers
  <2>5. AlTypes' /\ AlFollowsImmediate'
    BY <2>2, <2>4 DEF IInv, AlTypes, AlFollowsImmediate, buffers
  <2> QED BY <2>3, <2>5 DEF IInv
<1> QED BY <1>1, <1>2 DEF SetListenerParams

\* A commit, also one by a call that has just made a source for a buffer.
LEMMA CommitIInv ==
  ASSUME IInv, Commit,
         source' \in [Buffers -> {"None", "Unmarked", "Located"}],
         \A b \in Buffers : \/ source'[b] = source[b]
                            \/ source'[b] = "Unmarked" /\ b \in m3dBuffers \cup flat
  PROVE  IInv'
<1> DEFINE committed == [b \in Buffers |-> Overlaid(immediate[b], deferred[b], dirty[b])]
           told == IF "Rolloff" \in lDirty THEN WithRolloff(lDeferred["Rolloff"]) ELSE al
           rolloff == lImmediate'["Rolloff"]
<1>1. /\ lImmediate' = Overlaid(lImmediate, lDeferred, lDirty)
      /\ lAl' = Overlaid(lAl, lDeferred, lDirty)
      /\ immediate' = committed
      /\ deferred' = [b \in Buffers |-> DefaultParams] /\ lDeferred' = ListenerDefaults
      /\ dirty' = [b \in Buffers |-> {}] /\ lDirty' = {}
      /\ UNCHANGED <<m3dBuffers, flat, controls, listener>>
  BY DEF Commit
<1>2. al' = [b \in Buffers |->
              IF source[b] # "Located" THEN al[b]
              ELSE Retold(told[b], deferred[b], committed[b], dirty[b], rolloff)]
  BY DEF Commit
<1>3. /\ lImmediate \in ListenerParams /\ lDeferred \in ListenerParams
      /\ lAl \in [Listening -> Values \cup {Nothing}]
      /\ al \in [Buffers -> [AlFields -> AlValues]]
      /\ "Rolloff" \in ListenerFields /\ Listening \subseteq ListenerFields
      /\ lDeferred["Rolloff"] \in Values
  BY DEF IInv, TypeOK, AlTypes, ListenerFields, ListenerParams
<1>4. /\ lImmediate' \in ListenerParams
      /\ \A f \in ListenerFields :
           lImmediate'[f] = IF f \in lDirty THEN lDeferred[f] ELSE lImmediate[f]
  BY <1>1, <1>3, OverlaidListener
<1>5. /\ lAl' \in [Listening -> Values \cup {Nothing}]
      /\ \A f \in Listening : lAl'[f] = IF f \in lDirty THEN lDeferred[f] ELSE lAl[f]
  BY <1>1, <1>3 DEF Overlaid, ListenerParams
<1>6. rolloff \in Values
  BY <1>3, <1>4 DEF ListenerParams
<1>7. /\ \A b \in Buffers : committed[b] \in Params
      /\ immediate' \in [Buffers -> Params]
  <2>1. ASSUME NEW b \in Buffers
        PROVE  Overlaid(immediate[b], deferred[b], dirty[b]) \in Params
    BY <2>1, OverlaidParams DEF IInv, TypeOK
  <2> QED BY <1>1, <2>1
<1> HIDE DEF rolloff
\* After the loop over m3dBuffers, but for the buffers' own settings.
<1>8. ASSUME NEW b \in Buffers
      PROVE  /\ told[b] \in [AlFields -> AlValues]
             /\ source[b] = "Located" =>
                  told[b] = ToldOf(b, flat, controls[b], immediate[b], rolloff)
  <2>1. CASE "Rolloff" \in lDirty
    <3>1. rolloff = lDeferred["Rolloff"]
      BY <1>3, <1>4, <2>1 DEF rolloff
    <3> QED BY <1>3, <2>1, <3>1, WithRolloffFollows
  <2>2. CASE "Rolloff" \notin lDirty
    <3>1. rolloff = lImmediate["Rolloff"]
      BY <1>3, <1>4, <2>2 DEF rolloff
    <3> QED BY <1>3, <2>2, <3>1, ToldAllOf DEF IInv, AlFollowsImmediate
  <2> QED BY <2>1, <2>2
<1> HIDE DEF told
<1>9. ASSUME NEW b \in Buffers, source[b] = "Located"
      PROVE  /\ al'[b] \in [AlFields -> AlValues]
             /\ al'[b] = ToldOf(b, flat, controls[b], committed[b], rolloff)
  <2> DEFINE i == immediate[b]
             d == deferred[b]
             flags == dirty[b]
             r == Retold(told[b], d, Overlaid(i, d, flags), flags, rolloff)
  <2>1. /\ al'[b] = r /\ committed[b] = Overlaid(i, d, flags)
        /\ i \in Params /\ d \in Params /\ flags \in SUBSET Fields
        /\ b \notin m3dBuffers => flags = {} /\ b \in flat
    BY <1>2, <1>9 DEF IInv, TypeOK
  <2>2. told[b] \in [AlFields -> AlValues] /\ Overlaid(i, d, flags) \in Params
    BY <1>8, <2>1, OverlaidParams
  <2>3. r \in [AlFields -> AlValues]
    BY <1>6, <2>1, <2>2, RetoldValues
  <2>4. told[b] = ToldOf(b, flat, controls[b], i, rolloff)
    BY <1>8, <1>9
  <2>5. CASE b \in m3dBuffers
    <3>1. b \notin flat
      BY <2>5 DEF IInv, TypeOK
    <3>2. /\ \A f \in Moded \cup Plain : told[b][f] = Told(i, rolloff)[f]
          /\ \A f \in Controls :
               told[b][f] = IF f = "Pan" THEN Nothing ELSE controls[b][f]
      BY <2>2, <2>4, <3>1, ToldOf3D
    <3>3. \A f \in Moded \cup Plain : r[f] = Told(Overlaid(i, d, flags), rolloff)[f]
      <4> HIDE DEF i, d, flags
      <4> QED BY <1>6, <2>1, <2>2, <3>2, RetoldFollows
    <3>4. \A f \in Controls : r[f] = IF f = "Pan" THEN Nothing ELSE controls[b][f]
      <4>1. ASSUME NEW f \in Controls PROVE r[f] = told[b][f]
        BY <4>1, FieldsDiffer DEF Retold, AlFields, Moded
      <4> QED BY <3>2, <4>1
    <3>5. r = ToldOf(b, flat, controls[b], Overlaid(i, d, flags), rolloff)
      <4> HIDE DEF r
      <4> QED BY <2>3, <3>1, <3>3, <3>4, ToldOf3D
    <3> QED BY <2>1, <2>3, <3>5
  <2>6. CASE b \notin m3dBuffers
    <3>1. b \in flat /\ flags = {}
      BY <2>1, <2>6
    <3>2. r = [f \in AlFields |-> told[b][f]]
      BY <3>1 DEF Retold
    <3>3. r = told[b]
      BY <2>2, <3>2
    <3>4. ToldOf(b, flat, controls[b], i, rolloff)
            = ToldOf(b, flat, controls[b], committed[b], rolloff)
      BY <3>1 DEF ToldOf
    <3> QED BY <2>1, <2>3, <2>4, <3>3, <3>4
  <2> QED BY <2>5, <2>6
<1>10. al' \in [Buffers -> [AlFields -> AlValues]]
  <2>1. \A b \in Buffers : al'[b] \in [AlFields -> AlValues]
    BY <1>2, <1>3, <1>9
  <2>2. al' = [b \in Buffers |-> al'[b]]
    BY <1>2
  <2> QED BY <2>1, <2>2
<1>11. TypeOK'
  <2>1. /\ deferred' \in [Buffers -> Params] /\ lDeferred' \in ListenerParams
        /\ dirty' \in [Buffers -> SUBSET Fields] /\ lDirty' \subseteq ListenerFields
    BY <1>1, Defaults
  <2>2. \A b \in Buffers \ m3dBuffers' :
          dirty'[b] = {} /\ (b \notin flat' => source'[b] = "None")
    BY <1>1 DEF IInv, TypeOK
  <2>3. /\ m3dBuffers' \subseteq Buffers /\ flat' \subseteq Buffers \ m3dBuffers'
        /\ controls' \in [Buffers -> [Controls -> Values]] /\ listener' \in BOOLEAN
    BY <1>1 DEF IInv, TypeOK
  <2> HIDE DEF committed
  <2> QED BY <1>4, <1>7, <1>10, <2>1, <2>2, <2>3, AlDomain DEF TypeOK
<1>12. AlFollowsImmediate'
  <2>1. \A f \in Listening : lAl'[f] # Nothing => lAl'[f] = lImmediate'[f]
    BY <1>3, <1>4, <1>5 DEF IInv, AlFollowsImmediate
  <2>2. ASSUME NEW b \in Buffers, source'[b] = "Located"
        PROVE  al'[b] = ToldAll(b)'
    <3>1. source[b] = "Located"
      BY <2>2
    <3>2. ToldAll(b)' = ToldOf(b, flat', controls'[b], immediate'[b], lImmediate'["Rolloff"])
      BY ToldAllOf
    <3>3. flat' = flat /\ controls' = controls /\ immediate' = committed
      BY <1>1
    <3> QED BY <1>9, <3>1, <3>2, <3>3 DEF rolloff
  <2> QED BY <2>1, <2>2 DEF AlFollowsImmediate
<1> QED BY <1>5, <1>10, <1>11, <1>12 DEF IInv, AlTypes

LEMMA QuietIInv ==
  ASSUME IInv, UNCHANGED <<m3dBuffers, flat, controls, immediate, deferred, dirty, al>>,
         UNCHANGED <<lImmediate, lDeferred, lDirty, lAl>>, listener' \in BOOLEAN,
         source' \in [Buffers -> {"None", "Unmarked", "Located"}],
         \A b \in Buffers : \/ source'[b] = source[b]
                            \/ source'[b] = "Unmarked" /\ b \in m3dBuffers \cup flat
  PROVE  IInv'
<1>1. TypeOK'
  BY DEF IInv, TypeOK
<1>2. \A b \in Buffers : ToldAll(b)' = ToldAll(b)
  BY DEF ToldAll
<1>3. AlTypes' /\ AlFollowsImmediate'
  BY <1>2 DEF IInv, AlTypes, AlFollowsImmediate
<1> QED BY <1>1, <1>3 DEF IInv

LEMMA SetEaxPropertyIInv ==
  ASSUME IInv, NEW b \in Buffers, SetEaxProperty(b)
  PROVE  IInv'
<1>1. /\ source' \in [Buffers -> {"None", "Unmarked", "Located"}]
      /\ \A c \in Buffers : \/ source'[c] = source[c]
                            \/ source'[c] = "Unmarked" /\ c \in m3dBuffers \cup flat
  BY DEF SetEaxProperty, IInv, TypeOK
<1>2. CASE Commit
  BY <1>1, <1>2, CommitIInv
<1>3. CASE UNCHANGED <<m3dBuffers, flat, controls, immediate, deferred, dirty, al,
                       primary>>
  <2>1. listener' \in BOOLEAN
    BY <1>3 DEF IInv, TypeOK, primary
  <2> QED BY <1>1, <1>3, <2>1, QuietIInv DEF primary
<1> QED BY <1>2, <1>3 DEF SetEaxProperty

LEMMA CommitAloneIInv ==
  ASSUME IInv, Commit, UNCHANGED source
  PROVE  IInv'
<1>1. source' \in [Buffers -> {"None", "Unmarked", "Located"}]
  BY DEF IInv, TypeOK
<1> QED BY <1>1, CommitIInv

LEMMA SetParamsIInv ==
  ASSUME IInv, NEW b \in Buffers, SetSome(b)
  PROVE  IInv'
<1>1. PICK p \in Params, flags \in SUBSET Fields : SetParams(b, p, flags)
  BY DEF SetSome
<1>2. CASE SetNow(b, p, flags)
  BY <1>2, SetNowIInv
<1>3. CASE SetDeferred(b, p, flags)
  BY <1>3, SetDeferredIInv
<1> QED BY <1>1, <1>2, <1>3 DEF SetParams

LEMMA NextIInv == IInv /\ [Next]_vars => IInv'
<1> SUFFICES ASSUME IInv, [Next]_vars PROVE IInv'
  OBVIOUS
<1>0. TypeOK
  BY DEF IInv
<1>1. ASSUME NEW b \in Buffers, CreateBuffer(b) PROVE IInv'
  BY <1>1, CreateBufferIInv
<1>2. ASSUME NEW b \in Buffers, DuplicateBuffer(b) PROVE IInv'
  BY <1>2, DuplicateBufferIInv
<1>3. ASSUME NEW b \in Buffers, SetControl(b) PROVE IInv'
  BY <1>3, SetControlIInv
<1>4. ASSUME NEW b \in Buffers, SetLocation(b) PROVE IInv'
  BY <1>4, SetLocationIInv
<1>5. ASSUME NEW b \in Buffers, LoseLocation(b) PROVE IInv'
  BY <1>5, LoseLocationIInv
<1>6. ASSUME NEW b \in Buffers, DestroyBuffer(b) PROVE IInv'
  BY <1>6, DestroyBufferIInv
<1>7. ASSUME NEW b \in Buffers,
             SetSpatial(b) \/ SetPlain(b) \/ SetMode(b) \/ SetAllParameters(b)
      PROVE  IInv'
  BY <1>0, <1>7, SettersSetSome, SetParamsIInv
<1>8. ASSUME NEW b \in Buffers, SetEaxProperty(b) PROVE IInv'
  BY <1>8, SetEaxPropertyIInv
<1>9. CASE InitializePrimary
  BY <1>9, InitializePrimaryIInv
<1>10. CASE ReleasePrimary
  <2>1. /\ \A b \in Buffers : source'[b] = source[b]
        /\ source' \in [Buffers -> {"None", "Unmarked", "Located"}]
    BY <1>0, <1>10 DEF ReleasePrimary, buffers, TypeOK
  <2> QED BY <1>10, <2>1, QuietIInv DEF ReleasePrimary, buffers
<1>11. CASE SetListener
  BY <1>0, <1>11, ListenerSettersSetSome, SetListenerIInv DEF SetListenerSome
<1>12. CASE CommitDeferredSettings \/ SetEaxContext
  BY <1>12, CommitAloneIInv DEF CommitDeferredSettings, SetEaxContext
<1>13. CASE UNCHANGED vars
  <2>1. /\ \A b \in Buffers : source'[b] = source[b]
        /\ source' \in [Buffers -> {"None", "Unmarked", "Located"}]
        /\ listener' \in BOOLEAN
    BY <1>0, <1>13 DEF vars, buffers, primary, TypeOK
  <2> QED BY <1>13, <2>1, QuietIInv DEF vars, buffers, primary
<1> QED BY <1>1, <1>2, <1>3, <1>4, <1>5, <1>6, <1>7, <1>8, <1>9, <1>10, <1>11,
           <1>12, <1>13 DEF Next

LEMMA Invariance == Spec => []IInv
BY InitIInv, NextIInv, PTL DEF Spec

(* Every parameter has a value of its type, and only a buffer that exists  *)
(* has a source or deferred settings.                                      *)
THEOREM TypeCorrect == Spec => []TypeOK
<1>1. IInv => TypeOK
  BY DEF IInv
<1> QED BY <1>1, Invariance, PTL

(* OpenAL has for each located source, and for the listener, what is in    *)
(* effect, whatever was set, deferred and committed in whatever order.     *)
THEOREM AlFollows == Spec => []AlFollowsImmediate
<1>1. IInv => AlFollowsImmediate
  BY DEF IInv
<1> QED BY <1>1, Invariance, PTL

-----------------------------------------------------------------------------
(* The refinement of DeferredSettings.                                     *)

(* What a 3D buffer is created with is what is left in its place before.   *)
Resting == \A b \in Buffers \ m3dBuffers : immediate[b] = DefaultParams

LEMMA NextResting ==
  ASSUME TypeOK, Resting, [Next]_vars
  PROVE  Resting'
<1> USE DEF Resting
<1>1. ASSUME NEW b \in Buffers, CreateBuffer(b) PROVE Resting'
  BY <1>1 DEF CreateBuffer
<1>2. ASSUME NEW b \in Buffers, DuplicateBuffer(b) PROVE Resting'
  <2>1. PICK o \in m3dBuffers \cup flat :
               /\ m3dBuffers' = IF o \in flat THEN m3dBuffers ELSE m3dBuffers \cup {b}
               /\ immediate' = [immediate EXCEPT ![b] = immediate[o]]
    BY <1>2 DEF DuplicateBuffer
  <2>2. o \in flat => o \in Buffers \ m3dBuffers
    BY DEF TypeOK
  <2> QED BY <2>1, <2>2 DEF TypeOK
<1>3. ASSUME NEW b \in Buffers, DestroyBuffer(b) PROVE Resting'
  BY <1>3 DEF DestroyBuffer, TypeOK
<1>4. ASSUME NEW b \in Buffers,
             SetControl(b) \/ SetLocation(b) \/ LoseLocation(b)
      PROVE  Resting'
  BY <1>4 DEF SetControl, SetLocation, LoseLocation
<1>5. ASSUME NEW b \in Buffers, SetSome(b) PROVE Resting'
  BY <1>5 DEF SetSome, SetParams, SetNow, SetDeferred, TypeOK
<1>6. ASSUME Commit PROVE Resting'
  <2> SUFFICES ASSUME NEW b \in Buffers \ m3dBuffers PROVE immediate'[b] = DefaultParams
    BY <1>6 DEF Commit
  <2>1. /\ dirty[b] = {} /\ immediate[b] = DefaultParams
        /\ immediate'[b] = Overlaid(immediate[b], deferred[b], dirty[b])
    BY <1>6 DEF Commit, TypeOK
  <2> QED BY <2>1 DEF Overlaid, DefaultParams
<1>7. ASSUME NEW b \in Buffers, SetEaxProperty(b) PROVE Resting'
  BY <1>6, <1>7 DEF SetEaxProperty
<1>8. CASE InitializePrimary \/ ReleasePrimary \/ SetListener
  BY <1>8 DEF InitializePrimary, ReleasePrimary, SetListener, SetListenerParams,
              SetListenerNow, SetListenerDeferred, buffers
<1>9. CASE UNCHANGED vars
  BY <1>9 DEF vars, buffers
<1> QED
  BY <1>1, <1>2, <1>3, <1>4, <1>5, <1>6, <1>7, <1>8, <1>9, SettersSetSome
  DEF Next, CommitDeferredSettings, SetEaxContext

FieldsOf(o) == IF o = Listener THEN ListenerFields ELSE Fields
DefaultsOf(o) == IF o = Listener THEN ListenerDefaults ELSE DefaultParams
Current == [o \in Objects |-> IF o = Listener THEN lImmediate ELSE immediate[o]]
Pending ==
  [o \in Objects |->
    IF o = Listener
    THEN [f \in ListenerFields |-> IF f \in lDirty THEN lDeferred[f] ELSE Nothing]
    ELSE [f \in Fields |-> IF f \in dirty[o] THEN deferred[o][f] ELSE Nothing]]

NonePendingOf(o) == [f \in FieldsOf(o) |-> Nothing]

\* The steps of DeferredSettings, of these objects.
OthersKeep(o) ==
  \A p \in Objects \ {o} : Current'[p] = Current[p] /\ Pending'[p] = Pending[p]

SetStep(o, fields, to) ==
  /\ OthersKeep(o) /\ Pending'[o] = Pending[o]
  /\ Current'[o] = Overlaid(Current[o], to, fields)

DeferStep(o, fields, to) ==
  /\ OthersKeep(o) /\ Current'[o] = Current[o]
  /\ Pending'[o] = Overlaid(Pending[o], to, fields)

CommitStep ==
  /\ Current' = [o \in Objects |-> [f \in FieldsOf(o) |->
                    IF Pending[o][f] = Nothing THEN Current[o][f] ELSE Pending[o][f]]]
  /\ Pending' = [o \in Objects |-> NonePendingOf(o)]

CreateStep(o) ==
  OthersKeep(o) /\ Current'[o] = DefaultsOf(o) /\ Pending'[o] = NonePendingOf(o)

CopyStep(o, from) ==
  OthersKeep(o) /\ Current'[o] = Current[from] /\ Pending'[o] = NonePendingOf(o)

LEMMA SetIsAsked ==
  ASSUME NEW o \in Objects, NEW fields, NEW to,
         AsksToSet("Set", o, to, fields), SetStep(o, fields, to)
  PROVE  Settings!Next
BY DEF AsksToSet, SetStep, OthersKeep, Overlaid, Current, Pending, Settings!Next,
       Settings!Set, Settings!Others, Settings!Replaced

LEMMA DeferIsAsked ==
  ASSUME NEW o \in Objects, NEW fields, NEW to,
         AsksToSet("Defer", o, to, fields), DeferStep(o, fields, to)
  PROVE  Settings!Next
BY DEF AsksToSet, DeferStep, OthersKeep, Overlaid, Current, Pending, Settings!Next,
       Settings!Defer, Settings!Others, Settings!Replaced

LEMMA CommitIsAsked ==
  ASSUME AsksToCommit, CommitStep
  PROVE  Settings!Next
BY DEF AsksToCommit, CommitStep, NonePendingOf, FieldsOf, Current, Pending,
       Settings!Next, Settings!Commit, Settings!NonePending

LEMMA CreateIsAsked ==
  ASSUME NEW o \in Objects, Asks("Create", o), CreateStep(o)
  PROVE  Settings!Next
BY DEF Asks, CreateStep, OthersKeep, NonePendingOf, FieldsOf, DefaultsOf, Current,
       Pending, Settings!Next, Settings!Create, Settings!Others, Settings!NonePending

LEMMA CopyIsAsked ==
  ASSUME NEW o \in Objects, NEW from \in Objects, AsksToCopy(o, from), CopyStep(o, from)
  PROVE  Settings!Next
BY DEF AsksToCopy, CopyStep, OthersKeep, NonePendingOf, FieldsOf, Current, Pending,
       Settings!Next, Settings!Copy, Settings!Others, Settings!NonePending

LEMMA DestroyIsAsked ==
  ASSUME NEW o \in Objects, Asks("Destroy", o), OthersKeep(o),
         Pending'[o] = NonePendingOf(o)
  PROVE  Settings!Next
BY DEF Asks, OthersKeep, NonePendingOf, FieldsOf, Current, Pending, Settings!Next,
       Settings!Destroy, Settings!Others, Settings!NonePending

\* Calls that change no setting.
LEMMA OtherIsAsked ==
  ASSUME UNCHANGED <<immediate, deferred, dirty, lImmediate, lDeferred, lDirty>>
  PROVE  /\ AsksOther => Settings!Next
         /\ asked' = asked => UNCHANGED Settings!vars
<1>1. Current' = Current /\ Pending' = Pending
  BY DEF Current, Pending
<1> QED BY <1>1 DEF AsksOther, Current, Pending, Settings!Next, Settings!vars

\* What a step leaves alone of the settings, and what it does to one object.
LEMMA SettingsOf ==
  /\ \A b \in Buffers :
       /\ Current[b] = immediate[b] /\ Current'[b] = immediate'[b]
       /\ Pending[b] = [f \in Fields |-> IF f \in dirty[b] THEN deferred[b][f] ELSE Nothing]
       /\ Pending'[b] =
            [f \in Fields |-> IF f \in dirty'[b] THEN deferred'[b][f] ELSE Nothing]
       /\ FieldsOf(b) = Fields
  /\ Current[Listener] = lImmediate /\ Current'[Listener] = lImmediate'
  /\ Pending[Listener] =
       [f \in ListenerFields |-> IF f \in lDirty THEN lDeferred[f] ELSE Nothing]
  /\ Pending'[Listener] =
       [f \in ListenerFields |-> IF f \in lDirty' THEN lDeferred'[f] ELSE Nothing]
  /\ FieldsOf(Listener) = ListenerFields
  /\ Objects = Buffers \cup {Listener} /\ Listener \notin Buffers
BY NothingAssumption DEF Current, Pending, FieldsOf, Objects

LEMMA OtherBuffersKeep ==
  ASSUME NEW b \in Buffers,
         UNCHANGED <<lImmediate, lDeferred, lDirty>>,
         \A c \in Buffers \ {b} : /\ immediate'[c] = immediate[c]
                                  /\ deferred'[c] = deferred[c]
                                  /\ dirty'[c] = dirty[c]
  PROVE  OthersKeep(b)
<1>1. Current'[Listener] = Current[Listener] /\ Pending'[Listener] = Pending[Listener]
  BY SettingsOf
<1>2. ASSUME NEW c \in Buffers \ {b}
      PROVE  Current'[c] = Current[c] /\ Pending'[c] = Pending[c]
  <2>1. /\ Current'[c] = immediate'[c] /\ Current[c] = immediate[c]
        /\ Pending[c] = [f \in Fields |-> IF f \in dirty[c] THEN deferred[c][f] ELSE Nothing]
        /\ Pending'[c] =
             [f \in Fields |-> IF f \in dirty'[c] THEN deferred'[c][f] ELSE Nothing]
    BY SettingsOf
  <2> QED BY <2>1
<1> QED BY <1>1, <1>2, SettingsOf DEF OthersKeep

LEMMA BuffersKeep ==
  ASSUME UNCHANGED <<immediate, deferred, dirty>>
  PROVE  OthersKeep(Listener)
<1>1. ASSUME NEW c \in Buffers
      PROVE  Current'[c] = Current[c] /\ Pending'[c] = Pending[c]
  <2>1. /\ Current'[c] = immediate'[c] /\ Current[c] = immediate[c]
        /\ Pending[c] = [f \in Fields |-> IF f \in dirty[c] THEN deferred[c][f] ELSE Nothing]
        /\ Pending'[c] =
             [f \in Fields |-> IF f \in dirty'[c] THEN deferred'[c][f] ELSE Nothing]
    BY SettingsOf
  <2> QED BY <2>1
<1> QED BY <1>1, SettingsOf DEF OthersKeep

\* A pending value is never Nothing.
LEMMA PendingValues ==
  ASSUME TypeOK
  PROVE  /\ \A b \in Buffers, f \in Fields : deferred[b][f] # Nothing
         /\ \A f \in ListenerFields : lDeferred[f] # Nothing
<1>1. \A p \in Params, f \in Fields : p[f] \in Values \cup Modes
  BY DEF Params
<1> QED BY <1>1, NothingAssumption DEF TypeOK, ListenerParams

LEMMA InitSettings == Init => Settings!Init
<1> SUFFICES ASSUME Init PROVE Settings!Init
  OBVIOUS
<1>1. Pending = [o \in Objects |-> NonePendingOf(o)]
  BY DEF Init, Pending, NonePendingOf, FieldsOf, Objects
<1> QED BY <1>1 DEF Settings!Init, Settings!NonePending, Pending, NonePendingOf, FieldsOf

LEMMA NoneDirty ==
  ASSUME NEW b \in Buffers, dirty'[b] = {}
  PROVE  Pending'[b] = NonePendingOf(b)
<1>1. /\ Pending'[b] =
           [f \in Fields |-> IF f \in dirty'[b] THEN deferred'[b][f] ELSE Nothing]
      /\ FieldsOf(b) = Fields
  BY SettingsOf
<1> QED BY <1>1 DEF NonePendingOf

\* Settings that take effect at once.
LEMMA SetSetting ==
  ASSUME TypeOK, NEW b \in Buffers, NEW p \in Params, NEW flags \in SUBSET Fields,
         SetNow(b, p, flags), AsksToSet("Set", b, p, flags)
  PROVE  Settings!Next
<1>1. /\ immediate' = [immediate EXCEPT ![b] = Overlaid(@, p, flags)]
      /\ deferred' = deferred /\ dirty' = dirty
      /\ UNCHANGED <<lImmediate, lDeferred, lDirty>>
  BY DEF SetNow, primary
<1>2. OthersKeep(b)
  <2>1. \A c \in Buffers \ {b} : immediate'[c] = immediate[c]
    BY <1>1 DEF TypeOK
  <2> QED BY <1>1, <2>1, OtherBuffersKeep
<1>3. Pending'[b] = Pending[b] /\ b \in Objects
  <2>1. /\ Pending[b] = [f \in Fields |-> IF f \in dirty[b] THEN deferred[b][f] ELSE Nothing]
        /\ Pending'[b] =
             [f \in Fields |-> IF f \in dirty'[b] THEN deferred'[b][f] ELSE Nothing]
        /\ b \in Objects
    BY SettingsOf
  <2> QED BY <1>1, <2>1
<1>4. Current'[b] = Overlaid(Current[b], p, flags)
  BY <1>1, SettingsOf DEF TypeOK
<1> QED BY <1>2, <1>3, <1>4, SetIsAsked DEF SetStep

\* The dirty bits of what is deferred, laid over those there are.
LEMMA DeferredPending ==
  ASSUME NEW fields, NEW old, NEW new, NEW bits, NEW flags, DOMAIN old = fields
  PROVE  [f \in fields |-> IF f \in bits \cup flags
                           THEN Overlaid(old, new, flags)[f] ELSE Nothing]
         = Overlaid([f \in fields |-> IF f \in bits THEN old[f] ELSE Nothing], new, flags)
BY DEF Overlaid

LEMMA DeferSetting ==
  ASSUME TypeOK, NEW b \in Buffers, NEW p \in Params, NEW flags \in SUBSET Fields,
         SetDeferred(b, p, flags), AsksToSet("Defer", b, p, flags)
  PROVE  Settings!Next
<1>1. /\ dirty' = [dirty EXCEPT ![b] = @ \cup flags]
      /\ deferred' = [deferred EXCEPT ![b] = Overlaid(@, p, flags)]
      /\ immediate' = immediate /\ UNCHANGED <<lImmediate, lDeferred, lDirty>>
  BY DEF SetDeferred, primary
<1>2. OthersKeep(b)
  <2>1. \A c \in Buffers \ {b} : /\ immediate'[c] = immediate[c]
                                 /\ deferred'[c] = deferred[c]
                                 /\ dirty'[c] = dirty[c]
    BY <1>1 DEF TypeOK
  <2> QED BY <1>1, <2>1, OtherBuffersKeep
<1>3. Current'[b] = Current[b] /\ b \in Objects
  BY <1>1, SettingsOf
<1>4. Pending'[b] = Overlaid(Pending[b], p, flags)
  <2>1. /\ DOMAIN deferred[b] = Fields
        /\ deferred'[b] = Overlaid(deferred[b], p, flags)
        /\ dirty'[b] = dirty[b] \cup flags
    BY <1>1 DEF TypeOK, Params
  <2>2. /\ Pending[b] = [f \in Fields |-> IF f \in dirty[b] THEN deferred[b][f] ELSE Nothing]
        /\ Pending'[b] =
             [f \in Fields |-> IF f \in dirty'[b] THEN deferred'[b][f] ELSE Nothing]
    BY SettingsOf
  <2>3. [f \in Fields |-> IF f \in dirty[b] \cup flags
                          THEN Overlaid(deferred[b], p, flags)[f] ELSE Nothing]
        = Overlaid([f \in Fields |-> IF f \in dirty[b] THEN deferred[b][f] ELSE Nothing],
                   p, flags)
    <3>1. \A old : DOMAIN old = Fields =>
            [f \in Fields |-> IF f \in dirty[b] \cup flags
                              THEN Overlaid(old, p, flags)[f] ELSE Nothing]
            = Overlaid([f \in Fields |-> IF f \in dirty[b] THEN old[f] ELSE Nothing],
                       p, flags)
      BY DeferredPending
    <3> QED BY <2>1, <3>1
  <2> QED BY <2>1, <2>2, <2>3
<1> QED BY <1>2, <1>3, <1>4, DeferIsAsked DEF DeferStep

LEMMA ListenerSetting ==
  ASSUME TypeOK, NEW p \in ListenerParams, NEW flags \in SUBSET ListenerFields,
         SetListenerParams(p, flags)
  PROVE  Settings!Next
<1>1. /\ OthersKeep(Listener) /\ Listener \in Objects
  BY BuffersKeep, SettingsOf
  DEF SetListenerParams, SetListenerNow, SetListenerDeferred, buffers
<1>2. ASSUME SetListenerNow(p, flags), AsksToSet("Set", Listener, p, flags)
      PROVE  Settings!Next
  <2>1. /\ lImmediate' = Overlaid(lImmediate, p, flags)
        /\ lDeferred' = lDeferred /\ lDirty' = lDirty
    BY <1>2 DEF SetListenerNow, TellListener
  <2>2. Pending'[Listener] = Pending[Listener]
    BY <2>1, SettingsOf
  <2>3. Current'[Listener] = Overlaid(Current[Listener], p, flags)
    BY <2>1, SettingsOf
  <2> QED BY <1>1, <1>2, <2>2, <2>3, SetIsAsked DEF SetStep
<1>3. ASSUME SetListenerDeferred(p, flags), AsksToSet("Defer", Listener, p, flags)
      PROVE  Settings!Next
  <2>1. /\ lImmediate' = lImmediate /\ lDirty' = lDirty \cup flags
        /\ lDeferred' = Overlaid(lDeferred, p, flags)
        /\ DOMAIN lDeferred = ListenerFields
    BY <1>3 DEF SetListenerDeferred, TypeOK, ListenerParams
  <2>2. Current'[Listener] = Current[Listener]
    BY <2>1, SettingsOf
  <2>3. [f \in ListenerFields |-> IF f \in lDirty \cup flags
                                  THEN Overlaid(lDeferred, p, flags)[f] ELSE Nothing]
        = Overlaid([f \in ListenerFields |-> IF f \in lDirty THEN lDeferred[f] ELSE Nothing],
                   p, flags)
    BY <2>1, DeferredPending
  <2>4. Pending'[Listener] = Overlaid(Pending[Listener], p, flags)
    BY <2>1, <2>3, SettingsOf
  <2> QED BY <1>1, <1>3, <2>2, <2>4, DeferIsAsked DEF DeferStep
<1> QED BY <1>2, <1>3 DEF SetListenerParams

LEMMA CommitSettings ==
  ASSUME TypeOK, Commit, AsksToCommit
  PROVE  Settings!Next
<1>1. /\ lImmediate' = Overlaid(lImmediate, lDeferred, lDirty)
      /\ immediate' = [b \in Buffers |-> Overlaid(immediate[b], deferred[b], dirty[b])]
      /\ dirty' = [b \in Buffers |-> {}] /\ lDirty' = {}
  BY DEF Commit
<1>2. Pending' = [o \in Objects |-> NonePendingOf(o)]
  BY <1>1 DEF Pending, NonePendingOf, FieldsOf, Objects
<1>3. ASSUME NEW o \in Objects
      PROVE  Current'[o] = [f \in FieldsOf(o) |->
               IF Pending[o][f] = Nothing THEN Current[o][f] ELSE Pending[o][f]]
  <2>1. CASE o = Listener
    <3>1. Overlaid(lImmediate, lDeferred, lDirty) =
            [f \in ListenerFields |-> IF f \in lDirty THEN lDeferred[f] ELSE lImmediate[f]]
      BY DEF Overlaid, TypeOK, ListenerParams
    <3> QED BY <1>1, <2>1, <3>1, SettingsOf, PendingValues
  <2>2. CASE o \in Buffers
    <3>1. Overlaid(immediate[o], deferred[o], dirty[o]) =
            [f \in Fields |-> IF f \in dirty[o] THEN deferred[o][f] ELSE immediate[o][f]]
      <4>1. DOMAIN immediate[o] = Fields
        BY <2>2 DEF TypeOK, Params
      <4> QED BY <4>1 DEF Overlaid
    <3>2. Current'[o] = Overlaid(immediate[o], deferred[o], dirty[o])
      BY <1>1, <2>2, SettingsOf
    <3>3. /\ Current[o] = immediate[o] /\ FieldsOf(o) = Fields
          /\ Pending[o] =
               [f \in Fields |-> IF f \in dirty[o] THEN deferred[o][f] ELSE Nothing]
          /\ \A f \in Fields : deferred[o][f] # Nothing
      BY <2>2, SettingsOf, PendingValues
    <3> QED BY <3>1, <3>2, <3>3
  <2> QED BY <2>1, <2>2 DEF Objects
<1>4. Current' = [o \in Objects |-> Current'[o]]
  BY DEF Current
<1>5. CommitStep
  BY <1>2, <1>3, <1>4 DEF CommitStep
<1> QED BY <1>5, CommitIsAsked

\* Buffers come and go with their settings.
LEMMA CreateSetting ==
  ASSUME TypeOK, Resting, NEW b \in Buffers, CreateBuffer(b), Asks("Create", b)
  PROVE  Settings!Next
<1>1. /\ UNCHANGED <<immediate, deferred, dirty, lImmediate, lDeferred, lDirty>>
      /\ immediate[b] = DefaultParams /\ dirty[b] = {}
  BY DEF CreateBuffer, primary, TypeOK, Resting
<1>2. OthersKeep(b)
  BY <1>1, OtherBuffersKeep
<1>3. Current'[b] = DefaultsOf(b) /\ b \in Objects
  BY <1>1, SettingsOf DEF DefaultsOf
<1>4. Pending'[b] = NonePendingOf(b)
  BY <1>1, NoneDirty
<1> QED BY <1>2, <1>3, <1>4, CreateIsAsked DEF CreateStep

LEMMA DuplicateSetting ==
  ASSUME TypeOK, NEW b \in Buffers, DuplicateBuffer(b)
  PROVE  Settings!Next
<1>1. PICK o \in m3dBuffers \cup flat :
             AsksToCopy(b, o) /\ immediate' = [immediate EXCEPT ![b] = immediate[o]]
  BY DEF DuplicateBuffer
<1>2. /\ UNCHANGED <<deferred, dirty, lImmediate, lDeferred, lDirty>>
      /\ dirty[b] = {} /\ o \in Buffers
  BY DEF DuplicateBuffer, primary, TypeOK
<1>3. OthersKeep(b)
  <2>1. \A c \in Buffers \ {b} : immediate'[c] = immediate[c]
    BY <1>1 DEF TypeOK
  <2> QED BY <1>2, <2>1, OtherBuffersKeep
<1>4. Current'[b] = Current[o] /\ b \in Objects /\ o \in Objects
  BY <1>1, <1>2, SettingsOf DEF TypeOK
<1>5. Pending'[b] = NonePendingOf(b)
  BY <1>2, NoneDirty
<1> QED BY <1>1, <1>3, <1>4, <1>5, CopyIsAsked DEF CopyStep

LEMMA DestroySetting ==
  ASSUME TypeOK, NEW b \in Buffers, DestroyBuffer(b), Asks("Destroy", b)
  PROVE  Settings!Next
<1>1. /\ \A c \in Buffers \ {b} : /\ immediate'[c] = immediate[c]
                                  /\ deferred'[c] = deferred[c]
                                  /\ dirty'[c] = dirty[c]
      /\ dirty'[b] = {} /\ UNCHANGED <<lImmediate, lDeferred, lDirty>>
  BY DEF DestroyBuffer, TypeOK, primary
<1>2. OthersKeep(b) /\ b \in Objects
  BY <1>1, OtherBuffersKeep, SettingsOf
<1>3. Pending'[b] = NonePendingOf(b)
  BY <1>1, NoneDirty
<1> QED BY <1>2, <1>3, DestroyIsAsked

LEMMA InitializeSetting ==
  ASSUME TypeOK, InitializePrimary, Asks("Create", Listener)
  PROVE  Settings!Next
<1>1. /\ UNCHANGED <<immediate, deferred, dirty>> /\ lDirty' = {}
      /\ lImmediate' = Overlaid(lImmediate, ListenerDefaults, ListenerFields)
  BY DEF InitializePrimary, TellListener
<1>2. OthersKeep(Listener) /\ Listener \in Objects
  BY <1>1, BuffersKeep, SettingsOf
<1>3. Current'[Listener] = DefaultsOf(Listener)
  <2>1. Overlaid(lImmediate, ListenerDefaults, ListenerFields) = ListenerDefaults
    BY DEF Overlaid, ListenerDefaults, TypeOK, ListenerParams
  <2> QED BY <1>1, <2>1, SettingsOf DEF DefaultsOf
<1>4. Pending'[Listener] = NonePendingOf(Listener)
  <2>1. /\ FieldsOf(Listener) = ListenerFields
        /\ Pending'[Listener] =
             [f \in ListenerFields |-> IF f \in lDirty' THEN lDeferred'[f] ELSE Nothing]
    BY SettingsOf
  <2> QED BY <1>1, <2>1 DEF NonePendingOf
<1> QED BY <1>2, <1>3, <1>4, CreateIsAsked DEF CreateStep

\* A step of Params3D is the step of DeferredSettings that was asked for.
LEMMA NextSettings ==
  ASSUME TypeOK, Resting, [Next]_vars
  PROVE  Settings!Next \/ UNCHANGED Settings!vars
<1> DEFINE Goal == Settings!Next \/ UNCHANGED Settings!vars
           Same == UNCHANGED <<immediate, deferred, dirty, lImmediate, lDeferred, lDirty>>
<1>1. ASSUME NEW b \in Buffers, CreateBuffer(b), Asks("Create", b) PROVE Goal
  BY <1>1, CreateSetting
<1>2. ASSUME NEW b \in Buffers, DuplicateBuffer(b) PROVE Goal
  BY <1>2, DuplicateSetting
<1>3. ASSUME NEW b \in Buffers, DestroyBuffer(b), Asks("Destroy", b) PROVE Goal
  BY <1>3, DestroySetting
<1>4. ASSUME NEW b \in Buffers, AsksOther,
             SetControl(b) \/ SetLocation(b) \/ LoseLocation(b)
      PROVE  Goal
  <2>1. Same
    BY <1>4 DEF SetControl, SetLocation, LoseLocation, primary
  <2> QED BY <1>4, <2>1, OtherIsAsked
<1>5. ASSUME NEW b \in Buffers, SetSome(b) PROVE Goal
  <2>1. PICK p \in Params, flags \in SUBSET Fields : SetParams(b, p, flags)
    BY <1>5 DEF SetSome
  <2> QED BY <2>1, SetSetting, DeferSetting DEF SetParams
<1>6. ASSUME NEW b \in Buffers, SetEaxProperty(b) PROVE Goal
  <2>1. CASE Commit /\ AsksToCommit
    BY <2>1, CommitSettings
  <2>2. CASE AsksOther /\ UNCHANGED <<m3dBuffers, flat, controls, immediate, deferred,
                                      dirty, al, primary>>
    <3>1. Same
      BY <2>2 DEF primary
    <3> QED BY <2>2, <3>1, OtherIsAsked
  <2> QED BY <1>6, <2>1, <2>2 DEF SetEaxProperty
<1>7. CASE InitializePrimary /\ Asks("Create", Listener)
  BY <1>7, InitializeSetting
<1>8. CASE ReleasePrimary /\ AsksOther
  <2>1. Same
    BY <1>8 DEF ReleasePrimary, buffers
  <2> QED BY <1>8, <2>1, OtherIsAsked
<1>9. CASE SetListener
  BY <1>9, ListenerSettersSetSome, ListenerSetting DEF SetListenerSome
<1>10. CASE (CommitDeferredSettings \/ SetEaxContext) /\ AsksToCommit
  BY <1>10, CommitSettings DEF CommitDeferredSettings, SetEaxContext
<1>11. CASE UNCHANGED vars
  <2>1. Same /\ asked' = asked
    BY <1>11 DEF vars, buffers, primary
  <2> QED BY <2>1, OtherIsAsked
<1>12. ASSUME NEW b \in Buffers,
              SetSpatial(b) \/ SetPlain(b) \/ SetMode(b) \/ SetAllParameters(b)
       PROVE  Goal
  BY <1>5, <1>12, SettersSetSome
<1> QED BY <1>1, <1>2, <1>3, <1>4, <1>6, <1>7, <1>8, <1>9, <1>10, <1>11, <1>12 DEF Next

(* A setting that is deferred has no effect before a commit, none is lost  *)
(* before it, and one commit is enough for everything: whatever the calls  *)
(* on the buffers and the listener, they do to the current and the pending *)
(* settings what DeferredSettings says that each was asked to do.          *)
THEOREM DeferralImplemented == Spec => ImplementsSettings
<1>1. Init => Settings!Init
  BY InitSettings
<1>2. Init => Resting
  BY DEF Init, Resting
<1>3. TypeOK /\ Resting /\ [Next]_vars => Resting'
  BY NextResting
<1>4. TypeOK /\ Resting /\ [Next]_vars => [Settings!Next]_(Settings!vars)
  BY NextSettings
<1> QED BY <1>1, <1>2, <1>3, <1>4, TypeCorrect, PTL DEF Spec, ImplementsSettings, Settings!Spec
=============================================================================
