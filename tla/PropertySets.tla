----------------------------- MODULE PropertySets -----------------------------
(***************************************************************************)
(* Which properties a buffer's IKsPropertySet answers to: those of EAX 1   *)
(* to 4, which OpenAL implements, and the voice manager's.  QuerySupport,  *)
(* Get and Set each have a table of their own.                             *)
(*                                                                         *)
(* A property of EAX is the number that its enumeration gives it, and the  *)
(* top bit of it, since EAX 2, defers a Set.  What a Set does is in        *)
(* SourcePool and Params3D.                                                *)
(***************************************************************************)
EXTENDS Naturals

CONSTANT TopBit   \* 0x80000000
ASSUME TopBitAssumption == TopBit \in Nat /\ TopBit > 65541

Masked(id) == id % TopBit
Immediate(id) == id < TopBit

SourceSets == {"EAX40_Source", "EAX30_Buffer", "EAX20_Buffer", "EAX10_Buffer"}
FXSlots == {"EAX40_FXSlot0", "EAX40_FXSlot1", "EAX40_FXSlot2", "EAX40_FXSlot3"}
ContextSets ==
  FXSlots \cup {"EAX40_Context", "EAX30_Listener", "EAX20_Listener", "EAX10_Listener"}
EaxSets == SourceSets \cup ContextSets

VoiceManager == {"Mode", "Priority", "State"}

-----------------------------------------------------------------------------
(* QuerySupport: what a property can be used for.                          *)

EAX4Context == 0 .. 6
EAX4Slot == 0 .. 25 \cup 65536 .. 65541   \* those of a reverb, and the slot's
EAX4Source == 0 .. 27
EAX3 == 0 .. 25
EAX3Buffer == 0 .. 22
EAX2 == 0 .. 15
EAX2Buffer == 0 .. 14
EAX1 == 0 .. 4
EAX1Buffer == {0, 1}

EaxQuery(set, id) ==
  \/ set = "EAX40_Source" /\ Masked(id) \in EAX4Source
  \/ set = "EAX30_Buffer" /\ Masked(id) \in EAX3Buffer
  \/ set = "EAX20_Buffer" /\ Masked(id) \in EAX2Buffer
  \/ set \in FXSlots /\ Masked(id) \in EAX4Slot
  \/ set = "EAX30_Listener" /\ Masked(id) \in EAX3
  \/ set = "EAX20_Listener" /\ Masked(id) \in EAX2
  \/ set = "EAX40_Context" /\ Masked(id) \in EAX4Context
  \/ set = "EAX10_Listener" /\ id \in EAX1
  \/ set = "EAX10_Buffer" /\ id \in EAX1Buffer

\* eax: whether OpenAL has the EAX extension.
QuerySupport(eax, set, id) ==
  IF set \in EaxSets THEN IF eax /\ EaxQuery(set, id) THEN {"Get", "Set"} ELSE {}
  ELSE IF set # "VoiceManager" \/ id \notin VoiceManager THEN {}
  ELSE IF id = "State" THEN {"Get"} ELSE {"Get", "Set"}

-----------------------------------------------------------------------------
(* Get and Set: who answers, if anybody.  OpenAL may still refuse what it  *)
(* is handed, and is handed every property of a set of EAX; the voice      *)
(* manager refuses data that are too small.                                *)

Get(eax, set, id) ==
  IF set \in EaxSets THEN IF eax THEN "OpenAL" ELSE "Unsupported"
  ELSE IF set = "VoiceManager" /\ id \in VoiceManager THEN "Buffer"
  ELSE "Unsupported"

Set(eax, set, id) ==
  IF set \in EaxSets THEN IF eax THEN "OpenAL" ELSE "Unsupported"
  ELSE IF set = "VoiceManager" /\ id \in {"Mode", "Priority"} THEN "Buffer"
  ELSE "Unsupported"

\* What is done around a Set that OpenAL takes: a source is generated when
\* there is none, all that was deferred is committed.
Effects(set, id) ==
  (IF set \in SourceSets THEN {"HasSource"} ELSE {})
    \cup (IF Immediate(id) THEN {"Commit"} ELSE {})

-----------------------------------------------------------------------------
(* Correctness.                                                            *)

(* What QuerySupport promises somebody answers, and of the voice manager   *)
(* nothing else is answered.                                               *)
SupportIsHonest(eax, set, id) ==
  /\ "Get" \in QuerySupport(eax, set, id) => Get(eax, set, id) # "Unsupported"
  /\ "Set" \in QuerySupport(eax, set, id) => Set(eax, set, id) # "Unsupported"
  /\ set \notin EaxSets =>
       QuerySupport(eax, set, id) =
         {op \in {"Get", "Set"} :
            IF op = "Get" THEN Get(eax, set, id) # "Unsupported"
                          ELSE Set(eax, set, id) # "Unsupported"}

(* A property that is supported since EAX 2 can be set in two ways, of     *)
(* which one commits; one of EAX 1, which knows no deferral, always        *)
(* commits when it is used as QuerySupport allows.                         *)
DeferralIsKnown(set, id) ==
  LET supports(i) == "Set" \in QuerySupport(TRUE, set, i)
      commits(i) == "Commit" \in Effects(set, i)
  IN Immediate(id) /\ supports(id) =>
       /\ commits(id)
       /\ supports(id + TopBit) => ~commits(id + TopBit)
       /\ supports(id + TopBit) <=> set \notin {"EAX10_Listener", "EAX10_Buffer"}

(* A program written for a buffer of EAX 3 finds all its properties, by    *)
(* the same numbers, in a source of EAX 4, and those of the EAX 3 listener *)
(* in an effect slot.                                                      *)
LaterVersionsKnow(id) ==
  /\ EaxQuery("EAX30_Buffer", id) => EaxQuery("EAX40_Source", id)
  /\ EaxQuery("EAX30_Listener", id) => \A slot \in FXSlots : EaxQuery(slot, id)
=============================================================================
