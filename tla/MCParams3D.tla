---------------------------- MODULE MCParams3D ----------------------------
EXTENDS Params3D, PropertySets, TLC

Symmetry == Permutations(Buffers)

\* States that only the last call tells apart are one: no action reads what it
\* was, and properties of steps are evaluated for every step, seen or not.
View == <<buffers, primary>>

\* The numbers around the ends of the enumerations, also with the top bit.
Numbers == 0 .. 30 \cup 65530 .. 65545
Ids == Numbers \cup {TopBit + n : n \in Numbers}

ASSUME PropertySetsAgree ==
  /\ \A eax \in BOOLEAN :
       /\ \A set \in EaxSets, id \in Ids : SupportIsHonest(eax, set, id)
       /\ \A id \in VoiceManager \cup {"Other"} :
            SupportIsHonest(eax, "VoiceManager", id)
  /\ \A set \in EaxSets, id \in Ids : DeferralIsKnown(set, id)
  /\ \A id \in Ids : LaterVersionsKnow(id)
=============================================================================
