------------------------------ MODULE VoicePool ------------------------------
(***************************************************************************)
(* What a SharedDevice promises about its voices: each kind of voice has a *)
(* fixed number of them, a voice is taken and given back atomically, and   *)
(* nobody gets a voice of a kind that has none left.  Claimants are the    *)
(* buffers of every DSound8OAL object on the device.                       *)
(***************************************************************************)
EXTENDS Naturals, FiniteSets

CONSTANTS Claimants,  \* who may hold a voice
          Kinds,      \* the kinds of voices
          Capacity    \* how many voices there are of each kind

VARIABLE held         \* for each kind, who holds a voice of it

Init == held = [k \in Kinds |-> {}]

Holds(c) == \E k \in Kinds : c \in held[k]

Take(c, k) ==
  /\ ~Holds(c)
  /\ Cardinality(held[k]) < Capacity[k]
  /\ held' = [held EXCEPT ![k] = @ \cup {c}]

GiveBack(c, k) ==
  /\ c \in held[k]
  /\ held' = [held EXCEPT ![k] = @ \ {c}]

Next == \E c \in Claimants, k \in Kinds : Take(c, k) \/ GiveBack(c, k)

Spec == Init /\ [][Next]_held
=============================================================================
