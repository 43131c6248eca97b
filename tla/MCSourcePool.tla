---------------------------- MODULE MCSourcePool ----------------------------
EXTENDS SourcePool, VoiceLimits, TLC

CONSTANTS o1, o2, b1, b2, b3, b4

\* Two objects with two buffers each: the buffers of an object are serialised
\* by its mutex, the objects race.
MCObjects == {o1, o2}
MCBuffers == {b1, b2, b3, b4}
MCParent == b1 :> o1 @@ b2 :> o1 @@ b3 :> o2 @@ b4 :> o2

\* Renaming objects and buffers consistently changes nothing, and every
\* property checked under it is a safety property.
MCSymmetry ==
  {f \in Permutations(MCObjects \cup MCBuffers) :
     /\ \A o \in MCObjects : f[o] \in MCObjects
     /\ \A b \in MCBuffers : MCParent[f[b]] = f[MCParent[b]]}

\* What OpenAL may report, at and around every bound of VoiceLimits.
ASSUME LimitsAreChecked ==
  /\ \A mono, stereo \in {-1, 0, 1, 127, 128, 255, 256, 257, 1024} :
       VoicesAreSources(mono, stereo)
  /\ \A hw \in 0..130 : GroupsSuffice(hw)
  /\ \A r \in -1..120 : ThreadIsPaced(r)
=============================================================================
