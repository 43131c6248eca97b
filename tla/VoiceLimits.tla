---------------------------- MODULE VoiceLimits ----------------------------
(***************************************************************************)
(* The numbers that a SharedDevice is given once, when CreateDeviceShare   *)
(* has asked OpenAL what it can do, and what the objects on it make of     *)
(* them: how many voices there are of each kind, which SourcePool takes as *)
(* its constants, how many groups of buffers an object prepares, and how   *)
(* long its notification thread waits between two polls.                   *)
(***************************************************************************)
EXTENDS Integers

CONSTANTS
  MinSources,    \* with fewer sources the device is refused
  MaxHwSources,  \* the most voices that are called hardware voices
  GroupSize      \* the buffers of a BufferSubList

ASSUME LimitsAssumption ==
  /\ MinSources \in Nat /\ MaxHwSources \in Nat
  /\ MaxHwSources > 1 /\ MinSources >= MaxHwSources
  /\ GroupSize \in Nat \ {0}

AtLeastZero(n) == IF n < 0 THEN 0 ELSE n

TotalSources(mono, stereo) == AtLeastZero(mono) + AtLeastZero(stereo)
IsAccepted(total) == total >= MinSources

HwLimit(total) ==
  IF total > 2 * MaxHwSources THEN MaxHwSources ELSE MaxHwSources \div 2
SwLimit(total) == total - HwLimit(total)

\* The groups that Initialize prepares.
Groups(hw) == (hw + GroupSize - 1) \div GroupSize

\* mRefresh, updates a second, of what ALC_REFRESH is.
Refresh(r) == IF r < 20 THEN 20 ELSE IF r > 100 THEN 100 ELSE r

\* In milliseconds, rounded down after each operation.
WaitTime(refresh) == ((1000 \div refresh) * 3) \div 5

-----------------------------------------------------------------------------
(* The voices of the two kinds are the sources that OpenAL has, none is    *)
(* lost or counted twice: a voice that is counted can be generated.  There *)
(* are voices of each kind, and most of them are software ones.            *)
VoicesAreSources(mono, stereo) ==
  LET total == TotalSources(mono, stereo) IN
  IsAccepted(total) =>
    /\ HwLimit(total) + SwLimit(total) = total
    /\ 0 < HwLimit(total) /\ HwLimit(total) <= MaxHwSources
    /\ HwLimit(total) <= SwLimit(total)

(* The prepared groups have a place for each hardware voice, and no group  *)
(* is prepared for nothing.                                                *)
GroupsSuffice(hw) ==
  hw <= Groups(hw) * GroupSize /\ Groups(hw) * GroupSize < hw + GroupSize

(* Whatever the rate, the thread does wait: it never spins on its list.    *)
(* And it polls at least once between two updates of OpenAL, as the        *)
(* comment on the wait time has it.                                        *)
ThreadIsPaced(r) ==
  LET refresh == Refresh(r) IN
  0 < WaitTime(refresh) /\ WaitTime(refresh) * refresh < 1000
=============================================================================
