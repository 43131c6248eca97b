----------------------------- MODULE DeviceList -----------------------------
(***************************************************************************)
(* The list of SharedDevices of the process and their reference counts.    *)
(* Every DSound8OAL object that was initialised holds a reference to the   *)
(* device of its GUID; the list itself holds none.  GetById and dispose    *)
(* run under sDeviceListMutex from beginning to end, so each is one step,  *)
(* but Release drops mRef without the mutex and only then calls dispose,   *)
(* which does not look at mRef again: GetById may have found the device    *)
(* in between.                                                             *)
(*                                                                         *)
(* A member of Devices is an address: it may be used again for another     *)
(* device.  Once an object holds an address that was freed, what the       *)
(* program does is undefined, and the model stops.                         *)
(***************************************************************************)
EXTENDS Naturals, FiniteSets

CONSTANTS
  Objects,  \* the DSound8OAL objects
  Guids,    \* the device GUIDs
  Devices,  \* the addresses a SharedDevice may have
  None      \* no SharedDevice

ASSUME FiniteAssumption == IsFiniteSet(Objects)
ASSUME NoneAssumption == None \notin Devices \cup Guids \cup Objects

VARIABLES
  deviceList,  \* sDeviceList
  id,          \* per address, the mId of the device there, or None
  ref,         \* per address, mRef
  shared,      \* per object, mShared
  release,     \* per object, the device whose last reference it dropped and
               \* that it has still to dispose of
  revived      \* history: the addresses of which mRef rose again from zero

vars == <<deviceList, id, ref, shared, release, revived>>

Alive == {d \in Devices : id[d] # None}
Holders(d) == {o \in Objects : shared[o] = d}
Undefined == \E o \in Objects : shared[o] \in Devices \ Alive

Init ==
  /\ deviceList = {}
  /\ id = [d \in Devices |-> None]
  /\ ref = [d \in Devices |-> 0]
  /\ shared = [o \in Objects |-> None]
  /\ release = [o \in Objects |-> None]
  /\ revived = {}

-----------------------------------------------------------------------------
(* GetById, called by Initialize on an object that has no device.          *)

Uninitialized(o) == ~Undefined /\ shared[o] = None /\ release[o] = None

\* Mutant: the device that was found is returned without a reference.
FindUncounted(o, d) ==
  /\ Uninitialized(o) /\ d \in deviceList
  /\ shared' = [shared EXCEPT ![o] = d]
  /\ UNCHANGED <<deviceList, id, ref, release, revived>>

FindDevice(o, d) ==
  /\ Uninitialized(o) /\ d \in deviceList
  /\ ref' = [ref EXCEPT ![d] = @ + 1]
  /\ shared' = [shared EXCEPT ![o] = d]
  /\ revived' = IF ref[d] = 0 THEN revived \cup {d} ELSE revived
  /\ UNCHANGED <<deviceList, id, release>>

\* Mutant: every object gets a device of its own.
CreateAlways(o, g) ==
  /\ Uninitialized(o)
  /\ \E d \in Devices \ Alive :
       /\ id' = [id EXCEPT ![d] = g]
       /\ ref' = [ref EXCEPT ![d] = 1]
       /\ deviceList' = deviceList \cup {d}
       /\ shared' = [shared EXCEPT ![o] = d]
  /\ UNCHANGED <<release, revived>>

\* No device of that GUID is listed.  When CreateDeviceShare fails nothing
\* changes.
CreateDevice(o, g) ==
  /\ Uninitialized(o)
  /\ \A d \in deviceList : id[d] # g
  /\ \E d \in Devices \ Alive :
       /\ id' = [id EXCEPT ![d] = g]
       /\ ref' = [ref EXCEPT ![d] = 1]
       /\ deviceList' = deviceList \cup {d}
       /\ shared' = [shared EXCEPT ![o] = d]
  /\ UNCHANGED <<release, revived>>

GetById(o) ==
  \/ \E d \in Devices : FindDevice(o, d)
  \/ \E g \in Guids : CreateDevice(o, g)

-----------------------------------------------------------------------------
(* The destruction of an object releases its device.                       *)

\* Mutant: dispose is left to the next Release.
ReleaseSilently(o) ==
  /\ ~Undefined /\ shared[o] \in Devices
  /\ ref' = [ref EXCEPT ![shared[o]] = @ - 1]
  /\ shared' = [shared EXCEPT ![o] = None]
  /\ UNCHANGED <<deviceList, id, release, revived>>

\* Mutant: the caller that leaves one reference disposes of the device.
ReleaseEarly(o) ==
  /\ ~Undefined /\ shared[o] \in Devices
  /\ ref' = [ref EXCEPT ![shared[o]] = @ - 1]
  /\ release' = [release EXCEPT ![o] =
                   IF ref[shared[o]] <= 2 THEN shared[o] ELSE None]
  /\ shared' = [shared EXCEPT ![o] = None]
  /\ UNCHANGED <<deviceList, id, revived>>

Release(o) ==
  /\ ~Undefined /\ shared[o] \in Devices
  /\ ref' = [ref EXCEPT ![shared[o]] = @ - 1]
  /\ release' = [release EXCEPT ![o] =
                   IF ref[shared[o]] = 1 THEN shared[o] ELSE None]
  /\ shared' = [shared EXCEPT ![o] = None]
  /\ UNCHANGED <<deviceList, id, revived>>

\* A device that is not listed any more was freed by somebody else.
Dispose(o) ==
  /\ ~Undefined /\ release[o] \in Devices
  /\ IF release[o] \in deviceList
       THEN /\ deviceList' = deviceList \ {release[o]}
            /\ id' = [id EXCEPT ![release[o]] = None]
       ELSE UNCHANGED <<deviceList, id>>
  /\ release' = [release EXCEPT ![o] = None]
  /\ UNCHANGED <<ref, shared, revived>>

Next == \E o \in Objects : GetById(o) \/ Release(o) \/ Dispose(o)

(* Fairness: a thread that is about to dispose of a device does so.        *)
Spec == Init /\ [][Next]_vars /\ \A o \in Objects : WF_vars(Dispose(o))

-----------------------------------------------------------------------------
(* Correctness.                                                            *)

TypeOK ==
  /\ deviceList \subseteq Devices
  /\ id \in [Devices -> Guids \cup {None}]
  /\ ref \in [Devices -> Nat]
  /\ shared \in [Objects -> Devices \cup {None}]
  /\ release \in [Objects -> Devices \cup {None}]
  /\ revived \subseteq Devices

(* The list holds exactly the devices there are, at most one per GUID, so  *)
(* that objects of one GUID share one device.                              *)
ListExact ==
  /\ deviceList = Alive
  /\ \A d, e \in Alive : id[d] = id[e] => d = e

(* mRef counts the objects that hold the device, and the device whose last *)
(* reference is gone has exactly one thread that will dispose of it -      *)
(* unless it was revived, which leaves a second disposal behind.           *)
RefsExact ==
  \A d \in Alive \ revived :
    /\ ref[d] = Cardinality(Holders(d))
    /\ Cardinality({o \in Objects : release[o] = d}) =
         IF ref[d] = 0 THEN 1 ELSE 0

(* No object holds a device that was freed, unless GetById found it        *)
(* between its last Release and dispose.                                   *)
HeldIsAlive ==
  \A o \in Objects : shared[o] \in Devices => shared[o] \in Alive \cup revived

(* A device nobody holds does not stay: it is freed, or held again.        *)
UnusedIsFreed ==
  \A d \in Devices :
    (id[d] # None /\ Holders(d) = {}) ~>
      (id[d] = None \/ Holders(d) # {} \/ Undefined)
=============================================================================
