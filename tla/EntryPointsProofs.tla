------------------------- MODULE EntryPointsProofs -------------------------
(***************************************************************************)
(* Proofs about DeviceList and EntryPoints, for any number of objects,     *)
(* GUIDs and addresses.  What is proved of the list rests on its own four  *)
(* operations only; a step of an entry point is a step of the list or      *)
(* leaves it alone, which carries the invariant over.                      *)
(***************************************************************************)
EXTENDS EntryPoints, FiniteSetTheorems, TLAPS

Releasers(d) == {o \in Objects : release[o] = d}

(* mRef counts the holders of every device there is, the revived ones too. *)
CountInv == \A d \in Alive : ref[d] = Cardinality(Holders(d))

(* One thread will dispose of a device that lost its last reference, and   *)
(* nobody of a device that has one or of an address without a device.      *)
DisposalInv ==
  \A d \in Devices \ revived :
    IF d \in Alive /\ ref[d] = 0
      THEN \E o \in Objects : Releasers(d) = {o}
      ELSE Releasers(d) = {}

(* An object that has still to dispose of a device holds none.             *)
OneAtATime == \A o \in Objects : shared[o] # None => release[o] = None

ListInv ==
  TypeOK /\ ListExact /\ CountInv /\ DisposalInv /\ HeldIsAlive /\ OneAtATime

-----------------------------------------------------------------------------
(* Who holds a device, and how many.                                       *)

LEMMA HoldersFinite ==
  ASSUME NEW d
  PROVE  IsFiniteSet(Holders(d)) /\ Cardinality(Holders(d)) \in Nat
<1>1. Holders(d) \subseteq Objects
  BY DEF Holders
<1> QED BY <1>1, FiniteAssumption, FS_Subset, FS_CardinalityType

(* A device is counted to zero exactly when nobody holds it.               *)
LEMMA ZeroIsUnheld ==
  ASSUME CountInv, NEW d \in Alive
  PROVE  ref[d] = 0 <=> Holders(d) = {}
BY HoldersFinite, FS_EmptySet DEF CountInv

(* While the behaviour is defined nobody holds an address without a device.*)
LEMMA FreeIsUnheld ==
  ASSUME ~Undefined, NEW d \in Devices \ Alive
  PROVE  Holders(d) = {}
BY DEF Undefined, Holders

-----------------------------------------------------------------------------
(* An object that has no device takes a reference to device d, which       *)
(* counted n references before.                                            *)
LEMMA TakeReference ==
  ASSUME TypeOK, NEW o \in Objects, NEW d \in Devices, shared[o] = None,
         shared' = [shared EXCEPT ![o] = d]
  PROVE  /\ Cardinality(Holders(d)') = Cardinality(Holders(d)) + 1
         /\ \A e \in Devices \ {d} : Holders(e)' = Holders(e)
<1>1. Holders(d)' = Holders(d) \cup {o} /\ o \notin Holders(d)
  BY NoneAssumption DEF Holders, TypeOK
<1>2. \A e \in Devices \ {d} : Holders(e)' = Holders(e)
  BY NoneAssumption DEF Holders, TypeOK
<1> QED BY <1>1, <1>2, HoldersFinite, FS_AddElement

(* An object gives its reference back.                                     *)
LEMMA DropReference ==
  ASSUME TypeOK, NEW o \in Objects, NEW d \in Devices, shared[o] = d,
         shared' = [shared EXCEPT ![o] = None]
  PROVE  /\ Cardinality(Holders(d)) > 0
         /\ Cardinality(Holders(d)') = Cardinality(Holders(d)) - 1
         /\ \A e \in Devices \ {d} : Holders(e)' = Holders(e)
<1>1. Holders(d)' = Holders(d) \ {o} /\ o \in Holders(d)
  BY NoneAssumption DEF Holders, TypeOK
<1>2. \A e \in Devices \ {d} : Holders(e)' = Holders(e)
  BY NoneAssumption DEF Holders, TypeOK
<1>3. /\ Cardinality(Holders(d)) # 0
      /\ Cardinality(Holders(d) \ {o}) = Cardinality(Holders(d)) - 1
  BY <1>1, HoldersFinite, FS_RemoveElement, FS_EmptySet
<1> QED BY <1>1, <1>2, <1>3, HoldersFinite

-----------------------------------------------------------------------------
LEMMA InitListInv == Init => ListInv
<1> SUFFICES ASSUME Init PROVE ListInv
  OBVIOUS
<1>1. TypeOK /\ Alive = {}
  BY DEF Init, TypeOK, Alive
<1>2. \A d \in Devices : Releasers(d) = {}
  BY NoneAssumption DEF Init, Releasers
<1>3. HeldIsAlive
  BY NoneAssumption DEF Init, HeldIsAlive
<1> QED
  BY <1>1, <1>2, <1>3
  DEF Init, ListInv, ListExact, CountInv, DisposalInv, OneAtATime

LEMMA FindDeviceListInv ==
  ASSUME ListInv, NEW o \in Objects, NEW d \in Devices, FindDevice(o, d)
  PROVE  ListInv'
<1> USE DEF ListInv
<1>0. /\ ~Undefined /\ shared[o] = None /\ release[o] = None /\ d \in Alive
      /\ Alive' = Alive
  BY DEF FindDevice, Uninitialized, ListExact, Alive
<1>1. TypeOK'
  BY DEF FindDevice, TypeOK
<1>2. ListExact'
  BY <1>0 DEF FindDevice, ListExact
<1>3. CountInv'
  <2>1. /\ Cardinality(Holders(d)') = Cardinality(Holders(d)) + 1
        /\ \A e \in Devices \ {d} : Holders(e)' = Holders(e)
    BY <1>0, TakeReference DEF FindDevice
  <2>2. ref'[d] = ref[d] + 1 /\ \A e \in Devices \ {d} : ref'[e] = ref[e]
    BY DEF FindDevice, TypeOK
  <2> QED BY <1>0, <2>1, <2>2 DEF CountInv, Alive
<1>4. DisposalInv'
  <2> SUFFICES ASSUME NEW e \in Devices \ revived'
               PROVE  IF e \in Alive' /\ ref'[e] = 0
                        THEN \E p \in Objects : Releasers(e)' = {p}
                        ELSE Releasers(e)' = {}
    BY DEF DisposalInv
  <2>1. Releasers(e)' = Releasers(e) /\ e \notin revived
    BY DEF Releasers, FindDevice
  <2>2. CASE e = d
    BY <1>0, <2>1, <2>2 DEF DisposalInv, FindDevice, TypeOK
  <2>3. CASE e # d
    BY <1>0, <2>1, <2>3 DEF DisposalInv, FindDevice, TypeOK
  <2> QED BY <2>2, <2>3
<1>5. HeldIsAlive'
  BY <1>0 DEF HeldIsAlive, FindDevice, TypeOK
<1>6. OneAtATime'
  BY <1>0 DEF OneAtATime, FindDevice, TypeOK
<1> QED BY <1>1, <1>2, <1>3, <1>4, <1>5, <1>6

LEMMA CreateDeviceListInv ==
  ASSUME ListInv, NEW o \in Objects, NEW g \in Guids, CreateDevice(o, g)
  PROVE  ListInv'
<1> USE DEF ListInv
<1>0. PICK d \in Devices \ Alive :
        /\ id' = [id EXCEPT ![d] = g]
        /\ ref' = [ref EXCEPT ![d] = 1]
        /\ deviceList' = deviceList \cup {d}
        /\ shared' = [shared EXCEPT ![o] = d]
  BY DEF CreateDevice
<1>1. /\ ~Undefined /\ shared[o] = None /\ release[o] = None
      /\ UNCHANGED <<release, revived>>
      /\ \A e \in deviceList : id[e] # g
  BY DEF CreateDevice, Uninitialized
<1>2. TypeOK'
  BY <1>0, <1>1 DEF TypeOK
<1>3. Alive' = Alive \cup {d}
  BY <1>0, NoneAssumption DEF Alive, TypeOK
<1>4. ListExact'
  BY <1>0, <1>1, <1>3 DEF ListExact, TypeOK, Alive
<1>5. CountInv'
  <2>1. /\ Cardinality(Holders(d)') = Cardinality(Holders(d)) + 1
        /\ \A e \in Devices \ {d} : Holders(e)' = Holders(e)
    BY <1>0, <1>1, TakeReference
  <2>2. Cardinality(Holders(d)) = 0
    BY <1>1, FreeIsUnheld, FS_EmptySet
  <2>3. ref'[d] = 1 /\ \A e \in Devices \ {d} : ref'[e] = ref[e]
    BY <1>0 DEF TypeOK
  <2> QED BY <1>3, <2>1, <2>2, <2>3 DEF CountInv, Alive
<1>6. DisposalInv'
  <2> SUFFICES ASSUME NEW e \in Devices \ revived'
               PROVE  IF e \in Alive' /\ ref'[e] = 0
                        THEN \E p \in Objects : Releasers(e)' = {p}
                        ELSE Releasers(e)' = {}
    BY DEF DisposalInv
  <2>1. Releasers(e)' = Releasers(e) /\ e \notin revived
    BY <1>1 DEF Releasers
  <2>2. CASE e = d
    BY <1>0, <2>1, <2>2 DEF DisposalInv, TypeOK
  <2>3. CASE e # d
    BY <1>0, <1>3, <2>1, <2>3 DEF DisposalInv, TypeOK
  <2> QED BY <2>2, <2>3
<1>7. HeldIsAlive'
  BY <1>0, <1>1, <1>3 DEF HeldIsAlive, TypeOK
<1>8. OneAtATime'
  BY <1>0, <1>1 DEF OneAtATime, TypeOK
<1> QED BY <1>2, <1>4, <1>5, <1>6, <1>7, <1>8

LEMMA ReleaseListInv ==
  ASSUME ListInv, NEW o \in Objects, Release(o)
  PROVE  ListInv'
<1> USE DEF ListInv
<1>0. PICK d \in Devices : d = shared[o]
  BY DEF Release
<1>1. /\ d \in Alive /\ Alive' = Alive /\ release[o] = None
      /\ release' = [release EXCEPT ![o] = IF ref[d] = 1 THEN d ELSE None]
      /\ ref' = [ref EXCEPT ![d] = @ - 1]
      /\ shared' = [shared EXCEPT ![o] = None]
      /\ UNCHANGED <<deviceList, id, revived>>
  BY <1>0, NoneAssumption DEF Release, Undefined, Alive, OneAtATime
<1>2. /\ Cardinality(Holders(d)) > 0
      /\ Cardinality(Holders(d)') = Cardinality(Holders(d)) - 1
      /\ \A e \in Devices \ {d} : Holders(e)' = Holders(e)
  BY <1>0, <1>1, DropReference
<1>3. ref[d] = Cardinality(Holders(d)) /\ ref[d] \in Nat
  BY <1>1 DEF CountInv, TypeOK
<1>4. /\ ref'[d] = ref[d] - 1 /\ ref[d] > 0
      /\ \A e \in Devices \ {d} : ref'[e] = ref[e]
  BY <1>1, <1>2, <1>3 DEF TypeOK
<1>5. TypeOK'
  <2>1. ref' \in [Devices -> Nat]
    BY <1>1, <1>3, <1>4 DEF TypeOK
  <2> QED BY <1>0, <1>1, <2>1 DEF TypeOK
<1>6. ListExact'
  BY <1>1 DEF ListExact
<1>7. CountInv'
  BY <1>1, <1>2, <1>3, <1>4 DEF CountInv, Alive
<1>8. DisposalInv'
  <2> SUFFICES ASSUME NEW e \in Devices \ revived'
               PROVE  IF e \in Alive' /\ ref'[e] = 0
                        THEN \E p \in Objects : Releasers(e)' = {p}
                        ELSE Releasers(e)' = {}
    BY DEF DisposalInv
  <2>0. e \notin revived
    BY <1>1
  <2>1. CASE e = d
    <3>1. Releasers(e) = {}
      BY <1>1, <1>4, <2>0, <2>1 DEF DisposalInv
    <3>2. CASE ref[d] = 1
      <4>1. Releasers(e)' = {o}
        BY <1>1, <2>1, <3>1, <3>2 DEF Releasers, TypeOK
      <4> QED BY <1>1, <1>3, <1>4, <2>1, <3>2, <4>1
    <3>3. CASE ref[d] # 1
      <4>1. Releasers(e)' = {}
        BY <1>1, <2>1, <3>1, <3>3, NoneAssumption DEF Releasers, TypeOK
      <4> QED BY <1>1, <1>3, <1>4, <2>1, <3>3, <4>1
    <3> QED BY <3>2, <3>3
  <2>2. CASE e # d
    <3>1. Releasers(e)' = Releasers(e)
      BY <1>1, <2>2, NoneAssumption DEF Releasers, TypeOK
    <3> QED BY <1>1, <1>4, <2>0, <2>2, <3>1 DEF DisposalInv
  <2> QED BY <2>1, <2>2
<1>9. HeldIsAlive' /\ OneAtATime'
  BY <1>1, NoneAssumption DEF HeldIsAlive, OneAtATime, TypeOK
<1> QED BY <1>5, <1>6, <1>7, <1>8, <1>9

LEMMA DisposeListInv ==
  ASSUME ListInv, NEW o \in Objects, Dispose(o)
  PROVE  ListInv'
<1> USE DEF ListInv
<1>0. PICK d \in Devices : d = release[o]
  BY DEF Dispose
<1>1. /\ release' = [release EXCEPT ![o] = None]
      /\ UNCHANGED <<ref, shared, revived>>
  BY DEF Dispose
<1>2. \A e \in Devices : Holders(e)' = Holders(e)
  BY <1>1 DEF Holders
<1>3. /\ \A e \in Devices \ {d} : Releasers(e)' = Releasers(e)
      /\ Releasers(d)' = Releasers(d) \ {o} /\ o \in Releasers(d)
  BY <1>0, <1>1, NoneAssumption DEF Releasers, TypeOK
<1>4. OneAtATime'
  BY <1>1 DEF OneAtATime, TypeOK
<1>5. d \notin revived => d \in Alive /\ ref[d] = 0 /\ Releasers(d)' = {}
  BY <1>3 DEF DisposalInv
<1>6. CASE d \in deviceList
  <2>1. /\ deviceList' = deviceList \ {d}
        /\ id' = [id EXCEPT ![d] = None]
    BY <1>0, <1>6 DEF Dispose
  <2>2. Alive' = Alive \ {d}
    BY <2>1 DEF Alive, TypeOK
  <2>3. TypeOK' /\ ListExact'
    BY <1>1, <2>1, <2>2 DEF TypeOK, ListExact, Alive
  <2>4. CountInv'
    BY <1>1, <1>2, <2>2 DEF CountInv, Alive
  <2>5. HeldIsAlive'
    <3>1. d \notin revived => Holders(d) = {}
      BY <1>5, ZeroIsUnheld
    <3> QED BY <1>1, <2>2, <3>1 DEF HeldIsAlive, Holders
  <2>6. DisposalInv'
    <3> SUFFICES ASSUME NEW e \in Devices \ revived'
                 PROVE  IF e \in Alive' /\ ref'[e] = 0
                          THEN \E p \in Objects : Releasers(e)' = {p}
                          ELSE Releasers(e)' = {}
      BY DEF DisposalInv
    <3>1. CASE e = d
      BY <1>1, <1>5, <2>2, <3>1
    <3>2. CASE e # d
      BY <1>1, <1>3, <2>2, <3>2 DEF DisposalInv
    <3> QED BY <3>1, <3>2
  <2> QED BY <1>4, <2>3, <2>4, <2>5, <2>6
<1>7. CASE d \notin deviceList
  <2>1. UNCHANGED <<deviceList, id>> /\ Alive' = Alive
    BY <1>0, <1>7 DEF Dispose, Alive
  <2>2. d \in revived
    BY <1>5, <1>7 DEF ListExact
  <2>3. TypeOK' /\ ListExact' /\ CountInv' /\ HeldIsAlive'
    BY <1>1, <1>2, <2>1 DEF TypeOK, ListExact, CountInv, Alive, HeldIsAlive
  <2>4. DisposalInv'
    BY <1>1, <1>3, <2>1, <2>2 DEF DisposalInv
  <2> QED BY <1>4, <2>3, <2>4
<1> QED BY <1>6, <1>7

-----------------------------------------------------------------------------
LEMMA NextListInv == ListInv /\ [Next]_vars => ListInv'
<1> SUFFICES ASSUME ListInv, [Next]_vars PROVE ListInv'
  OBVIOUS
<1>1. ASSUME NEW o \in Objects, GetById(o) PROVE ListInv'
  BY <1>1, FindDeviceListInv, CreateDeviceListInv DEF GetById
<1>2. ASSUME NEW o \in Objects, Release(o) PROVE ListInv'
  BY <1>2, ReleaseListInv
<1>3. ASSUME NEW o \in Objects, Dispose(o) PROVE ListInv'
  BY <1>3, DisposeListInv
<1>4. CASE UNCHANGED vars
  BY <1>4
  DEF vars, ListInv, TypeOK, ListExact, CountInv, DisposalInv, HeldIsAlive,
      OneAtATime, Alive, Holders, Releasers
<1> QED BY <1>1, <1>2, <1>3, <1>4 DEF Next

(* Whatever sequence of its operations the list goes through, alone, its   *)
(* inductive invariant holds.                                              *)
THEOREM ListInvariance == Init /\ [][Next]_vars => []ListInv
BY InitListInv, NextListInv, PTL

(* The count of a device that was not revived, as the invariant has it.    *)
LEMMA DisposalsCounted ==
  ASSUME ListInv
  PROVE  RefsExact
<1> SUFFICES ASSUME NEW d \in Alive \ revived
             PROVE  /\ ref[d] = Cardinality(Holders(d))
                    /\ Cardinality(Releasers(d)) = IF ref[d] = 0 THEN 1 ELSE 0
  BY DEF RefsExact, Releasers
<1>1. ref[d] = Cardinality(Holders(d))
  BY DEF ListInv, CountInv
<1>2. IF ref[d] = 0 THEN \E o \in Objects : Releasers(d) = {o}
                    ELSE Releasers(d) = {}
  BY DEF ListInv, DisposalInv, Alive
<1> QED BY <1>1, <1>2, FS_EmptySet, FS_Singleton

-----------------------------------------------------------------------------
(* The entry points.                                                       *)

(* A full duplex that is being initialised, or was, has its DSound8OAL, and *)
(* that one a device; the capture half is made last.                       *)
DuplexInv ==
  /\ duplex.at \in {"Level", "Buffer", "Capture"} =>
       duplex.ds8 # None /\ ~duplex.dsc
  /\ duplex.at = "Query" => duplex.ds8 # None /\ duplex.dsc
  /\ duplex.ds8 # None =>
       owner[duplex.ds8] = "Duplex" /\ shared[duplex.ds8] # None

EntryInv == ListInv /\ EntryTypeOK /\ DuplexInv /\ HandlesExact

LEMMA InitEntryInv == EntryInit => EntryInv
<1> SUFFICES ASSUME EntryInit PROVE EntryInv
  OBVIOUS
<1>1. ListInv
  BY InitListInv DEF EntryInit
<1> QED
  BY <1>1
  DEF EntryInit, Init, EntryInv, ListInv, EntryTypeOK, DuplexInv, HandlesExact

(* What initialising an object does to the devices objects have.           *)
LEMMA GetByIdShares ==
  ASSUME NEW o \in Objects, GetById(o)
  PROVE  /\ shared[o] = None
         /\ \E d \in Devices : shared' = [shared EXCEPT ![o] = d]
BY DEF GetById, FindDevice, CreateDevice, Uninitialized

LEMMA ReleaseUnshares ==
  ASSUME NEW o \in Objects, Release(o)
  PROVE  shared' = [shared EXCEPT ![o] = None]
BY DEF Release

(* A step of the application: it is an operation of the list, or none.     *)
LEMMA ApplicationEntryInv ==
  ASSUME EntryInv, NEW o \in Objects,
         \/ DirectSoundCreate(o) \/ CreateInstance(o) \/ Initialize(o)
         \/ Destroy(o) \/ EndDispose(o)
  PROVE  EntryInv' /\ [Next]_vars
<1>1. [Next]_vars
  BY DEF DirectSoundCreate, CreateInstance, Initialize, Destroy, EndDispose,
         Next
<1>2. ListInv'
  BY <1>1, NextListInv DEF EntryInv
<1>3. EntryTypeOK'
  BY <1>2
  DEF DirectSoundCreate, CreateInstance, Initialize, Destroy, EndDispose, Own,
      EntryInv, EntryTypeOK, ListInv
<1>4. DuplexInv' /\ HandlesExact'
  <2> USE DEF EntryInv, EntryTypeOK, TypeOK, DuplexInv, HandlesExact, Own
  <2>1. CASE DirectSoundCreate(o) \/ Initialize(o)
    BY <2>1, GetByIdShares, NoneAssumption DEF DirectSoundCreate, Initialize
  <2>2. CASE CreateInstance(o)
    BY <2>2 DEF CreateInstance, Uninitialized, vars
  <2>3. CASE Destroy(o)
    BY <2>3, ReleaseUnshares DEF Destroy, vars
  <2>4. CASE EndDispose(o)
    BY <2>4 DEF EndDispose, Dispose
  <2> QED BY <2>1, <2>2, <2>3, <2>4
<1> QED BY <1>1, <1>2, <1>3, <1>4 DEF EntryInv

(* The full duplex gives its DSound8OAL up.                                *)
LEMMA DropDS8EntryInv ==
  ASSUME EntryInv, duplex.ds8 # None, NEW step \in {"Idle", "Lost"},
         DropDS8(step)
  PROVE  EntryInv' /\ [Next]_vars
<1>1. duplex.ds8 \in Objects
  BY DEF EntryInv, EntryTypeOK
<1>2. [Next]_vars
  BY <1>1 DEF DropDS8, Next
<1>3. ListInv'
  BY <1>2, NextListInv DEF EntryInv
<1>4. EntryTypeOK'
  BY <1>1, <1>3 DEF DropDS8, Own, EntryInv, EntryTypeOK, ListInv
<1>5. DuplexInv' /\ HandlesExact'
  BY <1>1, ReleaseUnshares
  DEF DropDS8, Own, EntryInv, EntryTypeOK, TypeOK, DuplexInv, HandlesExact
<1> QED BY <1>2, <1>3, <1>4, <1>5 DEF EntryInv

LEMMA DuplexDeviceEntryInv ==
  ASSUME EntryInv, NEW o \in Objects, DuplexDevice(o)
  PROVE  EntryInv' /\ [Next]_vars
<1>1. [Next]_vars
  BY DEF DuplexDevice, Next
<1>2. ListInv'
  BY <1>1, NextListInv DEF EntryInv
<1>3. /\ duplex' = [duplex EXCEPT !.at = "Level", !.ds8 = o]
      /\ owner' = [owner EXCEPT ![o] = "Duplex"]
      /\ duplex.ds8 = None /\ ~duplex.dsc
  BY DEF DuplexDevice, Own
<1>4. EntryTypeOK'
  BY <1>2, <1>3 DEF EntryInv, EntryTypeOK, ListInv
<1>5. DuplexInv' /\ HandlesExact'
  BY <1>3, GetByIdShares, NoneAssumption
  DEF DuplexDevice, EntryInv, EntryTypeOK, TypeOK, DuplexInv, HandlesExact
<1> QED BY <1>1, <1>2, <1>4, <1>5 DEF EntryInv

(* The steps of its Initialize that reach no device.                       *)
LEMMA DuplexQuietEntryInv ==
  ASSUME EntryInv,
         \/ DuplexLevel \/ DuplexCapture \/ DuplexQuery
         \/ \E kind \in {"Secondary", "Primary"} : DuplexBuffer(kind)
         \/ UNCHANGED entryVars
  PROVE  EntryInv' /\ [Next]_vars
<1>1. UNCHANGED <<vars, owner>>
  BY DEF DuplexLevel, DuplexCapture, DuplexQuery, DuplexBuffer, entryVars
<1>2. ListInv'
  BY <1>1, NextListInv DEF EntryInv
<1>3. EntryTypeOK'
  BY <1>1, <1>2
  DEF DuplexLevel, DuplexCapture, DuplexQuery, DuplexBuffer, entryVars,
      EntryInv, EntryTypeOK, ListInv
<1>4. DuplexInv' /\ HandlesExact'
  BY <1>1
  DEF DuplexLevel, DuplexCapture, DuplexQuery, DuplexBuffer, DuplexAt,
      entryVars, vars, EntryInv, EntryTypeOK, DuplexInv, HandlesExact
<1> QED BY <1>1, <1>2, <1>3, <1>4 DEF EntryInv

LEMMA NextEntryInv ==
  EntryInv /\ [EntryNext]_entryVars => EntryInv' /\ [Next]_vars
<1> SUFFICES ASSUME EntryInv, [EntryNext]_entryVars
             PROVE  EntryInv' /\ [Next]_vars
  OBVIOUS
<1>1. ASSUME NEW o \in Objects,
             \/ DirectSoundCreate(o) \/ CreateInstance(o) \/ Initialize(o)
             \/ Destroy(o) \/ EndDispose(o)
      PROVE  EntryInv' /\ [Next]_vars
  BY <1>1, ApplicationEntryInv
<1>2. CASE \E o \in Objects : DuplexDevice(o)
  BY <1>2, DuplexDeviceEntryInv
<1>3. CASE DuplexFails \/ DuplexCaptureFails \/ DuplexDestroy
  <2>1. duplex.ds8 # None /\ (DropDS8("Idle") \/ DropDS8("Lost"))
    BY <1>3
    DEF DuplexFails, DuplexCaptureFails, DuplexDestroy, DuplexAt, EntryInv,
        DuplexInv
  <2> QED BY <2>1, DropDS8EntryInv
<1>4. CASE \/ DuplexLevel \/ DuplexCapture \/ DuplexQuery
           \/ \E kind \in {"Secondary", "Primary"} : DuplexBuffer(kind)
           \/ UNCHANGED entryVars
  BY <1>4, DuplexQuietEntryInv
<1> QED BY <1>1, <1>2, <1>3, <1>4 DEF EntryNext, DuplexInitialize

LEMMA EntryInvariance == EntrySpec => []EntryInv
BY InitEntryInv, NextEntryInv, PTL DEF EntrySpec

(* A program that comes and goes through the entry points never does       *)
(* anything to the list that is not one of the list's operations, whichever *)
(* step of a full duplex fails: Initialize, Release and the failure paths  *)
(* reach mRef in no other way.                                             *)
THEOREM EntryPointsUseTheList == EntrySpec => Init /\ [][Next]_vars
<1>1. EntryInit => Init
  BY DEF EntryInit
<1> QED BY <1>1, EntryInvariance, NextEntryInv, PTL DEF EntrySpec

(* mRef never wraps below zero, and every handle is of its type.           *)
THEOREM EntryTypeCorrect == EntrySpec => []EntryTypeOK
<1>1. EntryInv => EntryTypeOK
  BY DEF EntryInv
<1> QED BY <1>1, EntryInvariance, PTL

(* The list holds the devices there are, one per GUID, so that two objects *)
(* of one GUID always share one device.                                    *)
THEOREM ListIsExact == EntrySpec => []ListExact
<1>1. ListInv => ListExact
  BY DEF ListInv
<1> QED BY <1>1, EntryPointsUseTheList, ListInvariance, PTL

(* mRef counts the holders, and one thread disposes of a device whose last *)
(* reference is gone, unless GetById revived it.                           *)
THEOREM RefsAreExact == EntrySpec => []RefsExact
BY DisposalsCounted, EntryPointsUseTheList, ListInvariance, PTL

(* Dispose frees no device that an object holds, unless GetById found it   *)
(* between its last Release and dispose.                                   *)
THEOREM HeldDevicesAlive == EntrySpec => []HeldIsAlive
<1>1. ListInv => HeldIsAlive
  BY DEF ListInv
<1> QED BY <1>1, EntryPointsUseTheList, ListInvariance, PTL

(* No failure path leaves an object with a device and without an owner, or *)
(* a full duplex with one of its halves.                                   *)
THEOREM HandlesAreExact == EntrySpec => []HandlesExact
<1>1. EntryInv => HandlesExact
  BY DEF EntryInv
<1> QED BY <1>1, EntryInvariance, PTL

=============================================================================
