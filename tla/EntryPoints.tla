----------------------------- MODULE EntryPoints -----------------------------
(***************************************************************************)
(* How DSound8OAL objects come and go, over the list of SharedDevices: by  *)
(* DirectSoundCreate, by a class factory and Initialize, and as a part of  *)
(* a DSFullDuplex, whose Initialize makes a DSound8OAL with a buffer and a *)
(* DSCapture with a buffer one after the other and takes them back when a  *)
(* later one fails.                                                        *)
(*                                                                         *)
(* When the capture side fails, Initialize drops its handle of the         *)
(* DSound8OAL before its local reference to a buffer of that object, whose *)
(* release is then undefined.  The model lets the device be released and   *)
(* takes that DSFullDuplex out of use ("Lost").                            *)
(***************************************************************************)
EXTENDS DeviceList

VARIABLES
  owner,   \* per object, who has a handle to it: the application ("App"), the
           \* full duplex ("Duplex"), or nobody, when it does not exist
  duplex   \* at: where Initialize is; ds8, dsc: mDS8Handle and whether there
           \* is an mDSCHandle; dsbuf: the kind of Initialize's local buffer

entryVars == <<vars, owner, duplex>>

EntryInit ==
  /\ Init
  /\ owner = [o \in Objects |-> "None"]
  /\ duplex = [at |-> "Idle", ds8 |-> None, dsc |-> FALSE, dsbuf |-> "None"]

-----------------------------------------------------------------------------
(* Objects of the application.                                             *)

Own(o, who) == owner' = [owner EXCEPT ![o] = who]

\* An object whose Initialize fails is destroyed again.
DirectSoundCreate(o) ==
  /\ owner[o] = "None" /\ GetById(o)
  /\ Own(o, "App") /\ UNCHANGED duplex

CreateInstance(o) ==
  /\ owner[o] = "None" /\ Uninitialized(o)
  /\ Own(o, "App") /\ UNCHANGED <<vars, duplex>>

Initialize(o) ==
  /\ owner[o] = "App" /\ GetById(o)
  /\ UNCHANGED <<owner, duplex>>

\* The last reference is released.
Destroy(o) ==
  /\ owner[o] = "App" /\ ~Undefined
  /\ IF shared[o] = None THEN UNCHANGED vars ELSE Release(o)
  /\ Own(o, "None") /\ UNCHANGED duplex

-----------------------------------------------------------------------------
(* The full duplex.  Its members are handles: what drops mDS8Handle drops  *)
(* the only reference to that object.                                      *)

DuplexAt(step) == duplex.at = step /\ ~Undefined

DuplexDevice(o) ==
  /\ DuplexAt("Idle") /\ duplex.ds8 = None /\ ~duplex.dsc
  /\ owner[o] = "None" /\ GetById(o)
  /\ Own(o, "Duplex")
  /\ duplex' = [duplex EXCEPT !.at = "Level", !.ds8 = o]

DropDS8(step) ==
  /\ Release(duplex.ds8) /\ Own(duplex.ds8, "None")
  /\ duplex' = [at |-> step, ds8 |-> None, dsc |-> FALSE, dsbuf |-> "None"]

DuplexLevel ==
  /\ DuplexAt("Level")
  /\ duplex' = [duplex EXCEPT !.at = "Buffer"]
  /\ UNCHANGED <<vars, owner>>

\* Mutant: the handle is kept.
DuplexFailsKeeping ==
  /\ DuplexAt("Level") \/ DuplexAt("Buffer")
  /\ duplex' = [duplex EXCEPT !.at = "Idle"]
  /\ UNCHANGED <<vars, owner>>

\* SetCooperativeLevel or CreateSoundBuffer fails.
DuplexFails == (DuplexAt("Level") \/ DuplexAt("Buffer")) /\ DropDS8("Idle")

DuplexBuffer(kind) ==
  /\ DuplexAt("Buffer")
  /\ duplex' = [duplex EXCEPT !.at = "Capture", !.dsbuf = kind]
  /\ UNCHANGED <<vars, owner>>

DuplexCapture ==
  /\ DuplexAt("Capture")
  /\ duplex' = [duplex EXCEPT !.at = "Query", !.dsc = TRUE]
  /\ UNCHANGED <<vars, owner>>

DuplexCaptureFails == DuplexAt("Capture") /\ DropDS8("Lost")

\* A primary buffer has no IDirectSoundBuffer8: the call fails and keeps both
\* handles.
DuplexQuery ==
  /\ DuplexAt("Query")
  /\ duplex' = [duplex EXCEPT !.at = "Idle", !.dsbuf = "None"]
  /\ UNCHANGED <<vars, owner>>

DuplexDestroy == DuplexAt("Idle") /\ duplex.ds8 # None /\ DropDS8("Idle")

DuplexInitialize ==
  \/ \E o \in Objects : DuplexDevice(o)
  \/ DuplexLevel \/ DuplexFails
  \/ \E kind \in {"Secondary", "Primary"} : DuplexBuffer(kind)
  \/ DuplexCapture \/ DuplexCaptureFails \/ DuplexQuery

-----------------------------------------------------------------------------

EndDispose(o) == Dispose(o) /\ UNCHANGED <<owner, duplex>>

EntryNext ==
  \/ \E o \in Objects :
       \/ DirectSoundCreate(o) \/ CreateInstance(o) \/ Initialize(o)
       \/ Destroy(o) \/ EndDispose(o)
  \/ DuplexInitialize \/ DuplexDestroy

(* Fairness: a thread that is about to dispose of a device does so.        *)
EntrySpec ==
  /\ EntryInit /\ [][EntryNext]_entryVars
  /\ \A o \in Objects : WF_entryVars(EndDispose(o))

-----------------------------------------------------------------------------
(* Correctness.                                                            *)

(* Every variable has a value of its type; in particular mRef never wraps  *)
(* below zero.                                                             *)
EntryTypeOK ==
  /\ TypeOK
  /\ owner \in [Objects -> {"None", "App", "Duplex"}]
  /\ duplex \in [at : {"Idle", "Level", "Buffer", "Capture", "Query", "Lost"},
                 ds8 : Objects \cup {None}, dsc : BOOLEAN,
                 dsbuf : {"None", "Secondary", "Primary"}]

(* Whatever fails, no device is left with an object that nobody has a      *)
(* handle to; and a full duplex that is not being initialised has both of  *)
(* its halves or none, and the halves it has are initialised.  It does not *)
(* say that there is something to forward a call to: a full duplex with    *)
(* neither half, never initialised or after a failure, forwards through a  *)
(* null handle (fullduplex.cpp:211).                                       *)
HandlesExact ==
  /\ \A o \in Objects :
       shared[o] # None =>
         owner[o] = "App" \/ (owner[o] = "Duplex" /\ duplex.ds8 = o)
  /\ duplex.at = "Idle" =>
       /\ duplex.dsc <=> duplex.ds8 # None
       /\ duplex.dsc => shared[duplex.ds8] # None
=============================================================================
