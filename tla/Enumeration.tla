----------------------------- MODULE Enumeration -----------------------------
(***************************************************************************)
(* The enumeration of devices: enumerate_mmdev and the entry points that   *)
(* hand it a callback.  Each runs under gDeviceListMutex from beginning to *)
(* end, so that it is a function of the endpoints the system has, of what  *)
(* the application answers, and of the list that the last enumeration left *)
(* behind, into which the GUIDs that were handed out point.                *)
(*                                                                         *)
(* An endpoint is visited as [guid, readable, name]: "readable" when its   *)
(* property store and GUID can be had, "name" NULL when its friendly name  *)
(* cannot.  The default endpoint is visited first, and again where it is   *)
(* in the collection; it may look different then.                          *)
(***************************************************************************)
EXTENDS Naturals, SequencesExt

CONSTANTS
  NULL,      \* no GUID, no friendly name
  Primary    \* what is handed out first: no GUID, the description of the
             \* primary driver

-----------------------------------------------------------------------------
(* enumerate_mmdev.  A system has "com", whether the enumerator can be     *)
(* made, the collection "coll", and "default", of no or one endpoint.  The *)
(* callback is asked about [guid, name], and answers FALSE, not to go on,  *)
(* for those in "stops".                                                   *)

Item(guid, name) == [guid |-> guid, name |-> name]

IsFirst(devlist, guid) == devlist # <<>> /\ Head(devlist) = guid

send_device(s, device, stops) ==
  IF ~device.readable \/ IsFirst(s.devlist, device.guid) THEN s
  ELSE LET listed == [s EXCEPT !.devlist = Append(@, device.guid)]
           item == Item(device.guid, device.name)
       IN IF ~s.keep_going \/ device.name = NULL THEN listed
          ELSE [listed EXCEPT !.called = Append(@, item),
                              !.keep_going = item \notin stops]

\* hr is "Failed", or whether the callback went on to the end.
enumerate_mmdev(system, devlist, stops) ==
  IF ~system.com \/ system.coll = <<>>
  THEN [hr |-> IF system.com THEN "Ok" ELSE "Failed",
        devlist |-> devlist, called |-> <<>>]
  ELSE LET first == Item(NULL, Primary)
           begun == [devlist |-> <<>>, called |-> <<first>>,
                     keep_going |-> first \notin stops]
           Send(s, device) == send_device(s, device, stops)
           ended == FoldLeft(Send, begun, system.default \o system.coll)
       IN [hr |-> IF ended.keep_going THEN "Ok" ELSE "False",
           devlist |-> ended.devlist, called |-> ended.called]

-----------------------------------------------------------------------------
(* The entry points.                                                       *)

\* DirectSoundEnumerate and DirectSoundCaptureEnumerate.
DirectSoundEnumerate(system, devlist, stops) ==
  LET r == enumerate_mmdev(system, devlist, stops)
  IN [r EXCEPT !.hr = IF @ = "Failed" THEN "Failed" ELSE "Ok"]

\* The enumeration of a property set does not hand the primary driver out,
\* and does the capture devices only after all of the others.
DSPROPERTY_Enumerate(render, capture, stops) ==
  LET asked == {item \in stops : item.guid # NULL}
      Handed(r) == SelectSeq(r.called, LAMBDA item : item.guid # NULL)
      first == enumerate_mmdev(render, <<>>, asked)
      second == enumerate_mmdev(capture, <<>>, asked)
  IN IF first.hr # "Ok" THEN Handed(first) ELSE Handed(first) \o Handed(second)

\* WaveDeviceMapping finds the GUID of a name.  Asked for the primary driver
\* it reads through the GUID that is not there.
DSPROPERTY_WaveDeviceMapping(system, name) ==
  LET guids == {v.guid : v \in ToSet(system.default \o system.coll)}
      r == enumerate_mmdev(system, <<>>, {Item(g, name) : g \in guids \cup {NULL}})
  IN IF r.hr = "False" THEN Last(r.called).guid ELSE NULL

-----------------------------------------------------------------------------
(* What they promise.                                                      *)

\* The devices that can be handed out, in the order of their first visits.
Presentable(system) ==
  LET visits == system.default \o system.coll
      Readable == SelectSeq(visits, LAMBDA v : v.readable)
      IsNew(i) == \A j \in 1 .. i - 1 : Readable[j].guid # Readable[i].guid
      new == SelectSeq([i \in DOMAIN Readable |-> <<Readable[i], IsNew(i)>>],
                       LAMBDA v : v[2] /\ v[1].name # NULL)
  IN [i \in DOMAIN new |-> Item(new[i][1].guid, new[i][1].name)]

\* A sequence up to its first member of a set.
UpTo(s, set) ==
  LET hits == {i \in DOMAIN s : s[i] \in set}
  IN IF hits = {} THEN s
     ELSE SubSeq(s, 1, CHOOSE i \in hits : \A j \in hits : i <= j)

(* An application is handed the primary driver, then the default device,   *)
(* then all others, each once, and nothing after it has answered FALSE.    *)
HandedOutExact(system, devlist, stops) ==
  LET r == DirectSoundEnumerate(system, devlist, stops)
      all == <<Item(NULL, Primary)>> \o Presentable(system)
  IN r.called = IF ~system.com \/ system.coll = <<>> THEN <<>>
                ELSE UpTo(all, stops)

(* Every GUID that was handed out is in the list that keeps it until the   *)
(* next enumeration, at a place of its own.                                *)
HandedOutIsKept(system, devlist, stops) ==
  LET r == DirectSoundEnumerate(system, devlist, stops)
  IN /\ \A i \in DOMAIN r.called :
          r.called[i].guid # NULL => Contains(r.devlist, r.called[i].guid)
     /\ r.called # <<>> => IsInjective(r.devlist)

(* The enumeration of a property set is that of the devices followed by    *)
(* that of the capture devices, as if both were one.                       *)
PropertySetExact(render, capture, stops) ==
  LET Of(system) == IF system.com /\ system.coll # <<>>
                    THEN Presentable(system) ELSE <<>>
  IN DSPROPERTY_Enumerate(render, capture, stops) =
       IF ~render.com THEN <<>>
       ELSE UpTo(Of(render) \o Of(capture), stops)

(* A name is mapped to the device that was handed out first under it.      *)
MappingExact(system, name) ==
  LET handed == DirectSoundEnumerate(system, <<>>, {}).called
      named == SelectSeq(handed, LAMBDA item : item.name = name)
  IN DSPROPERTY_WaveDeviceMapping(system, name) =
       IF named = <<>> THEN NULL ELSE Head(named).guid
=============================================================================
