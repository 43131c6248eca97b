-------------------------- MODULE DeferredSettings --------------------------
(***************************************************************************)
(* What the application sees of DS3D_IMMEDIATE and DS3D_DEFERRED: each     *)
(* object, a 3D buffer or the listener, has current settings and pending   *)
(* ones, and both are what the calls of the application made them.  A      *)
(* setting that is deferred has no effect until a commit, which makes the  *)
(* pending settings of all objects current at once and leaves none         *)
(* pending; nothing else makes a pending setting current, and only the end *)
(* of its object makes it go away.                                         *)
(***************************************************************************)
CONSTANTS
  Objects,   \* the 3D buffers and the listener
  Fields,    \* per object, the names of its settings
  Defaults,  \* per object, the settings it is created with
  Nothing    \* no setting is pending

VARIABLES
  asked,    \* the call that was made last
  current,  \* per object and field, the setting in effect
  pending   \* per object and field, the setting that is pending, or Nothing

vars == <<asked, current, pending>>

NonePending(o) == [f \in Fields[o] |-> Nothing]

Others(o) ==
  \A p \in Objects \ {o} : current'[p] = current[p] /\ pending'[p] = pending[p]

Replaced(settings, fields, to) ==
  [f \in DOMAIN settings |-> IF f \in fields THEN to[f] ELSE settings[f]]

Init == pending = [o \in Objects |-> NonePending(o)]

\* Settings with immediate effect: what is pending stays pending.
Set(o, fields, to) ==
  /\ Others(o)
  /\ current'[o] = Replaced(current[o], fields, to)
  /\ pending'[o] = pending[o]

\* Settings made pending, beside those that are pending in other fields.
Defer(o, fields, to) ==
  /\ Others(o)
  /\ current'[o] = current[o]
  /\ pending'[o] = Replaced(pending[o], fields, to)

Commit ==
  /\ current' = [o \in Objects |-> [f \in Fields[o] |->
                   IF pending[o][f] = Nothing THEN current[o][f]
                   ELSE pending[o][f]]]
  /\ pending' = [o \in Objects |-> NonePending(o)]

\* The object is created, or the listener is initialised again.
Create(o) ==
  /\ Others(o)
  /\ current'[o] = Defaults[o]
  /\ pending'[o] = NonePending(o)

\* The object is made with the settings in effect of another.
Copy(o, from) ==
  /\ Others(o)
  /\ current'[o] = current[from]
  /\ pending'[o] = NonePending(o)

\* Its settings are no more.
Destroy(o) == Others(o) /\ pending'[o] = NonePending(o)

\* What the call asked for happens, and nothing else.
Next ==
  \/ asked'.what = "Set" /\ Set(asked'.object, asked'.fields, asked'.to)
  \/ asked'.what = "Defer" /\ Defer(asked'.object, asked'.fields, asked'.to)
  \/ asked'.what = "Commit" /\ Commit
  \/ asked'.what = "Create" /\ Create(asked'.object)
  \/ asked'.what = "Copy" /\ Copy(asked'.object, asked'.from)
  \/ asked'.what = "Destroy" /\ Destroy(asked'.object)
  \/ asked'.what = "Other" /\ UNCHANGED <<current, pending>>

Spec == Init /\ [][Next]_vars
=============================================================================
