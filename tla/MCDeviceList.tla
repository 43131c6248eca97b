---------------------------- MODULE MCDeviceList ----------------------------
EXTENDS EntryPoints, Enumeration

CONSTANTS a, b, c

\* An endpoint that cannot be read, has no name, or one of two names.
Visits(guid) ==
  {[guid |-> guid, readable |-> FALSE, name |-> NULL]}
    \cup [guid : {guid}, readable : {TRUE}, name : {NULL, "x", "y"}]

\* Up to three endpoints, of which any or none is the default.
Systems(guids) ==
  [com : {TRUE}, default : {<<>>} \cup {<<v>> : v \in UNION {Visits(g) : g \in guids}},
   coll : {<<>>} \cup {<<v>> : v \in Visits(a)} \cup (Visits(a) \X Visits(b))
            \cup (IF c \in guids THEN Visits(a) \X Visits(b) \X Visits(c) ELSE {})]
    \cup {[com |-> FALSE, default |-> <<>>, coll |-> <<>>]}

\* The answers: never FALSE, FALSE at once, for a device, for one or two names.
Stops ==
  {{}, {Item(NULL, Primary)}, {Item(a, "x"), Item(a, "y")}, {Item(b, "x")},
   {Item(g, "x") : g \in {a, b, c}}}

ASSUME EnumerationsAreExact ==
  /\ \A s \in Systems({a, b, c}) :
       /\ \A devlist \in {<<>>, <<c, a>>}, stops \in Stops :
            HandedOutExact(s, devlist, stops) /\ HandedOutIsKept(s, devlist, stops)
       /\ \A name \in {"x", "y"} : MappingExact(s, name)
  /\ \A s, t \in Systems({a, b}), stops \in {{}, {Item(a, "x")}} :
       PropertySetExact(s, t, stops)
=============================================================================
