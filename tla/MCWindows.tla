----------------------------- MODULE MCWindows ------------------------------
(* A small instance of Windows: a library of one blueprint that refers to   *)
(* another, and the documents that can be loaded.                           *)
EXTENDS Windows

CONSTANTS a, b, x, y, outer, inner

P(c) == [kind |-> "part", data |-> c]
R(id) == [kind |-> "reference", data |-> id]
E(d) == [kind |-> "embedded", data |-> d]
Port == [kind |-> "bridge", data |-> "port"]

\* outer holds a reference to inner.
MCLibrary == (outer :> (<<b>> :> R(inner))) @@ (inner :> (<<b>> :> Port))

\* A part, a wired embedded blueprint with its bridge, one whose bridge is missing,
\* and a reference beside an embedded blueprint that holds another.
MCFiles == {<<a>> :> P(x),
            (<<a>> :> E("wired")) @@ (<<a, b>> :> Port),
            (<<a>> :> E("wired")) @@ (<<a, b>> :> P(x)),
            (<<a>> :> R(outer)) @@ (<<b>> :> E("loose")) @@ (<<b, a>> :> R(inner))}

MCNewNodes == {[kind |-> "embedded", data |-> inner]}
=============================================================================
