----------------------------- MODULE MCPathWalk -----------------------------
(* Small instances of PathWalk for TLC. *)
EXTENDS PathWalk

\* Paths below, at and above the capacity of four ancestors; two of the
\* shallow ones differ in their first component, and one has a name that is
\* not UTF-8.
MCPaths ==
    {<<"a">>, <<"b", "a">>, <<"a", "b">>, <<"b", "x80", "b", "a">>,
     <<"a", "b", "a", "b", "a">>, <<"b", "b", "a", "a", "b", "a">>}
MCNames == {"a", "b", "x80", "fffd"}
MCLossy == [n \in MCNames |-> IF n = "x80" THEN "fffd" ELSE n]
=============================================================================
