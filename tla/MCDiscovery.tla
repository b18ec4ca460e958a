-------------------------- MODULE MCDiscovery --------------------------
(* A bridge that is found at two addresses with nothing in common, so that *)
(* a half-written cache is neither.                                        *)
EXTENDS Discovery

TwoPlaces == {<<"h1", "p1">>, <<"h2", "p2">>}
====
