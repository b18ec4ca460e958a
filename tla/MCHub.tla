------------------------------ MODULE MCHub ------------------------------
(* Two connections, one of which sends commands the bridge refuses.        *)
EXTENDS Hub
====
