------------------------ MODULE MCVolumeThrottle ------------------------
(* Three volume commands over two volumes: a burst, a burst and a late     *)
(* turn, or three separate flushes that overlap and are retried.           *)
EXTENDS VolumeThrottle
====
