------------------------- MODULE MCConnectionMonitor -------------------------
(* Small instances of ConnectionMonitor for TLC. *)
EXTENDS ConnectionMonitor

\* Connections are interchangeable (used by runs without liveness only).
Symmetric == Permutations(Conns)
=============================================================================
