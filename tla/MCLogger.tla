------------------------------ MODULE MCLogger ------------------------------
(* Logger with its two halves, which share the ring only, explored to       *)
(* different depths in one run: the exports on a ring that keeps filling,   *)
(* and persistence across clears and restarts.                              *)
EXTENDS Logger

Unpersisted == stored = <<>> /\ \A p \in Persister : pc[p] = "idle"
Exporting == boot = 0 /\ Unpersisted /\ http.pc \notin {"erase", "unflag"}
Persisting == seq <= 3 /\ http.pc \in {"idle", "erase", "unflag"}

Slices == Exporting \/ Persisting

=============================================================================
