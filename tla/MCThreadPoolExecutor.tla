---------------------- MODULE MCThreadPoolExecutor ----------------------
(* Small instances of ThreadPoolExecutor for TLC. *)
EXTENDS ThreadPoolExecutor, TLC

CONSTANTS c1, c2, w1, w2

MCClients  == {c1, c2}
OneClient  == {c1}
MCWorkers  == {w1, w2}
OneWorker  == {w1}

(* Workers are interchangeable, and so are clients. *)
Symmetry == Permutations(MCClients) \cup Permutations(MCWorkers)

=============================================================================
