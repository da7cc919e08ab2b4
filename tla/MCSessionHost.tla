--------------------------- MODULE MCSessionHost ---------------------------
(***************************************************************************)
(* SessionHost on small instances: the threads are interchangeable.        *)
(***************************************************************************)
EXTENDS SessionHost, TLC

Threads == Permutations(Launchers) \cup Permutations(Stoppers)
              \cup Permutations(Requesters)
=============================================================================
