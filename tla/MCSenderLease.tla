--------------------------- MODULE MCSenderLease ---------------------------
(* An instance of SenderLease for TLC: units of half a minute.             *)
EXTENDS SenderLease, TLC

\* Invocations are interchangeable.
Symmetric == Permutations(Invocations)
=============================================================================
