--------------------------- MODULE MCFormAttempts ---------------------------
(* Instances of FormAttempts for TLC.                                      *)
EXTENDS FormAttempts, TLC

\* Open now until the deadline, or open later without end.
SomeSchedules == {<<0, 1>>, <<1, None>>}

\* Requests in flight are interchangeable.
Symmetric == Permutations(Handlers)
=============================================================================
