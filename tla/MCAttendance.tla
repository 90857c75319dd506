---------------------------- MODULE MCAttendance ----------------------------
(* Instances of Attendance for TLC.                                        *)
EXTENDS Attendance

\* Three units of time, on time in the first: a session in class with a location
\* check, and one to check in to without.
InClass == [mode |-> "LIVE", duration |-> 3, present |-> 1, location |-> TRUE]
AtHome == [InClass EXCEPT !.mode = "ASYNCHRONOUS", !.location = FALSE]
TwoPlans == {InClass, AtHome}

Excuse == {"EXCUSED"}
=============================================================================
