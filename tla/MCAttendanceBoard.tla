---------------------------- MODULE MCAttendanceBoard ----------------------------
(* One meeting of the foundation class. *)
EXTENDS AttendanceBoard

OneMeeting == [s \in {"m1"} |-> "foundation_class"]
=============================================================================
