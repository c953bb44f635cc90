------------------------------- MODULE Absent -------------------------------
(* The value of what is not there, one for the modules that are checked      *)
(* together: no row, no file, no answer, no part of a beat.                  *)
CONSTANT None
=============================================================================
