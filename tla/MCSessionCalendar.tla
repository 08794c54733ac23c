------------------------- MODULE MCSessionCalendar -------------------------
(* Instances of SessionCalendar for TLC: a leap year and the year after.   *)
EXTENDS SessionCalendar
============================================================================
