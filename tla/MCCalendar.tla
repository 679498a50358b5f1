------------------------------ MODULE MCCalendar ------------------------------
(* Four weeks with holidays on a Friday, on a Sunday, on a Saturday and on *)
(* a Wednesday, and two changes of the clock, for TLC.                     *)
EXTENDS Calendar

MCHolidays == {4, 13, 19, 23}
MCSummerDays == 13..19
MCDays == 0..24
=============================================================================
