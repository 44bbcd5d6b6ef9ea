----------------------------- MODULE MCCalendar ------------------------------
(* Model-checking instances of Calendar. *)
EXTENDS Calendar
=============================================================================
