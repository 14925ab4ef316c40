----------------------------- MODULE MCTimesheet -----------------------------
(* Timesheet with the threads and bounds of the configuration. *)
EXTENDS Timesheet
=============================================================================
