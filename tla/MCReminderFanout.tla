--------------------------- MODULE MCReminderFanout ---------------------------
(* Small instances of ReminderFanout: the runs differ in their constants.  *)
EXTENDS ReminderFanout
=============================================================================
