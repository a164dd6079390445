---------------------- MODULE MCSchedulerShutdown ----------------------
(* Model values for SchedulerShutdown. *)
EXTENDS SchedulerShutdown, TLC

CONSTANTS s1, s2, s3

MCSubmitters == {s1, s2, s3}
=============================================================================
