---------------------------- MODULE MCCronService ----------------------------
(***************************************************************************)
(* Instances of CronService for TLC: a one-shot and a recurring job.        *)
(***************************************************************************)
EXTENDS CronService

CONSTANTS once, daily, user
=============================================================================
