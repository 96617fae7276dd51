---------------------------- MODULE MCCronService -----------------------------
(***************************************************************************)
(* Model values for checking CronService on small instances.               *)
(***************************************************************************)
EXTENDS CronService

CONSTANTS a1, e1, c1
===============================================================================
