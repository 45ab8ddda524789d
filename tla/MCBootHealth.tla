---------------------------- MODULE MCBootHealth ----------------------------
(***************************************************************************)
(* TLC instance of BootHealth.  Two ticks to the deadline and one past it: *)
(* a task can read the clock before the deadline and act on it after.  Two *)
(* resets: one during the trial and one in the boot that follows.          *)
(***************************************************************************)
EXTENDS BootHealth

MCTimeout == 2
MCMaxTime == 3
MCMaxCrashes == 2
MCBleBuilds == {TRUE, FALSE}
=============================================================================
