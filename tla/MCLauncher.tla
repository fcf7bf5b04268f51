----------------------------- MODULE MCLauncher -----------------------------
(* Values for the constants of Launcher: see MCLauncher.cfg. *)
EXTENDS Launcher
=============================================================================
