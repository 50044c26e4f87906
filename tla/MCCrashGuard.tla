---------------------------- MODULE MCCrashGuard ----------------------------
(* CrashGuard on one build and its update and a config of our shape. *)
EXTENDS CrashGuard

MCBuilds == {"beta14", "beta15"}
MCOffReasons == {"user"}
MCBases == {"ours"}
MCForeignBases == {}
=============================================================================
