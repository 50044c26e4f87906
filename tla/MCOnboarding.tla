---------------------------- MODULE MCOnboarding ----------------------------
(* Two sessions, so that an earlier one may import late, and two pushes, one to each key. *)
EXTENDS Onboarding

MCConfigs == {"api", "bell", "inline"}
=============================================================================
