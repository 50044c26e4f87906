---------------------------- MODULE MCAutoUpdate ----------------------------
(* Two profiles with different intervals, and two runs at a time. *)
EXTENDS AutoUpdate

MCProfiles == {"p1", "p2"}
MCIntervals == {1, 3}
MCRuns == {"r1", "r2"}
=============================================================================
