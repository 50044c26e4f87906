----------------------------- MODULE MCUpdates -----------------------------
(* Updates on four versions, two of them prereleases. *)
EXTENDS Updates

MCVersions == 1..4
MCPrereleases == {2, 4}
=============================================================================
