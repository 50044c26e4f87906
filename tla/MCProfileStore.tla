--------------------------- MODULE MCProfileStore ---------------------------
(* ProfileStore on two profiles and two operations at a time. *)
EXTENDS ProfileStore

MCIds == {"p1", "p2"}
MCTwoVersions == {"old", "broken"}
MCOneUsable == {"old"}
MCSaidOn == {FALSE}
MCSlots == {"c1", "c2"}
=============================================================================
