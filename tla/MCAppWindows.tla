---------------------------- MODULE MCAppWindows ----------------------------
(* AppWindows with two editors and two terminals. *)
EXTENDS AppWindows

MCEditors == {"e1", "e2"}
MCTerminals == {"t1"}
MCTrays == {"x1", "x2"}
MCShows == {1, 2}
=============================================================================
