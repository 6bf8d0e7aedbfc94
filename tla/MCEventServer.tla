--------------------------- MODULE MCEventServer ----------------------------
(***************************************************************************)
(* Small instances of EventServer.                                         *)
(***************************************************************************)
EXTENDS EventServer

NoSince == {None}
SomeSince == {None, 1}
OneNote == {"gate_requested"}
=============================================================================
