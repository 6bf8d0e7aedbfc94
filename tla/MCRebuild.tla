----------------------------- MODULE MCRebuild -----------------------------
(***************************************************************************)
(* Small instances of Rebuild.                                             *)
(***************************************************************************)
EXTENDS Rebuild

Both == {"json", "native"}
NoneOrOne == {0, 1}
OneMoreOrNone == {0, 1}
=============================================================================
