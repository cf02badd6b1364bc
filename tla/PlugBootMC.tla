----------------------------- MODULE PlugBootMC -----------------------------
(***************************************************************************)
(* Three settings, one of them kept by MemoClean, and two contents: wired  *)
(* and mesh.  The clock wraps after eight passes.                          *)
(***************************************************************************)
EXTENDS PlugBoot

MCContent == {0, 2}
MCMeshContent == {2}
=============================================================================
