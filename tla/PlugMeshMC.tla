----------------------------- MODULE PlugMeshMC -----------------------------
(***************************************************************************)
(* A node of the mesh for TLC.  A tick is 15 seconds, the period of        *)
(* Sendall__ShareData; the shorter intervals are one tick.                 *)
(***************************************************************************)
EXTENDS PlugMesh

MCNotes == {"note1", "note2", "note3"}
MCTasks == Fixed \cup MCNotes
MCInterval ==
    [t \in MCTasks |-> IF t = "check" THEN 2 ELSE IF t \in MCNotes THEN 0 ELSE 1]
MCTimes == [t \in MCTasks |-> IF t \in MCNotes THEN 1 ELSE -1]
MCModes == {"mesh", "config_sendall", "reboot_sendall"}
=============================================================================
