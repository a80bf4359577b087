----------------------------- MODULE MCWorkspace -----------------------------
(* A small instance of Workspace: each page in turn, with up to three handles *)
(* and four faults at any of their steps.                                     *)
EXTENDS Workspace

MCPages == {"home", "continuity", "models", "tools", "human"}
=============================================================================
