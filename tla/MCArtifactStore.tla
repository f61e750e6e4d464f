-------------------------- MODULE MCArtifactStore --------------------------
(* One repository, two inventories, enough commands for a history, a crash *)
(* and a whole pipeline after it.                                          *)
EXTENDS ArtifactStore
=============================================================================
