----------------------------- MODULE MCFileCache -----------------------------
(* Two sources, two texts and two crate names: an edit and its revert, or   *)
(* two edits of different files, before, inside and between two builds.     *)
EXTENDS FileCache
=============================================================================
