--------------------------- MODULE MCBuildResume ---------------------------
(* Two repositories, two generations each, at most two faults.             *)
EXTENDS BuildResume
=============================================================================
