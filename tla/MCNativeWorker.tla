---------------------------- MODULE MCNativeWorker ----------------------------
(* Two processes, three jobs, two edits, one fault.                        *)
EXTENDS NativeWorker, TLC

Processes == Permutations(Proc)
=============================================================================
