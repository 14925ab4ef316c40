---------------------------- MODULE MCFileAccess ----------------------------
(* FileAccess with the threads, files and documents of the configurations. *)
EXTENDS FileAccess
=============================================================================
