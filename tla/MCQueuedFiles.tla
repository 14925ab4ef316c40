---------------------------- MODULE MCQueuedFiles ----------------------------
(* QueuedFiles with the threads, files and documents of the configuration. *)
EXTENDS QueuedFiles
=============================================================================
