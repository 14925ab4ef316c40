------------------------------- MODULE MCChat -------------------------------
(* Chat with the nodes and sizes of the configurations. *)
EXTENDS Chat
=============================================================================
