----------------------------- MODULE MCLimiter -----------------------------
(* Limiter with the callers of the configuration. *)
EXTENDS Limiter
=============================================================================
