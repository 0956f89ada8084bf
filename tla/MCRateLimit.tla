---------------------------- MODULE MCRateLimit ----------------------------
(* Small instances of RateLimit for TLC. *)
EXTENDS RateLimit

\* The bucket is exactly full again when its visitor may be dropped.
ASSUME RefillsWhileIdle
=============================================================================
