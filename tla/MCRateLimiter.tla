--------------------------- MODULE MCRateLimiter ---------------------------
(* RateLimiter for TLC. *)
EXTENDS RateLimiter, TLC

CONSTANTS c1, r1, r2, b1, b2, b3
=============================================================================
