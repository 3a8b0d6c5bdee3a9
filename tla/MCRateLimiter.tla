--------------------------- MODULE MCRateLimiter ---------------------------
(* RateLimiter for TLC, with a short list and a short interval. *)
EXTENDS RateLimiter

=============================================================================
