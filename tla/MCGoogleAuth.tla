---------------------------- MODULE MCGoogleAuth ----------------------------
(* GoogleAuth for TLC: requests, tokens and accounts are all told apart by *)
(* the liveness property, so there is no symmetry to use.                  *)
EXTENDS GoogleAuth

=============================================================================
