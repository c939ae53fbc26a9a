---------------------------- MODULE MCAccessToken ----------------------------
(* A small instance of AccessToken for TLC; no symmetry, as ComesOnline is a *)
(* liveness property.                                                        *)
EXTENDS AccessToken
=============================================================================
