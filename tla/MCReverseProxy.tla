--------------------------- MODULE MCReverseProxy ---------------------------
(* Instances of ReverseProxy for TLC. *)
EXTENDS ReverseProxy, TLC
=============================================================================
