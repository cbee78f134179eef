--------------------------- MODULE MCRuntimeServer ---------------------------
(* RuntimeServer on a small instance; the bounds are in the .cfg file. *)
EXTENDS RuntimeServer
=============================================================================
