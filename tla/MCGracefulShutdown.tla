------------------------- MODULE MCGracefulShutdown -------------------------
(***************************************************************************)
(* Instances of GracefulShutdown for TLC: the values are in the .cfg files. *)
(***************************************************************************)
EXTENDS GracefulShutdown

=============================================================================
