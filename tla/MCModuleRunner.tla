--------------------------- MODULE MCModuleRunner ---------------------------
(***************************************************************************)
(* Instances of ModuleRunner for TLC: the values are in the .cfg files.    *)
(***************************************************************************)
EXTENDS ModuleRunner, TLC

CONSTANTS m1, m2

=============================================================================
