-------------------------------- MODULE Null --------------------------------
(* The null that the modules which are checked together share. *)
CONSTANT None
=============================================================================
