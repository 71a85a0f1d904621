--------------------------------- MODULE Null ---------------------------------
(* null, undefined, or what a Map does not have. *)
CONSTANT None
=============================================================================
