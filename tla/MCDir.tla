------------------------------- MODULE MCDir --------------------------------
(* A model-checking instance of Dir.                                        *)
EXTENDS Dir
=============================================================================
