------------------------------- MODULE MCLog --------------------------------
(* Model-checking instances of Log.                                         *)
EXTENDS Log
=============================================================================
