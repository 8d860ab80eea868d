------------------------------- MODULE MCPipe -------------------------------
(* Model-checking instances of Pipe.                                        *)
EXTENDS Pipe, TLC

\* The processes at either end are interchangeable.
EndSymmetry == Permutations(Reader) \cup Permutations(Writer)
=============================================================================
