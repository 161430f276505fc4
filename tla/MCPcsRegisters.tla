--------------------------- MODULE MCPcsRegisters ---------------------------
(* PcsRegisters on the instance of its configuration.                      *)
EXTENDS PcsRegisters, TLC

\* The send threads of a display are interchangeable.
Symmetry == Permutations(Senders)
=============================================================================
