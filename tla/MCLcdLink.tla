----------------------------- MODULE MCLcdLink -----------------------------
(***************************************************************************)
(* Small instances of LcdLink for TLC.                                     *)
(***************************************************************************)
EXTENDS LcdLink, TLC

\* Ports are interchangeable; used for safety only.
Symmetry == Permutations(Ports)
=============================================================================
