------------------------------ MODULE MCLinks ------------------------------
(***************************************************************************)
(* Small instances of Links for TLC.                                       *)
(***************************************************************************)
EXTENDS Links, TLC

\* Ports are interchangeable; used for safety only.
Symmetry == Permutations(Ports)

\* Bounds: the first connection alone carries a frame and leaves; the last one is
\* the PLC's or nobody's, and comes when the first has left.  Leaving is closing: a
\* reset only adds an error.
Bounds ==
  /\ \A c \in Conns : sent[c] > 0 \/ peer[c] \notin {"idle", "up"} => c = 1
  /\ peer[1] # "rst"
  /\ port[MaxConns] = None
  /\ peer[MaxConns] # "idle" => peer[1] = "fin"
=============================================================================
