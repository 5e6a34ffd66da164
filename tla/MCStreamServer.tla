--------------------------- MODULE MCStreamServer ---------------------------
(* Small instances of StreamServer for TLC.                                *)
EXTENDS StreamServer, TLC

Symmetry == Permutations(Conns) \cup Permutations(FDs)
=============================================================================
