------------------------- MODULE MCSimConnectSession -------------------------
(* Documents are interchangeable: no operation names one.                   *)
EXTENDS SimConnectSession, TLC

Symmetry == Permutations(Document)
=============================================================================
