------------------------ MODULE MCConfirmedPublisher ------------------------
(* Small instances of ConfirmedPublisher for TLC.                          *)
EXTENDS ConfirmedPublisher, TLC

Symmetry == Permutations(Callers)
=============================================================================
