------------------------------- MODULE MCNvBuf -------------------------------
(* Two values per sector tell an old sector from a new one.                    *)
EXTENDS NvBuf, TLC

CONSTANTS d1, d2

MCData == {d1, d2}
Symmetry == Permutations(MCData)

=============================================================================
