--------------------------- MODULE MCSaveSetStore ---------------------------
(* Instances of SaveSetStore for TLC.                                      *)
EXTENDS SaveSetStore, TLC

CONSTANTS p1, p2, a, b, old, new

OneProc == {p1}
TwoPaths == {a, b}
TwoContents == {old, new}
FewIds == 1 .. 5
SomeSymmetry == Permutations(TwoPaths) \cup Permutations(TwoContents)
=============================================================================
