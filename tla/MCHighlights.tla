---------------------------- MODULE MCHighlights ----------------------------
(* Instances of Highlights for TLC.                                        *)
EXTENDS Highlights, TLC

CONSTANTS g1, g2, m1, m2, r1, r2, c1, c2

OneGame == {g1}
TwoGames == {g1, g2}
OneMonitor == {m1}
TwoMonitors == {m1, m2}
TwoRecorders == {r1, r2}
TwoClips == {c1, c2}
Alike == Permutations(TwoGames) \cup Permutations(Monitors)
         \cup Permutations(TwoRecorders) \cup Permutations(TwoClips)
=============================================================================
