---------------------------- MODULE MCGameMode ----------------------------
(* Instances of GameModeController for TLC.                                *)
EXTENDS GameModeController, TLC

CONSTANTS screen, tv, desktop, hdmi, headset, g1, g2

TwoOutputs == {screen, tv}
ThreeSinks == {desktop, hdmi, headset}
TwoGames == {g1, g2}
Bound(faults, kills, player, games) ==
  [faults |-> faults, kills |-> kills, player |-> player, games |-> games]
Failures == {Bound(2, 1, 0, 1), Bound(1, 1, 1, 1), Bound(1, 0, 0, 2), Bound(0, 0, 2, 0)}
TwoFailures == {Bound(2, 1, 0, 1)}
GameModeSymmetry == Permutations({desktop, headset}) \cup Permutations(Games)
OnTv == {[output |-> tv, sink |-> hdmi, quiet |-> TRUE]}
===========================================================================
