----------------------------- MODULE MCStopper -----------------------------
(* Instances of GameStopper for TLC: two games in one Wine prefix, and one  *)
(* in a sandbox.                                                            *)
EXTENDS GameStopper, TLC

CONSTANTS ga, gb, gc, wine, flatpak

ThreeRows == <<ga, gb, gc>>
Scoped == [g \in {ga, gb, gc} |-> IF g = gc THEN flatpak ELSE wine]
Kind(g, s, w) == [game |-> g, scope |-> s, guarded |-> w]
InWine == {Kind(ga, wine, FALSE), Kind(gb, wine, FALSE), Kind(NoGame, wine, TRUE)}
Outside == {Kind(gb, NoScope, FALSE), Kind(gc, flatpak, FALSE)}
AllKinds == InWine \cup Outside
ToStop == {[starts |-> 2, stops |-> 2, kinds |-> InWine], [starts |-> 2, stops |-> 1, kinds |-> Outside]}
=============================================================================
