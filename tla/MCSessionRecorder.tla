-------------------------- MODULE MCSessionRecorder --------------------------
(* Instances of SessionRecorder for TLC.                                   *)
EXTENDS SessionRecorder, TLC

CONSTANTS p1, p2, g1, g2

OneProc == {p1}
TwoProcs == {p1, p2}
OneGame == {g1}
TwoGames == {g1, g2}
TwoKeys == 1 .. 2

Proven == {"verified"}
ByTitle == {"titled", "verified", "none"}

(* One process that plays two games, with disturbances of every kind.      *)
OneOfEach ==
  [refused |-> 1, deletes |-> 1, kills |-> 1, offs |-> 1, polls |-> 5,
   procs |-> {p1}, games |-> TwoGames, evidence |-> Proven, pauses |-> FALSE]

(* One process whose evidence comes and goes and that may lose the focus.  *)
Titled == [OneOfEach EXCEPT !.deletes = 0, !.offs = 0, !.polls = 6, !.evidence = ByTitle,
                            !.pauses = TRUE]

(* Two processes of one game that hand their session over.                 *)
HandOver == [OneOfEach EXCEPT !.refused = 2, !.deletes = 0, !.offs = 0, !.polls = 5,
                              !.procs = TwoProcs, !.games = OneGame]

Disturbed == {OneOfEach, Titled, HandOver}
Deletions == {[OneOfEach EXCEPT !.refused = 2, !.kills = 0, !.offs = 0, !.polls = 6,
                                !.games = OneGame, !.evidence = ByTitle]}
=============================================================================
