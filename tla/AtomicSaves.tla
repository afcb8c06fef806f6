----------------------------- MODULE AtomicSaves -----------------------------
(***************************************************************************)
(* What the save-set store promises, without its journal: the saves are    *)
(* one value, a restore replaces all of it in one step by a set the store  *)
(* holds, and a restore that does not happen changes nothing.  A file that *)
(* something else writes while a restore is under way is "dirty": the      *)
(* promise does not extend to it.                                          *)
(***************************************************************************)
CONSTANTS Paths, Contents, Absent

VARIABLES
  saves,   \* the save files
  held,    \* the save sets the store holds a complete copy of
  dirty    \* the files written from outside since the last restore began

avars == <<saves, held, dirty>>

SaveSets == [Paths -> Contents \cup {Absent}]

Init ==
  /\ saves \in SaveSets
  /\ held = {}
  /\ dirty = {}

(* Copies may go at any time, and the saves as they are may be copied.     *)
Keep == held' \subseteq held \cup {saves}

Copy == Keep /\ UNCHANGED <<saves, dirty>>

(* All files change together, but for the dirty ones.                      *)
Restore ==
  /\ \E set \in held :
       saves' = [q \in Paths |-> IF q \in dirty THEN saves[q] ELSE set[q]]
  /\ Keep /\ UNCHANGED dirty

(* A dirty file may still be overwritten, with what some copy holds.       *)
Overwrite ==
  /\ \E q \in dirty, set \in held : saves' = [saves EXCEPT ![q] = set[q]]
  /\ Keep /\ UNCHANGED dirty

Play ==
  /\ \E q \in Paths, c \in Contents \cup {Absent} :
       /\ saves' = [saves EXCEPT ![q] = c]
       /\ dirty' \in {dirty, dirty \cup {q}}
  /\ UNCHANGED held

(* The next restore begins with every file clean, and a restore that ended *)
(* leaves none dirty.                                                      *)
Clean == dirty' = {} /\ Keep /\ UNCHANGED saves

Next == Copy \/ Restore \/ Overwrite \/ Play \/ Clean

Spec == Init /\ [][Next]_avars
=============================================================================
