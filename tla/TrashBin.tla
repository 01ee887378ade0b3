------------------------------ MODULE TrashBin ------------------------------
(***************************************************************************)
(* What the trash promises, without saying how: every file of the volume   *)
(* is in its place, or in the bin together with the path it was deleted    *)
(* from, or gone for good.  Only a file in the bin can be purged.  Nothing *)
(* here can crash half-way: each action is one step.                       *)
(***************************************************************************)
CONSTANTS Files, Paths

VARIABLE place

Live(p) == [in |-> "live", path |-> p]
Bin(p)  == [in |-> "bin", path |-> p]
Gone    == [in |-> "gone"]

LiveFiles == {f \in Files : place[f].in = "live"}
BinFiles  == {f \in Files : place[f].in = "bin"}

Init ==
  /\ place \in [Files -> {Live(p) : p \in Paths}]
  /\ \A f, g \in Files : place[f] = place[g] => f = g

(* A file, or all files of a folder at once, goes to the bin and keeps the *)
(* path it came from.                                                      *)
Recycle(S) ==
  /\ S \subseteq LiveFiles
  /\ place' = [f \in Files |-> IF f \in S THEN Bin(place[f].path) ELSE place[f]]

(* Files come back, each to a path nothing else has.                       *)
Restore(S) ==
  /\ S \subseteq BinFiles
  /\ place' \in [Files -> {Live(p) : p \in Paths} \cup {Bin(p) : p \in Paths} \cup {Gone}]
  /\ \A f \in Files : IF f \in S THEN place'[f].in = "live" ELSE place'[f] = place[f]
  /\ \A f \in S : \A g \in Files \ {f} : place'[f] # place'[g]

Purge(f) ==
  /\ f \in BinFiles
  /\ place' = [place EXCEPT ![f] = Gone]

(* Somebody else deletes files of the volume that are not in the bin.      *)
TakeAway(S) ==
  /\ S \subseteq LiveFiles
  /\ place' = [f \in Files |-> IF f \in S THEN Gone ELSE place[f]]

Next ==
  \/ \E S \in SUBSET Files : Recycle(S) \/ Restore(S) \/ TakeAway(S)
  \/ \E f \in Files : Purge(f)

Spec == Init /\ [][Next]_place
==============================================================================
