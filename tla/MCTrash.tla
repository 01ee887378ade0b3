------------------------------ MODULE MCTrash ------------------------------
(* A folder d at n1 that holds the file fa, a file f at n2; the folder   *)
(* e is there for mkdirs(), the file g for another program to make.        *)
EXTENDS Trash, TLC
CONSTANTS n1, n2, d, e, fa, f, a
Tree == [s \in Slots |->
  IF s = n1 THEN d ELSE IF s = n2 THEN f ELSE IF s = <<d, a>> THEN fa ELSE Free]
Perms == Permutations(Uuids)
==============================================================================
