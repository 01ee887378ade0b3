------------------------------- MODULE Trash -------------------------------
(***************************************************************************)
(* TrashStore on one volume, and trash.c below it.  A deleted file or      *)
(* folder is renamed into a directory of its own under .TwigTrash, after a *)
(* record of where it came from has been written and synced there.         *)
(*                                                                         *)
(* Every operation holds one process-wide lock (synchronized(lock)), so a  *)
(* single record `op` holds the operation in progress.  What interleaves   *)
(* with its steps is the rest of the world: other programs that create,    *)
(* delete and replace files of the volume, the process being killed, and   *)
(* the power failing, after which only synced data is there.               *)
(*                                                                         *)
(* The tree is a function from slots to nodes.  A slot is a name in the    *)
(* root of the volume, a leaf of a folder, or the payload ("data") of an   *)
(* entry directory; renaming moves a node from a slot to another.          *)
(***************************************************************************)
EXTENDS Sequences

CONSTANTS
  Names,       \* names in the volume's root
  Folders,     \* folders; the ones with no slot at the start are mkdirs()' to make
  Files,       \* files of the user
  Outside,     \* files another program may create
  Leaves,      \* names inside a folder
  Uuids,       \* entry directories
  Whole,       \* a relative path "": the entry itself
  Free, Stub,  \* an empty slot, and the empty reservation of trash.c
  InitialTree, \* what is in the slots at the start
  Kernels      \* what the device's rename can do: subset of {"noreplace", "plain"}

Slots == Names \cup (Folders \X Leaves) \cup Uuids
Nodes == Files \cup Outside \cup Folders \cup {Free, Stub}

ASSUME TrashAssumption ==
  /\ Names \cap Uuids = {} /\ Names \cap (Folders \X Leaves) = {} /\ Uuids \cap (Folders \X Leaves) = {}
  /\ Files \cap Outside = {} /\ (Files \cup Outside) \cap Folders = {}
  /\ Free # Stub /\ {Free, Stub} \cap (Files \cup Outside \cup Folders) = {}
  /\ Whole \notin Leaves
  /\ InitialTree \in [Slots -> Files \cup Folders \cup {Free}]
  /\ \A u \in Uuids : InitialTree[u] = Free
  /\ Kernels \subseteq {"noreplace", "plain"}

(* The volume at the start is a tree of at most two levels.                *)
ASSUME TreeAssumption ==
  /\ \A f \in Files : \E s \in Slots : InitialTree[s] = f
  /\ \A s, t \in Slots : InitialTree[s] = InitialTree[t] /\ InitialTree[s] # Free => s = t
  /\ \A x \in Folders, k \in Leaves : InitialTree[<<x, k>>] # Free =>
       InitialTree[<<x, k>>] \notin Folders /\ \E n \in Names : InitialTree[n] = x

VARIABLES
  at,         \* the tree
  bucket,     \* .TwigTrash: absent, bare (no marker) or marked
  made,       \* entry directories that exist
  info,       \* info[u]: info.json in entry directory u, with the path it holds
  op,         \* the operation that holds the lock
  listed      \* entries of the snapshots that screens still hold

world == <<at, bucket, made, info>>
vars == <<world, op, listed>>

Idle == [kind |-> "none"]
NoInfo == [state |-> "none"]
Infos == {NoInfo} \cup [state : {"unsynced", "synced", "volatile", "durable", "garbage"}, path : Names]

Init ==
  /\ at = InitialTree
  /\ bucket = "absent" /\ made = {}
  /\ info = [u \in Uuids |-> NoInfo]
  /\ op = Idle /\ listed = {}

------------------------------------------------------------------------------
(* The tree.                                                               *)

IsFolder(x) == x \in Folders
Below(x) == {<<x, k>> : k \in IF IsFolder(x) THEN Leaves ELSE {}}
Content(s) == {at[t] : t \in {s} \cup Below(at[s])} \cap (Files \cup Outside)
Reachable == UNION {Content(s) : s \in Names \cup Uuids}

Readable(u) == info[u].state \in {"volatile", "durable"}

End == op' = Idle
Goto(step) == op' = [op EXCEPT !.step = step]

------------------------------------------------------------------------------
(* TrashStore.move: the planned path is looked up again, the bucket is made *)
(* if it is missing and refused if it has no marker.                       *)

StartMove(n) ==
  /\ op = Idle
  /\ at[n] # Free
  /\ op' = [kind |-> "move", step |-> IF bucket = "absent" THEN "marker" ELSE "mkdir",
            u |-> Whole, from |-> n, to |-> n, raced |-> FALSE]
  /\ \/ bucket = "absent" /\ bucket' = "bare"
     \/ bucket = "marked" /\ UNCHANGED bucket
  /\ UNCHANGED <<at, made, info, listed>>

WriteMarker ==
  /\ op.kind = "move" /\ op.step = "marker"
  /\ \/ bucket' = "marked" /\ Goto("mkdir")
     \/ UNCHANGED bucket /\ End
  /\ UNCHANGED <<at, made, info, listed>>

MakeEntry ==
  /\ op.kind = "move" /\ op.step = "mkdir"
  /\ \/ \E u \in Uuids \ (made \cup listed) :
          /\ made' = made \cup {u}
          /\ op' = [op EXCEPT !.step = "write", !.u = u, !.to = u]
     \/ UNCHANGED made /\ End
  /\ UNCHANGED <<at, bucket, info, listed>>

(* As WriteRecord, with the path of another target of the batch. *)
RecordOtherPath ==
  /\ op.kind = "move" /\ op.step = "write"
  /\ \/ \E n \in Names :
          /\ info' = [info EXCEPT ![op.u] = [state |-> "synced", path |-> n]]
          /\ Goto("commit")
     \/ UNCHANGED info /\ End
  /\ UNCHANGED <<at, bucket, made, listed>>

(* As WriteRecord, without fd.sync() and the fsync of finishWrite. *)
WriteUnsynced ==
  /\ op.kind = "move" /\ op.step = "write"
  /\ \/ info' = [info EXCEPT ![op.u] = [state |-> "unsynced", path |-> op.from]] /\ Goto("commit")
     \/ UNCHANGED info /\ End
  /\ UNCHANGED <<at, bucket, made, listed>>

(* writeJson: the new content goes to a side file and is synced, then the  *)
(* side file takes the record's name.                                      *)
WriteRecord ==
  /\ op.kind = "move" /\ op.step = "write"
  /\ \/ info' = [info EXCEPT ![op.u] = [state |-> "synced", path |-> op.from]] /\ Goto("commit")
     \/ UNCHANGED info /\ End
  /\ UNCHANGED <<at, bucket, made, listed>>

CommitRecord ==
  /\ op.kind = "move" /\ op.step = "commit"
  /\ \/ /\ info' = [info EXCEPT ![op.u].state = IF @ = "synced" THEN "durable" ELSE "volatile"]
        /\ Goto("rename")
     \/ info' = [info EXCEPT ![op.u] = NoInfo] /\ End
  /\ UNCHANGED <<at, bucket, made, listed>>

------------------------------------------------------------------------------
(* trash.c: the rename that refuses an existing destination.               *)

Moving == op.kind \in {"move", "restore"}
Done == IF op.kind = "restore" /\ op.from \in Uuids THEN Goto("dropinfo") ELSE End
MoveNode == at' = [at EXCEPT ![op.to] = at[op.from], ![op.from] = Free]

(* The parent folder of the destination may have been deleted meanwhile.   *)
ParentExists(s) == s \in Folders \X Leaves => \E n \in Names : at[n] = s[1]

(* rename_exclusive, where the kernel knows RENAME_NOREPLACE.              *)
RenameExclusive ==
  /\ Moving /\ op.step = "rename" /\ "noreplace" \in Kernels
  /\ \/ at[op.from] # Free /\ at[op.to] = Free /\ ParentExists(op.to) /\ MoveNode /\ Done
     \/ UNCHANGED at /\ End
  /\ UNCHANGED <<bucket, made, info, listed>>

(* Where it does not: reserve the name, check that it is still our own     *)
(* reservation, rename over it.                                            *)
Reserve ==
  /\ Moving /\ op.step = "rename" /\ "plain" \in Kernels
  /\ \/ /\ at[op.from] # Free /\ at[op.to] = Free /\ ParentExists(op.to)
        /\ at' = [at EXCEPT ![op.to] = Stub] /\ Goto("verify")
     \/ UNCHANGED at /\ End
  /\ UNCHANGED <<bucket, made, info, listed>>

(* As Verify, without the comparison. *)
VerifyNothing ==
  /\ op.kind # "none" /\ op.step = "verify"
  /\ Goto("replace")
  /\ UNCHANGED <<world, listed>>

Verify ==
  /\ op.kind # "none" /\ op.step = "verify"
  /\ Goto(IF at[op.to] = Stub THEN "replace" ELSE "compare")
  /\ UNCHANGED <<world, listed>>

CanReplace(x, y) == x # Free /\ (y \in {Free, Stub} \/ (IsFolder(x) <=> IsFolder(y)))

Replace ==
  /\ op.kind # "none" /\ op.step = "replace"
  /\ \/ CanReplace(at[op.from], at[op.to]) /\ ParentExists(op.to) /\ MoveNode /\ Done
     \/ UNCHANGED at /\ Goto("compare")
  /\ UNCHANGED <<bucket, made, info, listed>>

(* A failed move takes back its reservation, and nothing else.             *)
Compare ==
  /\ op.kind # "none" /\ op.step = "compare"
  /\ IF at[op.to] = Stub THEN Goto("unlink") ELSE End
  /\ UNCHANGED <<world, listed>>

Unreserve ==
  /\ op.kind # "none" /\ op.step = "unlink"
  /\ at' = [at EXCEPT ![op.to] = Free] \/ UNCHANGED at
  /\ End
  /\ UNCHANGED <<bucket, made, info, listed>>

------------------------------------------------------------------------------
(* TrashStore.snapshot: entry directories with a payload are deleted files, *)
(* a record alone is not.                                                  *)

Snapshot ==
  /\ op = Idle /\ bucket = "marked"
  /\ listed' = listed \cup {u \in made : at[u] # Free}
  /\ UNCHANGED <<world, op>>

(* payload(entry, relative): the slot, which must hold something.          *)
Payload(u, rel) == IF rel = Whole THEN u ELSE <<at[u], rel>>
HasPayload(u, rel) ==
  /\ u \in made /\ bucket = "marked"
  /\ rel # Whole => IsFolder(at[u])
  /\ at[Payload(u, rel)] # Free

(* TrashStore.restoreItem.  An entry goes back to the volume's root under  *)
(* the name the user gives; a leaf of it, under its own name, to the       *)
(* original folder, which is made again if the user agreed to that.        *)
RestoreTo(u, rel, slot) ==
  op' = [kind |-> "restore", step |-> "rename", u |-> u, from |-> Payload(u, rel), to |-> slot,
         raced |-> FALSE]

StartRestore(u, name) ==
  /\ op = Idle /\ u \in listed
  /\ HasPayload(u, Whole) /\ Readable(u)
  /\ at[name] = Free
  /\ RestoreTo(u, Whole, name)
  /\ UNCHANGED <<world, listed>>

StartRestoreLeaf(u, rel) ==
  /\ op = Idle /\ u \in listed
  /\ HasPayload(u, rel) /\ Readable(u)
  /\ LET parent == at[info[u].path] IN
       \/ /\ IsFolder(parent) /\ at[<<parent, rel>>] = Free
          /\ RestoreTo(u, rel, <<parent, rel>>)
          /\ UNCHANGED at
       \/ /\ parent = Free
          /\ \E x \in Folders :
               /\ \A s \in Slots : at[s] # x
               /\ \A s \in Below(x) : at[s] = Free
               /\ at' = [at EXCEPT ![info[u].path] = x]
               /\ RestoreTo(u, rel, <<x, rel>>) \/ End
  /\ UNCHANGED <<bucket, made, info, listed>>

(* The cleanup after the restore of a whole entry ignores its failures.    *)
DropInfo ==
  /\ op.kind = "restore" /\ op.step = "dropinfo"
  /\ info' = [info EXCEPT ![op.u] = NoInfo] \/ UNCHANGED info
  /\ Goto("rmdir")
  /\ UNCHANGED <<at, bucket, made, listed>>

(* directory.delete(), the last step of a restore and of a purge.          *)
RemoveEntry ==
  /\ op.kind # "none" /\ op.step = "rmdir"
  /\ \/ /\ info[op.u] = NoInfo /\ at[op.u] = Free
        /\ made' = made \ {op.u}
     \/ UNCHANGED made
  /\ End
  /\ UNCHANGED <<at, bucket, info, listed>>

------------------------------------------------------------------------------
(* TrashStore.purge and purgeItem.                                         *)

StartPurge(u, rel) ==
  /\ op = Idle /\ u \in listed
  /\ u \in made /\ bucket = "marked"
  /\ rel # Whole => HasPayload(u, rel)
  /\ op' = [kind |-> "purge", step |-> IF rel = Whole THEN "payload" ELSE "leaf",
            u |-> u, from |-> Payload(u, rel), to |-> u, raced |-> FALSE]
  /\ UNCHANGED <<world, listed>>

(* deleteNoFollow: what is inside a folder goes before the folder.         *)
PurgePayload ==
  /\ op.kind = "purge" /\ op.step = "payload"
  /\ LET left == {s \in Below(at[op.u]) : at[s] # Free} IN
       \/ \E s \in left : at' = [at EXCEPT ![s] = Free] /\ UNCHANGED op
       \/ left = {} /\ at' = [at EXCEPT ![op.u] = Free] /\ Goto("record")
       \/ UNCHANGED at /\ End
  /\ UNCHANGED <<bucket, made, info, listed>>

PurgeLeaf ==
  /\ op.kind = "purge" /\ op.step = "leaf"
  /\ at' = [at EXCEPT ![op.from] = Free] \/ UNCHANGED at
  /\ End
  /\ UNCHANGED <<bucket, made, info, listed>>

PurgeRecord ==
  /\ op.kind = "purge" /\ op.step = "record"
  /\ \/ info' = [info EXCEPT ![op.u] = NoInfo] /\ Goto("rmdir")
     \/ UNCHANGED info /\ End
  /\ UNCHANGED <<at, bucket, made, listed>>

------------------------------------------------------------------------------
(* The rest of the world.                                                  *)

(* Another program makes a file under a free name, or puts one in place of *)
(* a reservation it finds.                                                 *)
OutsideCreate(n, g) ==
  /\ g \notin Reachable
  /\ at[n] \in {Free, Stub}
  /\ at' = [at EXCEPT ![n] = g]
  /\ op' = IF op.kind # "none" /\ op.to = n /\ op.step \in {"replace", "unlink"}
           THEN [op EXCEPT !.raced = TRUE] ELSE op
  /\ UNCHANGED <<bucket, made, info, listed>>

OutsideRemove(n) ==
  /\ at[n] # Free
  /\ at' = [s \in Slots |-> IF s \in {n} \cup Below(at[n]) THEN Free ELSE at[s]]
  /\ UNCHANGED <<bucket, made, info, op, listed>>

(* The process is killed; with the power gone, unsynced data is lost too.  *)
Kill ==
  /\ End /\ listed' = {}
  /\ UNCHANGED <<world>>

PowerLoss ==
  /\ End /\ listed' = {}
  /\ info' = [u \in Uuids |-> IF info[u].state = "volatile" THEN [info[u] EXCEPT !.state = "garbage"] ELSE info[u]]
  /\ UNCHANGED <<at, bucket, made>>

------------------------------------------------------------------------------

User ==
  \/ \E n \in Names : StartMove(n)
  \/ Snapshot
  \/ \E u \in Uuids : \/ \E n \in Names : StartRestore(u, n)
                      \/ \E rel \in Leaves : StartRestoreLeaf(u, rel)
                      \/ \E rel \in Leaves \cup {Whole} : StartPurge(u, rel)

MoveStep == WriteMarker \/ MakeEntry \/ WriteRecord \/ CommitRecord
RenameStep == RenameExclusive \/ Reserve \/ Verify \/ Replace \/ Compare \/ Unreserve
CleanStep == DropInfo \/ RemoveEntry \/ PurgePayload \/ PurgeLeaf \/ PurgeRecord

World ==
  \/ \E n \in Names : \/ \E g \in Outside : OutsideCreate(n, g)
                      \/ OutsideRemove(n)
  \/ Kill \/ PowerLoss

Next == User \/ MoveStep \/ RenameStep \/ CleanStep \/ World

Spec == Init /\ [][Next]_vars

------------------------------------------------------------------------------
(* Properties.                                                             *)

Steps == {"marker", "mkdir", "write", "commit", "rename", "verify", "replace", "compare", "unlink",
          "dropinfo", "rmdir", "payload", "leaf", "record"}

TypeOK ==
  /\ at \in [Slots -> Nodes]
  /\ bucket \in {"absent", "bare", "marked"}
  /\ made \subseteq Uuids /\ listed \subseteq Uuids
  /\ info \in [Uuids -> Infos]
  /\ op = Idle \/ op \in [kind : {"move", "restore", "purge"}, step : Steps,
                          u : Uuids \cup {Whole}, from : Slots, to : Slots, raced : BOOLEAN]

(* Whatever is interrupted and whoever interferes, a file that is in its   *)
(* place or in the trash stays in one of them, unless the user purges it   *)
(* or another program deletes it (TrashStore.kt "Never copy or delete it   *)
(* instead", "Never overwrite an existing name").  The one exception is    *)
(* the one trash.c admits: a reservation replaced after it was checked.    *)
NothingDestroyed ==
  [][\A f \in Reachable \ Reachable' :
       \/ \E n \in Names : OutsideRemove(n)
       \/ op.kind = "purge" /\ f \in Content(op.from)
       \/ op.kind # "none" /\ op.raced /\ f = at[op.to]]_vars

(* A payload always lies beside a readable record of where it came from:   *)
(* the record is durable before the rename and outlives the payload        *)
(* (docs/lessons/trash.md "Write and sync metadata before moving"), and    *)
(* the state is well formed.                                               *)
RecordBesidePayload ==
  /\ TypeOK
  /\ \A u \in Uuids : at[u] # Free => u \in made /\ Readable(u)

(* Every step of this module is a step of the abstract bin, or changes     *)
(* nothing the bin knows of: deleting, restoring and purging take effect   *)
(* at once, at their rename or unlink, and a file in the bin always has    *)
(* its original path, whatever crashes in between.                         *)
Paths == {<<n>> : n \in Names} \cup (Names \X Leaves)
Chains == {<<r>> : r \in Names \cup Uuids} \cup ((Names \cup Uuids) \X Leaves)
Leads(c, f) == IF Len(c) = 1 THEN at[c[1]] = f
               ELSE IsFolder(at[c[1]]) /\ at[<<at[c[1]], c[2]>>] = f
Lost == [in |-> "lost"]
Place(c) ==
  IF c[1] \in Names THEN [in |-> "live", path |-> c]
  ELSE IF Readable(c[1]) THEN [in |-> "bin", path |-> IF Len(c) = 1 THEN <<info[c[1]].path>>
                                                      ELSE <<info[c[1]].path, c[2]>>]
  ELSE Lost
place ==
  [f \in Files |-> IF \E c \in Chains : Leads(c, f)
                   THEN Place(CHOOSE c \in Chains : Leads(c, f)) ELSE [in |-> "gone"]]

Abstract == INSTANCE TrashBin WITH Files <- Files, Paths <- Paths, place <- place
ImplementsTrashBin == Abstract!Spec
==============================================================================
