---------------------------- MODULE Trash_proofs ----------------------------
(***************************************************************************)
(* Proofs about Trash for every volume, every set of entry directories and *)
(* both kinds of rename.                                                   *)
(*                                                                         *)
(* Tree says that what is on the volume has one place; Records, what lies  *)
(* beside a payload; MoveUnderWay to Reserved, what the operation that     *)
(* holds the lock may rely on at each step, whatever other programs do     *)
(* between its steps.  The last part shows that Trash implements TrashBin: *)
(* a file is at the end of one chain at most (OneChain), so a step moves   *)
(* the files inside of the node it moves and no others (MoveNodePlaces).   *)
(***************************************************************************)
EXTENDS Trash, TLAPS

Roots == Names \cup Uuids
Inner == Folders \X Leaves
Things == Files \cup Outside \cup Folders

\* A tree of two levels: a thing is in one slot, folders are in roots, and nothing
\* is inside of a folder that is nowhere.
IsTree(a) ==
  /\ \A s, t \in Slots : a[s] \in Things /\ a[s] = a[t] => s = t
  /\ \A s \in Inner : a[s] \notin Folders
  /\ \A s \in Inner : a[s] # Free => \E r \in Roots : a[r] = s[1]

Tree == IsTree(at)

Record(state, n) == [state |-> state, path |-> n]

Records ==
  /\ \A u \in Uuids : at[u] # Free => u \in made /\ info[u].state = "durable"
  /\ \A u \in Uuids : info[u].state \in {"none", "synced", "durable"}

RenameSteps == {"rename", "verify", "replace", "compare", "unlink"}

MoveUnderWay ==
  op.kind = "move" =>
    /\ op.from \in Names
    /\ op.step \in {"marker", "mkdir", "write", "commit"} \cup RenameSteps
    /\ op.step \notin {"marker", "mkdir"} => op.u \in made /\ op.to = op.u
    /\ op.step \in {"write", "commit"} => at[op.u] = Free
    /\ op.step = "commit" => info[op.u] = Record("synced", op.from)
    /\ op.step \in RenameSteps => info[op.u] = Record("durable", op.from)

LeafOf(u, s) == at[u] \in Folders /\ \E k \in Leaves : s = <<at[u], k>>

RestoreUnderWay ==
  op.kind = "restore" =>
    /\ op.step \in {"dropinfo", "rmdir"} \cup RenameSteps
    /\ op.u \in Uuids /\ op.from # op.to
    /\ op.step \in RenameSteps =>
         \/ op.from = op.u /\ op.to \in Names
         \/ LeafOf(op.u, op.from) /\ op.to \in Inner
    /\ op.step = "dropinfo" => at[op.u] = Free

PurgeUnderWay ==
  op.kind = "purge" =>
    /\ op.step \in {"payload", "leaf", "record", "rmdir"}
    /\ op.u \in Uuids
    /\ op.step = "payload" => op.from = op.u
    /\ op.step = "leaf" => LeafOf(op.u, op.from)
    /\ op.step = "record" => at[op.u] = Free

\* What is in the reserved slot; Outside has come in after the last look at it.
Reserved ==
  Moving /\ op.step \in RenameSteps \ {"rename"} =>
    /\ at[op.to] \in {Free, Stub} \cup Outside
    /\ op.step \in {"replace", "unlink"} /\ at[op.to] \in Outside => op.raced

UnderWay == MoveUnderWay /\ RestoreUnderWay /\ PurgeUnderWay /\ Reserved

IInv == TypeOK /\ Tree /\ Records /\ UnderWay

-----------------------------------------------------------------------------
(* Trees *)

LEMMA UpdateType ==
  ASSUME NEW S, NEW T, NEW f \in [S -> T], NEW x, NEW v \in T
  PROVE  [f EXCEPT ![x] = v] \in [S -> T]
  OBVIOUS

LEMMA Kinds ==
  /\ Slots = Roots \cup Inner
  /\ Names \cap Uuids = {} /\ Roots \cap Inner = {}
  /\ Nodes = Things \cup {Free, Stub}
  /\ Free \notin Things /\ Stub \notin Things /\ Free # Stub
  /\ Files \cap Outside = {} /\ (Files \cup Outside) \cap Folders = {}
  /\ Whole \notin Leaves
  BY TrashAssumption DEF TrashAssumption, Slots, Roots, Inner, Nodes, Things

LEMMA Parents ==
  /\ \A s \in Inner : s[1] \in Folders
  /\ \A x \in Folders, k \in Leaves : <<x, k>> \in Inner /\ <<x, k>>[1] = x
  /\ \A x : IsFolder(x) => Below(x) = {s \in Inner : s[1] = x}
  /\ \A x : ~IsFolder(x) => Below(x) = {}
  BY DEF Inner, Below, IsFolder

LEMMA MoveKeepsTree ==
  ASSUME NEW a \in [Slots -> Nodes], IsTree(a),
         NEW from \in Slots, NEW to \in Slots, from # to, a[to] \notin Folders,
         to \in Inner => a[from] \notin Folders /\ \E r \in Roots : a[r] = to[1]
  PROVE  IsTree([a EXCEPT ![to] = a[from], ![from] = Free])
<1> DEFINE b == [a EXCEPT ![to] = a[from], ![from] = Free]
<1>1. \A s \in Slots : b[s] = IF s = from THEN Free ELSE IF s = to THEN a[from] ELSE a[s]
  OBVIOUS
<1>2. \A s, t \in Slots : b[s] \in Things /\ b[s] = b[t] => s = t
  BY <1>1, Kinds DEF IsTree
<1>3. \A s \in Inner : b[s] \notin Folders
  BY <1>1, Kinds DEF IsTree, Things
<1>4. ASSUME NEW s \in Inner, b[s] # Free PROVE \E r \in Roots : b[r] = s[1]
  <2>1. s # from /\ s[1] \in Folders /\ s \in Slots
    BY <1>1, <1>4, Kinds, Parents
  <2>2. PICK r \in Roots : a[r] = s[1]
    BY <1>1, <1>4, <2>1 DEF IsTree
  <2>3. r \in Slots /\ r # to
    BY <2>1, <2>2, Kinds
  <2>4. CASE r = from
    <3>1. to \in Roots
      BY <2>1, <2>2, <2>4, Kinds
    <3> QED BY <1>1, <2>2, <2>4, <3>1, Kinds
  <2> QED BY <1>1, <2>2, <2>3, <2>4
<1> HIDE DEF b
<1>5. IsTree(b)
  BY <1>2, <1>3, <1>4 DEF IsTree
<1> QED BY <1>5 DEF b

\* Slots are emptied; a folder that goes leaves nothing behind inside of it.
LEMMA ClearKeepsTree ==
  ASSUME NEW a \in [Slots -> Nodes], IsTree(a), NEW S, NEW b,
         \A s \in Slots : b[s] = IF s \in S THEN Free ELSE a[s],
         \A s \in Inner, r \in Roots \cap S : a[r] = s[1] => s \in S \/ a[s] = Free
  PROVE  IsTree(b)
<1>1. \A s, t \in Slots : b[s] \in Things /\ b[s] = b[t] => s = t
  BY Kinds DEF IsTree
<1>2. \A s \in Inner : b[s] \notin Folders
  BY Kinds DEF IsTree, Things
<1>3. ASSUME NEW s \in Inner, b[s] # Free PROVE \E r \in Roots : b[r] = s[1]
  <2>1. a[s] # Free /\ s \notin S /\ s \in Slots
    BY <1>3, Kinds
  <2>2. PICK r \in Roots : a[r] = s[1]
    BY <2>1 DEF IsTree
  <2>3. r \in Slots /\ r \notin S
    BY <2>1, <2>2, Kinds
  <2> QED BY <2>2, <2>3
<1> QED BY <1>1, <1>2, <1>3 DEF IsTree

LEMMA PutKeepsTree ==
  ASSUME NEW a \in [Slots -> Nodes], IsTree(a), NEW s \in Slots, NEW v \in Nodes,
         a[s] \notin Folders, v \in Things => \A t \in Slots : a[t] # v,
         s \in Inner => v \notin Folders /\ \E r \in Roots : a[r] = s[1]
  PROVE  IsTree([a EXCEPT ![s] = v])
<1> DEFINE b == [a EXCEPT ![s] = v]
<1>1. \A t \in Slots : b[t] = IF t = s THEN v ELSE a[t]
  OBVIOUS
<1>2. \A t, w \in Slots : b[t] \in Things /\ b[t] = b[w] => t = w
  BY <1>1 DEF IsTree
<1>3. \A t \in Inner : b[t] \notin Folders
  BY <1>1, Kinds DEF IsTree
<1>4. ASSUME NEW t \in Inner, b[t] # Free PROVE \E r \in Roots : b[r] = t[1]
  <2>1. t \in Slots /\ t[1] \in Folders
    BY Kinds, Parents
  <2>2. PICK r \in Roots : a[r] = t[1]
    BY <1>1, <1>4, <2>1 DEF IsTree
  <2>3. r \in Slots /\ r # s
    BY <2>1, <2>2, Kinds
  <2> QED BY <1>1, <2>2, <2>3
<1> HIDE DEF b
<1>5. IsTree(b)
  BY <1>2, <1>3, <1>4 DEF IsTree
<1> QED BY <1>5 DEF b

\* Whatever is on the volume, something that is not a folder can be reached.
ContentIn(a, s) == {a[t] : t \in {s} \cup Below(a[s])} \cap (Files \cup Outside)
ReachableIn(a) == UNION {ContentIn(a, s) : s \in Names \cup Uuids}

LEMMA ReachableSlots ==
  ASSUME NEW a \in [Slots -> Nodes], IsTree(a)
  PROVE  ReachableIn(a) = {a[s] : s \in Slots} \cap (Files \cup Outside)
<1>1. ReachableIn(a) \subseteq {a[s] : s \in Slots} \cap (Files \cup Outside)
  BY Kinds, Parents DEF ReachableIn, ContentIn, Roots
<1>2. ASSUME NEW s \in Slots, a[s] \in Files \cup Outside PROVE a[s] \in ReachableIn(a)
  <2>1. CASE s \in Roots
    BY <1>2, <2>1 DEF ReachableIn, ContentIn, Roots
  <2>2. CASE s \in Inner
    <3>1. a[s] # Free
      BY <1>2, Kinds DEF Things
    <3>2. PICK r \in Roots : a[r] = s[1]
      BY <2>2, <3>1 DEF IsTree
    <3>3. s \in Below(a[r])
      BY <2>2, <3>2, Parents DEF IsFolder
    <3> QED BY <1>2, <3>2, <3>3 DEF ReachableIn, ContentIn, Roots
  <2> QED BY <2>1, <2>2, Kinds
<1> QED BY <1>1, <1>2

LEMMA ReachableNow == Reachable = ReachableIn(at) /\ Reachable' = ReachableIn(at')
  BY DEF Reachable, ReachableIn, Content, ContentIn

-----------------------------------------------------------------------------
(* The operation in progress *)

OpKinds == {"move", "restore", "purge"}
Ops == [kind : OpKinds, step : Steps, u : Uuids \cup {Whole}, from : Slots, to : Slots, raced : BOOLEAN]

LEMMA OpTyped ==
  ASSUME TypeOK
  PROVE  /\ op = Idle \/ op \in Ops
         /\ op.kind # "none" => op \in Ops
         /\ op \in Ops => op # Idle
  BY DEF TypeOK, Ops, OpKinds, Idle

LEMMA GotoOp ==
  ASSUME op \in Ops, NEW s \in Steps, Goto(s)
  PROVE  /\ op' \in Ops /\ op'.kind = op.kind /\ op'.step = s /\ op'.u = op.u
         /\ op'.from = op.from /\ op'.to = op.to /\ op'.raced = op.raced
  BY DEF Ops, OpKinds, Goto

LEMMA EndUnderWay ==
  ASSUME End PROVE UnderWay'
<1>1. op'.kind = "none"
  BY DEF End, Idle
<1> QED BY <1>1 DEF UnderWay, MoveUnderWay, RestoreUnderWay, PurgeUnderWay, Reserved, Moving

\* A step that ends the operation has only the volume to look after.
LEMMA EndStep ==
  ASSUME End, at' \in [Slots -> Nodes], bucket' \in {"absent", "bare", "marked"},
         made' \subseteq Uuids, listed' \subseteq Uuids, info' \in [Uuids -> Infos], Tree', Records'
  PROVE  IInv'
<1>1. TypeOK'
  BY DEF TypeOK, End
<1> QED BY <1>1, EndUnderWay DEF IInv

LEMMA LeafInner ==
  ASSUME NEW u, NEW s, LeafOf(u, s) PROVE s \in Inner /\ s[1] = at[u]
  BY DEF LeafOf, Inner

\* A node is moved by the operation that planned it, to a slot that is reserved or free.
LEMMA MoveNodeTree ==
  ASSUME IInv, Moving, op.step \in RenameSteps, MoveNode, ParentExists(op.to),
         at[op.to] \notin Folders
  PROVE  /\ at' \in [Slots -> Nodes] /\ Tree'
         /\ op.from # op.to /\ op.from \in Slots /\ op.to \in Slots
         /\ \A s \in Slots : at'[s] = IF s = op.from THEN Free ELSE IF s = op.to THEN at[op.from] ELSE at[s]
<1>1. /\ at \in [Slots -> Nodes] /\ made \subseteq Uuids
      /\ op \in Ops /\ op.from \in Slots /\ op.to \in Slots
  BY OpTyped DEF IInv, TypeOK, Moving, Ops
<1>2. op.from # op.to
  <2>1. CASE op.kind = "move"
    BY <1>1, <2>1, Kinds DEF IInv, UnderWay, MoveUnderWay, RenameSteps
  <2>2. CASE op.kind = "restore"
    BY <2>2 DEF IInv, UnderWay, RestoreUnderWay
  <2> QED BY <2>1, <2>2 DEF Moving
<1>3. ASSUME op.to \in Inner
      PROVE  at[op.from] \notin Folders /\ \E r \in Roots : at[r] = op.to[1]
  <2>1. op.kind = "restore"
    BY <1>1, <1>3, Kinds DEF Moving, IInv, UnderWay, MoveUnderWay, RenameSteps, Roots
  <2>2. LeafOf(op.u, op.from)
    BY <1>3, <2>1, Kinds DEF IInv, UnderWay, RestoreUnderWay, Roots
  <2>3. op.from \in Inner
    BY <2>2, LeafInner
  <2>4. \E n \in Names : at[n] = op.to[1]
    BY <1>3 DEF ParentExists, Inner
  <2> QED BY <2>3, <2>4 DEF IInv, Tree, IsTree, Roots
<1>4. at[op.from] \in Nodes /\ Free \in Nodes
  BY <1>1 DEF Nodes
<1>5. at' \in [Slots -> Nodes]
  BY <1>1, <1>4, UpdateType DEF MoveNode
<1>6. Tree'
  BY <1>1, <1>2, <1>3, MoveKeepsTree DEF IInv, Tree, MoveNode
<1> QED BY <1>1, <1>2, <1>5, <1>6 DEF MoveNode

\* After the move: the record is beside the payload, and a restored entry is empty.
LEMMA MoveNodeRecords ==
  ASSUME IInv, Moving, op.step \in RenameSteps, MoveNode, ParentExists(op.to),
         at[op.to] \notin Folders, UNCHANGED <<made, info>>
  PROVE  /\ Records'
         /\ op.kind = "restore" /\ op.from \in Uuids => op.u = op.from /\ at'[op.u] = Free
<1>1. \A s \in Slots : at'[s] = IF s = op.from THEN Free ELSE IF s = op.to THEN at[op.from] ELSE at[s]
  BY MoveNodeTree
<1>2. made \subseteq Uuids /\ Uuids \subseteq Slots /\ op.from \in Slots
  BY OpTyped, Kinds DEF IInv, TypeOK, Moving, Ops, Roots
<1>3. CASE op.kind = "move"
  <2>1. op.to = op.u /\ op.u \in made /\ info[op.u].state = "durable"
    BY <1>3 DEF IInv, UnderWay, MoveUnderWay, RenameSteps, Record
  <2>2. \A u \in Uuids : at'[u] # Free => u \in made /\ info[u].state = "durable"
    BY <1>1, <1>2, <2>1, Zenon DEF IInv, Records
  <2> QED BY <1>3, <2>2 DEF IInv, Records
<1>4. CASE op.kind = "restore"
  <2>1. \/ op.from = op.u /\ op.to \in Names
        \/ op.from \in Inner /\ op.to \in Inner
    BY <1>4, LeafInner DEF IInv, UnderWay, RestoreUnderWay
  <2>2. op.to \notin Uuids
    BY <2>1, Kinds DEF Roots
  <2>3. \A u \in Uuids : at'[u] # Free => at[u] # Free
    BY <1>1, <1>2, <2>2
  <2>4. op.from \in Uuids => op.u = op.from
    BY <2>1, Kinds DEF Roots
  <2> QED BY <1>1, <1>2, <2>3, <2>4 DEF IInv, Records
<1> QED BY <1>3, <1>4 DEF Moving

LEMMA Typed ==
  ASSUME IInv
  PROVE  /\ at \in [Slots -> Nodes] /\ bucket \in {"absent", "bare", "marked"}
         /\ made \subseteq Uuids /\ listed \subseteq Uuids /\ info \in [Uuids -> Infos]
         /\ op = Idle \/ op \in Ops
         /\ op.kind # "none" => op \in Ops
         /\ Names \subseteq Slots /\ Uuids \subseteq Slots /\ Inner \subseteq Slots
  BY OpTyped, Kinds DEF IInv, TypeOK, Roots

\* A step of the operation that leaves the volume as it is.
LEMMA OpStep ==
  ASSUME IInv, op' = Idle \/ op' \in Ops, UNCHANGED <<at, made, info>>,
         bucket' \in {"absent", "bare", "marked"}, listed' \subseteq Uuids, UnderWay'
  PROVE  IInv'
<1>1. TypeOK'
  BY Typed, Zenon DEF TypeOK, Ops, OpKinds
<1> QED BY <1>1 DEF IInv, Tree, Records

LEMMA EndInPlace ==
  ASSUME IInv, End, UNCHANGED <<at, made, info>>,
         bucket' \in {"absent", "bare", "marked"}, listed' \subseteq Uuids
  PROVE  IInv'
  BY OpStep, EndUnderWay DEF End

-----------------------------------------------------------------------------
(* move: what the record's steps rely on and leave behind *)

LEMMA StartMoveStep ==
  ASSUME IInv, NEW n \in Names, StartMove(n) PROVE IInv'
<1>1. op' \in Ops /\ op'.kind = "move" /\ op'.from \in Names /\ op'.step \in {"marker", "mkdir"}
  BY Typed DEF StartMove, Ops, OpKinds, Steps
<1>2. UnderWay'
  BY <1>1 DEF UnderWay, MoveUnderWay, RestoreUnderWay, PurgeUnderWay, Reserved, Moving, RenameSteps
<1> QED BY <1>1, <1>2, OpStep, Typed DEF StartMove

LEMMA WriteMarkerStep ==
  ASSUME IInv, WriteMarker PROVE IInv'
<1>1. op \in Ops /\ op.kind = "move"
  BY Typed DEF WriteMarker
<1>2. CASE End
  BY <1>2, EndInPlace, Typed DEF WriteMarker
<1>3. CASE Goto("mkdir")
  <2>1. op' \in Ops /\ op'.kind = "move" /\ op'.from = op.from /\ op'.step = "mkdir"
    BY <1>1, <1>3, GotoOp DEF Steps
  <2>2. UnderWay'
    BY <1>1, <2>1 DEF IInv, UnderWay, MoveUnderWay, RestoreUnderWay, PurgeUnderWay, Reserved, Moving, RenameSteps
  <2> QED BY <2>1, <2>2, OpStep, Typed DEF WriteMarker
<1> QED BY <1>2, <1>3 DEF WriteMarker

LEMMA MakeEntryStep ==
  ASSUME IInv, MakeEntry PROVE IInv'
<1>1. op \in Ops /\ op.kind = "move" /\ op.from \in Names
  BY Typed DEF MakeEntry, IInv, UnderWay, MoveUnderWay
<1>2. CASE End /\ UNCHANGED made
  BY <1>2, EndInPlace, Typed DEF MakeEntry
<1>3. ASSUME NEW u \in Uuids \ (made \cup listed), made' = made \cup {u},
             op' = [op EXCEPT !.step = "write", !.u = u, !.to = u]
      PROVE  IInv'
  <2>1. /\ op' \in Ops /\ op'.kind = "move" /\ op'.from = op.from
        /\ op'.step = "write" /\ op'.u = u /\ op'.to = u
    BY <1>1, <1>3, Typed DEF Ops, Steps
  <2>2. UNCHANGED <<at, bucket, info, listed>> /\ u \notin made
    BY <1>3 DEF MakeEntry
  <2>3. at[u] = Free
    BY <2>2 DEF IInv, Records
  <2>4. TypeOK'
    BY <1>3, <2>1, <2>2, Typed, Zenon DEF TypeOK, Ops, OpKinds
  <2>5. Tree' /\ Records'
    BY <1>3, <2>2 DEF IInv, Tree, Records
  <2>6. MoveUnderWay'
    BY <1>1, <1>3, <2>1, <2>2, <2>3 DEF MoveUnderWay, RenameSteps
  <2>7. UnderWay'
    BY <2>1, <2>6 DEF UnderWay, RestoreUnderWay, PurgeUnderWay, Reserved, Moving, RenameSteps
  <2> QED BY <2>4, <2>5, <2>7 DEF IInv
<1> QED BY <1>2, <1>3 DEF MakeEntry

\* The records of a move are written while its entry is empty.
LEMMA RecordsStep ==
  ASSUME IInv, NEW v \in Infos, v.state \in {"none", "synced", "durable"}, op.u \in Uuids,
         v.state = "durable" \/ at[op.u] = Free,
         info' = [info EXCEPT ![op.u] = v], UNCHANGED <<at, made>>
  PROVE  info' \in [Uuids -> Infos] /\ info'[op.u] = v /\ Records' /\ Tree'
<1>1. info' \in [Uuids -> Infos] /\ info'[op.u] = v
  BY Typed, UpdateType
<1>2. \A u \in Uuids : info'[u] = IF u = op.u THEN v ELSE info[u]
  BY Typed
<1>3. Records'
  BY <1>2 DEF IInv, Records
<1> QED BY <1>1, <1>3 DEF IInv, Tree

LEMMA RecordTypes ==
  /\ NoInfo \in Infos /\ NoInfo.state = "none"
  /\ \A n \in Names : /\ Record("synced", n) \in Infos /\ Record("durable", n) \in Infos
                      /\ Record("synced", n).state = "synced" /\ Record("durable", n).state = "durable"
                      /\ Record("synced", n).path = n /\ Record("durable", n).path = n
  BY DEF NoInfo, Infos, Record

LEMMA Committed ==
  ASSUME NEW n PROVE [Record("synced", n) EXCEPT !.state = "durable"] = Record("durable", n)
  BY DEF Record

LEMMA WriteRecordStep ==
  ASSUME IInv, WriteRecord PROVE IInv'
<1>1. op \in Ops /\ op.kind = "move" /\ op.from \in Names /\ op.u \in made /\ op.to = op.u
  BY Typed DEF WriteRecord, IInv, UnderWay, MoveUnderWay
<1>2. at[op.u] = Free /\ op.u \in Uuids
  BY <1>1, Typed DEF WriteRecord, IInv, UnderWay, MoveUnderWay
<1>3. CASE UNCHANGED info /\ End
  BY <1>3, EndInPlace, Typed DEF WriteRecord
<1>4. CASE info' = [info EXCEPT ![op.u] = Record("synced", op.from)] /\ Goto("commit")
  <2>1. info' \in [Uuids -> Infos] /\ info'[op.u] = Record("synced", op.from) /\ Records' /\ Tree'
    BY <1>1, <1>2, <1>4, RecordsStep, RecordTypes DEF WriteRecord
  <2>2. /\ op' \in Ops /\ op'.kind = "move" /\ op'.from = op.from
        /\ op'.step = "commit" /\ op'.u = op.u /\ op'.to = op.to
    BY <1>1, <1>4, GotoOp DEF Steps
  <2>3. TypeOK'
    BY <2>1, <2>2, Typed, Zenon DEF TypeOK, Ops, OpKinds, WriteRecord
  <2>4. MoveUnderWay'
    BY <1>1, <1>2, <2>1, <2>2 DEF MoveUnderWay, RenameSteps, WriteRecord
  <2>5. UnderWay'
    BY <2>2, <2>4 DEF UnderWay, RestoreUnderWay, PurgeUnderWay, Reserved, Moving, RenameSteps
  <2> QED BY <2>1, <2>3, <2>5 DEF IInv
<1> QED BY <1>3, <1>4 DEF WriteRecord, Record

LEMMA CommitRecordStep ==
  ASSUME IInv, CommitRecord PROVE IInv'
<1>1. op \in Ops /\ op.kind = "move" /\ op.from \in Names /\ op.u \in made /\ op.to = op.u
  BY Typed DEF CommitRecord, IInv, UnderWay, MoveUnderWay
<1>2. at[op.u] = Free /\ op.u \in Uuids /\ info[op.u] = Record("synced", op.from)
  BY <1>1, Typed DEF CommitRecord, IInv, UnderWay, MoveUnderWay
<1>3. CASE info' = [info EXCEPT ![op.u] = NoInfo] /\ End
  <2>1. info' \in [Uuids -> Infos] /\ Records' /\ Tree'
    BY <1>2, <1>3, RecordsStep, RecordTypes DEF CommitRecord
  <2> QED BY <1>3, <2>1, EndStep, Typed DEF CommitRecord
<1>4. CASE /\ info' = [info EXCEPT ![op.u].state = IF @ = "synced" THEN "durable" ELSE "volatile"]
           /\ Goto("rename")
  <2>1. info' = [info EXCEPT ![op.u] = Record("durable", op.from)]
    <3>1. info[op.u].state = "synced"
      BY <1>2 DEF Record
    <3>2. info' = [info EXCEPT ![op.u] = [info[op.u] EXCEPT !.state = "durable"]]
      BY <1>4, <3>1
    <3> QED BY <1>2, <3>2, Committed
  <2>2. info' \in [Uuids -> Infos] /\ info'[op.u] = Record("durable", op.from) /\ Records' /\ Tree'
    BY <1>1, <1>2, <2>1, RecordsStep, RecordTypes DEF CommitRecord
  <2>3. /\ op' \in Ops /\ op'.kind = "move" /\ op'.from = op.from
        /\ op'.step = "rename" /\ op'.u = op.u /\ op'.to = op.to
    BY <1>1, <1>4, GotoOp DEF Steps
  <2>4. TypeOK'
    BY <2>2, <2>3, Typed, Zenon DEF TypeOK, Ops, OpKinds, CommitRecord
  <2>5. MoveUnderWay'
    BY <1>1, <1>2, <2>2, <2>3 DEF MoveUnderWay, RenameSteps, CommitRecord
  <2>6. UnderWay'
    BY <2>3, <2>5 DEF UnderWay, RestoreUnderWay, PurgeUnderWay, Reserved, Moving, RenameSteps
  <2> QED BY <2>2, <2>4, <2>6 DEF IInv
<1> QED BY <1>3, <1>4 DEF CommitRecord

-----------------------------------------------------------------------------
(* The rename of trash.c *)

LEMMA RenameOnly ==
  ASSUME IInv, op.kind # "none", op.step \in RenameSteps PROVE Moving /\ op \in Ops
  BY Typed DEF Moving, Ops, OpKinds, IInv, UnderWay, PurgeUnderWay, RenameSteps

\* From one step of the rename to another, the operation's plan still holds.
LEMMA GotoRename ==
  ASSUME IInv, Moving, op \in Ops, op.step \in RenameSteps, NEW s \in RenameSteps, Goto(s),
         UNCHANGED <<made, info>>, op.kind = "restore" => at'[op.u] = at[op.u], Reserved'
  PROVE  op' \in Ops /\ UnderWay'
<1>1. /\ op' \in Ops /\ op'.kind = op.kind /\ op'.step \in RenameSteps /\ op'.u = op.u
      /\ op'.from = op.from /\ op'.to = op.to
  BY GotoOp DEF RenameSteps, Steps
<1>2. MoveUnderWay'
  BY <1>1 DEF IInv, UnderWay, MoveUnderWay, RenameSteps
<1>3. RestoreUnderWay'
  BY <1>1 DEF IInv, UnderWay, RestoreUnderWay, RenameSteps, LeafOf
<1>4. PurgeUnderWay'
  BY <1>1 DEF PurgeUnderWay, Moving
<1> QED BY <1>1, <1>2, <1>3, <1>4 DEF UnderWay

\* After a rename the operation is over, or a restored entry is cleaned up.
LEMMA DoneStep ==
  ASSUME IInv, Moving, op \in Ops, op.step \in RenameSteps, MoveNode, Done,
         ParentExists(op.to), at[op.to] \notin Folders, UNCHANGED <<bucket, made, info, listed>>
  PROVE  IInv'
<1>1. Tree' /\ Records' /\ at' \in [Slots -> Nodes]
  BY MoveNodeTree, MoveNodeRecords
<1>2. CASE End
  BY <1>1, <1>2, EndStep, Typed
<1>3. CASE op.kind = "restore" /\ op.from \in Uuids /\ Goto("dropinfo")
  <2>1. op.u = op.from /\ at'[op.u] = Free
    BY <1>3, MoveNodeRecords
  <2>2. /\ op' \in Ops /\ op'.kind = "restore" /\ op'.step = "dropinfo" /\ op'.u = op.u
        /\ op'.from = op.from /\ op'.to = op.to
    BY <1>3, GotoOp DEF Steps
  <2>3. RestoreUnderWay'
    BY <1>3, <2>1, <2>2 DEF IInv, UnderWay, RestoreUnderWay, RenameSteps
  <2>4. UnderWay'
    BY <2>2, <2>3 DEF UnderWay, MoveUnderWay, PurgeUnderWay, Reserved, Moving, RenameSteps
  <2>5. TypeOK'
    BY <1>1, <2>2, Typed, Zenon DEF TypeOK, Ops, OpKinds
  <2> QED BY <1>1, <2>4, <2>5 DEF IInv
<1> QED BY <1>2, <1>3 DEF Done

LEMMA RenameExclusiveStep ==
  ASSUME IInv, RenameExclusive PROVE IInv'
<1>1. Moving /\ op \in Ops /\ op.step \in RenameSteps
  BY Typed DEF RenameExclusive, Moving, RenameSteps
<1>2. CASE UNCHANGED at /\ End
  BY <1>2, EndInPlace, Typed DEF RenameExclusive
<1>3. CASE at[op.to] = Free /\ ParentExists(op.to) /\ MoveNode /\ Done
  BY <1>1, <1>3, DoneStep, Kinds DEF RenameExclusive, Things
<1> QED BY <1>2, <1>3 DEF RenameExclusive

LEMMA ReserveStep ==
  ASSUME IInv, Reserve PROVE IInv'
<1>1. Moving /\ op \in Ops /\ op.step \in RenameSteps
  BY Typed DEF Reserve, Moving, RenameSteps
<1>2. CASE UNCHANGED at /\ End
  BY <1>2, EndInPlace, Typed DEF Reserve
<1>3. CASE /\ at[op.to] = Free /\ ParentExists(op.to)
           /\ at' = [at EXCEPT ![op.to] = Stub] /\ Goto("verify")
  <2>1. op.to \in Slots
    BY <1>1 DEF Ops
  <2>2. op.to \in Inner => \E r \in Roots : at[r] = op.to[1]
    BY <1>3 DEF ParentExists, Inner, Roots
  <2>3. Stub \in Nodes /\ at[op.to] \notin Folders /\ Stub \notin Things /\ Stub \notin Folders
    BY <1>3, Kinds DEF Things
  <2>4. Tree'
    BY <1>3, <2>1, <2>2, <2>3, Typed, PutKeepsTree DEF IInv, Tree
  <2>5. at' \in [Slots -> Nodes] /\ at'[op.to] = Stub /\ \A s \in Slots \ {op.to} : at'[s] = at[s]
    BY <1>3, <2>1, <2>3, Typed, UpdateType
  <2>6. ASSUME op.kind = "move" PROVE Records'
    <3>1. op.to = op.u /\ op.u \in made /\ info[op.u].state = "durable"
      BY <1>1, <2>6 DEF IInv, UnderWay, MoveUnderWay, RenameSteps, Record
    <3> QED BY <2>5, <3>1, Typed DEF IInv, Records, Reserve
  <2>7. ASSUME op.kind = "restore" PROVE Records' /\ at'[op.u] = at[op.u]
    <3>1. op.to \notin Uuids /\ op.u \in Uuids
      BY <1>1, <2>7, Kinds, LeafInner DEF IInv, UnderWay, RestoreUnderWay, Roots
    <3>2. Records'
      BY <2>5, <3>1, Typed DEF IInv, Records, Reserve
    <3> QED BY <2>5, <3>1, <3>2, Typed
  <2>8. Records' /\ (op.kind = "restore" => at'[op.u] = at[op.u])
    BY <1>1, <2>6, <2>7 DEF Moving
  <2>9. op' \in Ops /\ op'.to = op.to /\ op'.step = "verify"
    BY <1>1, <1>3, GotoOp DEF Steps
  <2>10. Reserved'
    BY <2>5, <2>9 DEF Reserved
  <2>11. UnderWay'
    BY <1>1, <1>3, <2>8, <2>10, GotoRename DEF RenameSteps, Reserve
  <2>12. TypeOK'
    BY <2>5, <2>9, Typed, Zenon DEF TypeOK, Ops, OpKinds, Reserve
  <2> QED BY <2>4, <2>8, <2>11, <2>12 DEF IInv
<1> QED BY <1>2, <1>3 DEF Reserve

\* Looking at the reservation changes nothing; what was seen is Reserved.
LEMMA LookStep ==
  ASSUME IInv, Verify \/ Compare PROVE IInv'
<1>1. op.kind # "none" /\ op.step \in RenameSteps \ {"rename"}
  BY DEF Verify, Compare, RenameSteps
<1>2. Moving /\ op \in Ops
  BY <1>1, RenameOnly
<1>3. UNCHANGED <<at, bucket, made, info, listed>>
  BY DEF Verify, Compare, world
<1>4. CASE End
  BY <1>3, <1>4, EndInPlace, Typed
<1>5. ASSUME NEW s \in {"replace", "unlink", "compare"}, Goto(s), s # "compare" => at[op.to] = Stub
      PROVE  IInv'
  <2>1. s \in Steps /\ s \in RenameSteps
    BY <1>5 DEF Steps, RenameSteps
  <2>2. op' \in Ops /\ op'.to = op.to /\ op'.step = s
    BY <1>2, <1>5, <2>1, GotoOp
  <2>3. Stub \notin Outside
    BY Kinds DEF Things
  <2>4. at[op.to] \in {Free, Stub} \cup Outside
    BY <1>1, <1>2 DEF IInv, UnderWay, Reserved
  <2>5. Reserved'
    BY <1>3, <1>5, <2>2, <2>3, <2>4 DEF Reserved
  <2>6. UnderWay'
    BY <1>1, <1>2, <1>3, <1>5, <2>1, <2>5, GotoRename
  <2> QED BY <1>3, <2>2, <2>6, OpStep, Typed
<1> QED BY <1>4, <1>5 DEF Verify, Compare

LEMMA ReplaceStep ==
  ASSUME IInv, Replace PROVE IInv'
<1>1. Moving /\ op \in Ops /\ op.step \in RenameSteps /\ op.step = "replace"
  BY RenameOnly DEF Replace, RenameSteps
<1>2. at[op.to] \in {Free, Stub} \cup Outside
  BY <1>1 DEF IInv, UnderWay, Reserved, RenameSteps
<1>3. CASE UNCHANGED at /\ Goto("compare")
  <2>1. op' \in Ops /\ op'.to = op.to /\ op'.step = "compare"
    BY <1>1, <1>3, GotoOp DEF Steps
  <2>2. Reserved'
    BY <1>2, <1>3, <2>1 DEF Reserved
  <2>3. UnderWay'
    BY <1>1, <1>3, <2>2, GotoRename DEF RenameSteps, Replace
  <2> QED BY <1>3, <2>1, <2>3, OpStep, Typed DEF Replace
<1>4. CASE ParentExists(op.to) /\ MoveNode /\ Done
  BY <1>1, <1>2, <1>4, DoneStep, Kinds DEF Replace, Things
<1> QED BY <1>3, <1>4 DEF Replace

LEMMA UnreserveStep ==
  ASSUME IInv, Unreserve PROVE IInv'
<1>1. Moving /\ op \in Ops /\ op.to \in Slots
  BY RenameOnly DEF Unreserve, RenameSteps, Ops
<1>2. at[op.to] \in {Free, Stub} \cup Outside
  BY <1>1 DEF Unreserve, IInv, UnderWay, Reserved, RenameSteps
<1>3. CASE UNCHANGED at
  BY <1>3, EndInPlace, Typed DEF Unreserve
<1>4. CASE at' = [at EXCEPT ![op.to] = Free]
  <2>1. Free \in Nodes /\ at[op.to] \notin Folders
    BY <1>2, Kinds DEF Things
  <2>2. at' \in [Slots -> Nodes] /\ \A s \in Slots : at'[s] = IF s \in {op.to} THEN Free ELSE at[s]
    BY <1>1, <1>4, <2>1, Typed, UpdateType
  <2>3. \A s \in Inner, r \in Roots \cap {op.to} : at[r] = s[1] => s \in {op.to} \/ at[s] = Free
    BY <2>1, Parents
  <2>4. IsTree(at')
    BY <2>2, <2>3, Typed, ClearKeepsTree DEF IInv, Tree
  <2>5. Records'
    BY <2>2, Typed DEF IInv, Records, Unreserve
  <2> QED BY <2>2, <2>4, <2>5, EndStep, Typed DEF Unreserve, Tree
<1> QED BY <1>3, <1>4 DEF Unreserve

-----------------------------------------------------------------------------
(* snapshot, restoreItem and purge *)

LEMMA SnapshotStep ==
  ASSUME IInv, Snapshot PROVE IInv'
<1>1. op' = Idle /\ End /\ UNCHANGED <<at, bucket, made, info>> /\ listed' \subseteq Uuids
  BY Typed DEF Snapshot, End, world
<1> QED BY <1>1, EndInPlace, Typed

\* What a restore starts from: a payload and a free slot, which cannot be the same.
LEMMA RestoreToStep ==
  ASSUME NEW u \in Uuids, NEW rel, NEW slot \in Slots, NEW from \in Slots,
         RestoreTo(u, rel, slot), Payload(u, rel) = from, from # slot,
         \/ from = u /\ slot \in Names
         \/ at'[u] \in Folders /\ (\E k \in Leaves : from = <<at'[u], k>>) /\ slot \in Inner
  PROVE  op' \in Ops /\ UnderWay'
<1>1. /\ op'.kind = "restore" /\ op'.step = "rename" /\ op'.u = u /\ op'.to = slot
      /\ op'.from = from /\ op' \in Ops
  BY DEF RestoreTo, Ops, OpKinds, Steps
<1>2. RestoreUnderWay'
  BY <1>1 DEF RestoreUnderWay, RenameSteps, LeafOf
<1> QED BY <1>1, <1>2 DEF UnderWay, MoveUnderWay, PurgeUnderWay, Reserved, Moving, RenameSteps

LEMMA StartRestoreStep ==
  ASSUME IInv, NEW u \in Uuids, NEW n \in Names, StartRestore(u, n) PROVE IInv'
<1>1. /\ RestoreTo(u, Whole, n) /\ UNCHANGED <<at, bucket, made, info, listed>>
      /\ Payload(u, Whole) = u /\ u # n
  BY Kinds DEF StartRestore, Payload, world
<1>2. u \in Slots /\ n \in Slots
  BY Typed
<1>3. op' \in Ops /\ UnderWay'
  BY <1>1, <1>2, RestoreToStep
<1> QED BY <1>1, <1>3, OpStep, Typed

LEMMA StartRestoreLeafStep ==
  ASSUME IInv, NEW u \in Uuids, NEW rel \in Leaves, StartRestoreLeaf(u, rel) PROVE IInv'
<1> DEFINE parent == at[info[u].path]
<1>1. /\ Payload(u, rel) = <<at[u], rel>> /\ at[u] \in Folders /\ at[<<at[u], rel>>] # Free
      /\ UNCHANGED <<bucket, made, info, listed>>
  BY Kinds DEF StartRestoreLeaf, HasPayload, Payload, IsFolder
<1>2. info[u].path \in Names /\ info[u].path \in Slots /\ info[u].path # u
  <2>1. info[u] \in Infos /\ info[u] # NoInfo
    BY Typed DEF StartRestoreLeaf, Readable, NoInfo
  <2> QED BY <2>1, Typed, Kinds DEF Infos
<1>3. <<at[u], rel>> \in Inner /\ <<at[u], rel>> \in Slots /\ LeafOf(u, <<at[u], rel>>) /\ u \in Slots
  BY <1>1, Parents, Kinds DEF LeafOf, Roots
<1>4. CASE IsFolder(parent) /\ RestoreTo(u, rel, <<parent, rel>>) /\ UNCHANGED at
  <2>1. parent # at[u]
    BY <1>1, <1>2, <1>3 DEF IInv, Tree, IsTree, Things
  <2>2. <<parent, rel>> \in Inner /\ <<parent, rel>> \in Slots /\ <<parent, rel>> # <<at[u], rel>>
    BY <1>4, <2>1, Parents, Kinds DEF IsFolder
  <2>3. op' \in Ops /\ UnderWay'
    BY <1>1, <1>3, <1>4, <2>2, RestoreToStep
  <2> QED BY <1>1, <1>4, <2>3, OpStep, Typed
<1>5. ASSUME NEW x \in Folders, parent = Free,
             \A s \in Slots : at[s] # x, \A s \in Below(x) : at[s] = Free,
             at' = [at EXCEPT ![info[u].path] = x],
             RestoreTo(u, rel, <<x, rel>>) \/ End
      PROVE  IInv'
  <2>1. x \in Nodes /\ parent \notin Folders /\ (info[u].path \notin Inner)
    BY <1>2, <1>5, Kinds DEF Things, Roots
  <2>2. IsTree(at')
    BY <1>2, <1>5, <2>1, Typed, PutKeepsTree DEF IInv, Tree
  <2>3. at' \in [Slots -> Nodes] /\ \A s \in Slots \ {info[u].path} : at'[s] = at[s]
    BY <1>2, <1>5, <2>1, Typed, UpdateType
  <2>4. Records'
    BY <1>1, <1>2, <2>3, Typed, Kinds DEF IInv, Records
  <2>5. CASE End
    BY <1>1, <2>2, <2>3, <2>4, <2>5, EndStep, Typed DEF Tree
  <2>6. CASE RestoreTo(u, rel, <<x, rel>>)
    <3>1. <<x, rel>> \in Inner /\ <<x, rel>> \in Slots /\ <<x, rel>> # <<at[u], rel>>
      BY <1>3, <1>5, Parents, Kinds
    <3>2. at'[u] = at[u]
      BY <1>2, <1>3, <2>3
    <3>3. op' \in Ops /\ UnderWay'
      BY <1>1, <1>3, <2>6, <3>1, <3>2, RestoreToStep
    <3>4. TypeOK'
      BY <1>1, <2>3, <3>3, Typed, Zenon DEF TypeOK, Ops, OpKinds
    <3> QED BY <2>2, <2>4, <3>3, <3>4 DEF IInv, Tree
  <2> QED BY <1>5, <2>5, <2>6
<1> QED BY <1>4, <1>5 DEF StartRestoreLeaf

LEMMA StartPurgeStep ==
  ASSUME IInv, NEW u \in Uuids, NEW rel \in Leaves \cup {Whole}, StartPurge(u, rel) PROVE IInv'
<1>1. /\ op'.kind = "purge" /\ op'.u = u /\ op'.from = Payload(u, rel) /\ op'.to = u
      /\ op'.step = IF rel = Whole THEN "payload" ELSE "leaf"
      /\ UNCHANGED <<at, bucket, made, info, listed>>
  BY DEF StartPurge, world
<1>2. CASE rel = Whole
  <2>1. Payload(u, rel) = u /\ u \in Slots
    BY <1>2, Typed DEF Payload
  <2>2. op' \in Ops
    BY <2>1 DEF StartPurge, Ops, OpKinds, Steps
  <2>3. UnderWay'
    BY <1>1, <1>2, <2>1 DEF UnderWay, MoveUnderWay, RestoreUnderWay, PurgeUnderWay, Reserved, Moving
  <2> QED BY <1>1, <2>2, <2>3, OpStep, Typed
<1>3. CASE rel # Whole
  <2>1. /\ Payload(u, rel) = <<at[u], rel>> /\ at[u] \in Folders /\ rel \in Leaves
    BY <1>3 DEF StartPurge, HasPayload, Payload, IsFolder
  <2>2. Payload(u, rel) \in Slots /\ LeafOf(u, Payload(u, rel))
    BY <2>1, Parents, Kinds DEF LeafOf
  <2>3. op' \in Ops
    BY <2>2, Typed DEF StartPurge, Ops, OpKinds, Steps
  <2>4. LeafOf(u, Payload(u, rel))'
    BY <1>1, <2>2 DEF LeafOf, Payload
  <2>5. UnderWay'
    BY <1>1, <1>3, <2>2, <2>4
    DEF UnderWay, MoveUnderWay, RestoreUnderWay, PurgeUnderWay, Reserved, Moving, LeafOf
  <2> QED BY <1>1, <2>3, <2>5, OpStep, Typed
<1> QED BY <1>2, <1>3

\* Once an entry is empty, its record goes, and then the entry itself.
LEMMA DropRecordStep ==
  ASSUME IInv, DropInfo \/ PurgeRecord PROVE IInv'
<1>1. /\ op \in Ops /\ op.u \in Uuids /\ at[op.u] = Free /\ op.kind \in {"restore", "purge"}
      /\ UNCHANGED <<at, bucket, made, listed>>
  BY Typed DEF DropInfo, PurgeRecord, IInv, UnderWay, RestoreUnderWay, PurgeUnderWay
<1>2. info' \in [Uuids -> Infos] /\ Records' /\ Tree'
  <2>1. CASE info' = [info EXCEPT ![op.u] = NoInfo]
    BY <1>1, <2>1, RecordsStep, RecordTypes
  <2>2. CASE UNCHANGED info
    BY <1>1, <2>2, Typed DEF IInv, Records, Tree
  <2> QED BY <2>1, <2>2 DEF DropInfo, PurgeRecord
<1>3. CASE End
  BY <1>1, <1>2, <1>3, EndStep, Typed
<1>4. CASE Goto("rmdir")
  <2>1. /\ op' \in Ops /\ op'.kind = op.kind /\ op'.step = "rmdir" /\ op'.u = op.u
        /\ op'.from = op.from /\ op'.to = op.to
    BY <1>1, <1>4, GotoOp DEF Steps
  <2>2. RestoreUnderWay' /\ PurgeUnderWay'
    BY <1>1, <2>1 DEF IInv, UnderWay, RestoreUnderWay, PurgeUnderWay, RenameSteps
  <2>3. MoveUnderWay' /\ Reserved'
    BY <1>1, <2>1 DEF MoveUnderWay, Reserved, RenameSteps
  <2>4. TypeOK'
    BY <1>1, <1>2, <2>1, Typed, Zenon DEF TypeOK, Ops, OpKinds
  <2> QED BY <1>2, <2>2, <2>3, <2>4 DEF IInv, UnderWay
<1> QED BY <1>3, <1>4 DEF DropInfo, PurgeRecord

LEMMA RemoveEntryStep ==
  ASSUME IInv, RemoveEntry PROVE IInv'
<1>1. UNCHANGED <<at, bucket, info, listed>> /\ End
  BY DEF RemoveEntry
<1>2. made' \subseteq made /\ \A u \in Uuids : u \in made /\ u \notin made' => at[u] = Free
  BY DEF RemoveEntry
<1>3. Records' /\ Tree'
  BY <1>1, <1>2 DEF IInv, Records, Tree
<1> QED BY <1>1, <1>2, <1>3, EndStep, Typed

\* Slots of the volume are emptied, none of them by a move.
LEMMA ClearStep ==
  ASSUME IInv, NEW S, at' = [s \in Slots |-> IF s \in S THEN Free ELSE at[s]],
         \A s \in Inner, r \in Roots \cap S : at[r] = s[1] => s \in S \/ at[s] = Free,
         UNCHANGED <<made, info>>
  PROVE  at' \in [Slots -> Nodes] /\ Tree' /\ Records' /\ \A s \in Slots : at'[s] \in {Free, at[s]}
<1>1. \A s \in Slots : at'[s] = IF s \in S THEN Free ELSE at[s]
  OBVIOUS
<1>2. IsTree(at')
  BY <1>1, Typed, ClearKeepsTree DEF IInv, Tree
<1>3. Records'
  BY <1>1, Typed DEF IInv, Records
<1>4. at' \in [Slots -> Nodes]
  BY Typed, Kinds
<1> QED BY <1>1, <1>2, <1>3, <1>4 DEF Tree

LEMMA PurgePayloadStep ==
  ASSUME IInv, PurgePayload PROVE IInv'
<1> DEFINE left == {s \in Below(at[op.u]) : at[s] # Free}
<1>1. /\ op \in Ops /\ op.kind = "purge" /\ op.step = "payload" /\ op.u \in Uuids /\ op.from = op.u
      /\ UNCHANGED <<bucket, made, info, listed>>
  BY Typed DEF PurgePayload, IInv, UnderWay, PurgeUnderWay
<1>2. CASE UNCHANGED at /\ End
  BY <1>1, <1>2, EndInPlace, Typed
<1>3. ASSUME NEW s \in left, at' = [at EXCEPT ![s] = Free], UNCHANGED op PROVE IInv'
  <2>1. s \in Inner /\ s \notin Roots
    BY <1>3, Parents, Kinds
  <2>2. at' = [t \in Slots |-> IF t \in {s} THEN Free ELSE at[t]]
    BY <1>3, Typed
  <2>3. at' \in [Slots -> Nodes] /\ Tree' /\ Records'
    <3>1. \A t \in Inner, r \in Roots \cap {s} : at[r] = t[1] => t \in {s} \/ at[t] = Free
      BY <2>1
    <3> QED BY <1>1, <2>2, <3>1, ClearStep
  <2>4. UnderWay'
    BY <1>1, <1>3 DEF IInv, UnderWay, MoveUnderWay, RestoreUnderWay, PurgeUnderWay, Reserved, Moving
  <2>5. TypeOK'
    BY <1>1, <1>3, <2>3, Typed, Zenon DEF TypeOK, Ops, OpKinds
  <2> QED BY <2>3, <2>4, <2>5 DEF IInv
<1>4. CASE left = {} /\ at' = [at EXCEPT ![op.u] = Free] /\ Goto("record")
  <2>1. at' = [t \in Slots |-> IF t \in {op.u} THEN Free ELSE at[t]]
    BY <1>4, Typed
  <2>2. \A s \in Inner, r \in Roots \cap {op.u} : at[r] = s[1] => s \in {op.u} \/ at[s] = Free
    BY <1>4, Parents DEF IsFolder
  <2>3. at' \in [Slots -> Nodes] /\ Tree' /\ Records'
    BY <1>1, <2>1, <2>2, ClearStep
  <2>4. op' \in Ops /\ op'.kind = "purge" /\ op'.step = "record" /\ op'.u = op.u
    BY <1>1, <1>4, GotoOp DEF Steps
  <2>5. at'[op.u] = Free
    BY <1>1, <2>1, Typed
  <2>6. UnderWay'
    BY <1>1, <2>4, <2>5 DEF UnderWay, MoveUnderWay, RestoreUnderWay, PurgeUnderWay, Reserved, Moving
  <2>7. TypeOK'
    BY <1>1, <2>3, <2>4, Typed, Zenon DEF TypeOK, Ops, OpKinds
  <2> QED BY <2>3, <2>6, <2>7 DEF IInv
<1> QED BY <1>2, <1>3, <1>4 DEF PurgePayload

LEMMA PurgeLeafStep ==
  ASSUME IInv, PurgeLeaf PROVE IInv'
<1>1. op.from \in Inner /\ End /\ UNCHANGED <<bucket, made, info, listed>>
  BY LeafInner DEF PurgeLeaf, IInv, UnderWay, PurgeUnderWay
<1>2. CASE UNCHANGED at
  BY <1>1, <1>2, EndInPlace, Typed
<1>3. CASE at' = [at EXCEPT ![op.from] = Free]
  <2>1. at' = [t \in Slots |-> IF t \in {op.from} THEN Free ELSE at[t]]
    BY <1>3, Typed
  <2>2. \A s \in Inner, r \in Roots \cap {op.from} : at[r] = s[1] => s \in {op.from} \/ at[s] = Free
    BY <1>1, Kinds
  <2>3. at' \in [Slots -> Nodes] /\ Tree' /\ Records'
    BY <1>1, <2>1, <2>2, ClearStep
  <2> QED BY <1>1, <2>3, EndStep, Typed
<1> QED BY <1>2, <1>3 DEF PurgeLeaf

-----------------------------------------------------------------------------
(* Other programs, and the end of the process *)

LEMMA OutsideCreateStep ==
  ASSUME IInv, NEW n \in Names, NEW g \in Outside, OutsideCreate(n, g) PROVE IInv'
<1>1. /\ at' = [at EXCEPT ![n] = g] /\ UNCHANGED <<bucket, made, info, listed>>
      /\ at[n] \in {Free, Stub} /\ n \in Slots /\ n \notin Uuids /\ n \notin Inner
  BY Kinds DEF OutsideCreate, Roots
<1>2. \A s \in Slots : at[s] # g
  BY Typed, ReachableSlots, ReachableNow DEF OutsideCreate, IInv, Tree
<1>3. g \in Nodes /\ at[n] \notin Folders
  BY <1>1, Kinds DEF Things
<1>4. IsTree(at')
  BY <1>1, <1>2, <1>3, Typed, PutKeepsTree DEF IInv, Tree
<1>5. at' \in [Slots -> Nodes] /\ at'[n] = g /\ \A s \in Slots \ {n} : at'[s] = at[s]
  BY <1>1, <1>3, Typed, UpdateType
<1>6. \A u \in Uuids : at'[u] = at[u]
  BY <1>1, <1>5, Typed
<1>7. Records'
  BY <1>1, <1>6 DEF IInv, Records
<1>8. CASE op.kind = "none"
  <2>1. op = Idle /\ op' = Idle
    BY <1>8, Typed DEF OutsideCreate, Ops, OpKinds
  <2> QED BY <1>1, <1>4, <1>5, <1>7, <2>1, EndStep, Typed DEF End, Tree
<1>9. CASE op.kind # "none"
  <2>1. op \in Ops /\ op.to \in Slots
    BY <1>9, Typed DEF Ops
  <2>2. /\ op' \in Ops /\ op'.kind = op.kind /\ op'.step = op.step /\ op'.u = op.u
        /\ op'.from = op.from /\ op'.to = op.to
        /\ op.raced => op'.raced
        /\ op.to = n /\ op.step \in {"replace", "unlink"} => op'.raced
    BY <1>9, <2>1 DEF OutsideCreate, Ops
  <2>3. MoveUnderWay'
    BY <1>1, <1>6, <2>2, Typed DEF IInv, UnderWay, MoveUnderWay
  <2>4. RestoreUnderWay'
    BY <1>6, <2>2 DEF IInv, UnderWay, RestoreUnderWay, LeafOf
  <2>5. PurgeUnderWay'
    BY <1>6, <2>2 DEF IInv, UnderWay, PurgeUnderWay, LeafOf
  <2>6. Reserved'
    BY <1>5, <2>1, <2>2 DEF IInv, UnderWay, Reserved, Moving
  <2>7. TypeOK'
    BY <1>1, <1>5, <2>2, Typed, Zenon DEF TypeOK, Ops, OpKinds
  <2> QED BY <1>4, <1>7, <2>3, <2>4, <2>5, <2>6, <2>7 DEF IInv, UnderWay, Tree
<1> QED BY <1>8, <1>9

LEMMA OutsideRemoveStep ==
  ASSUME IInv, NEW n \in Names, OutsideRemove(n) PROVE IInv'
<1> DEFINE S == {n} \cup Below(at[n])
<1>1. at' = [s \in Slots |-> IF s \in S THEN Free ELSE at[s]] /\ UNCHANGED <<bucket, made, info, op, listed>>
  BY DEF OutsideRemove
<1>2. S \cap Uuids = {} /\ S \cap Roots = {n}
  BY Parents, Kinds DEF Roots
<1>3. \A s \in Inner, r \in Roots \cap S : at[r] = s[1] => s \in S \/ at[s] = Free
  BY <1>2, Parents DEF IsFolder
<1> HIDE DEF S
<1>4. at' \in [Slots -> Nodes] /\ Tree' /\ Records' /\ \A s \in Slots : at'[s] \in {Free, at[s]}
  BY <1>1, <1>3, ClearStep
<1>5. \A u \in Uuids : at'[u] = at[u]
  BY <1>1, <1>2, Typed
<1>6. MoveUnderWay'
  BY <1>1, <1>5, Typed DEF IInv, UnderWay, MoveUnderWay
<1>7. RestoreUnderWay'
  BY <1>1, <1>5 DEF IInv, UnderWay, RestoreUnderWay, LeafOf
<1>8. PurgeUnderWay'
  BY <1>1, <1>5 DEF IInv, UnderWay, PurgeUnderWay, LeafOf
<1>9. Reserved'
  <2>1. Moving => op.to \in Slots
    BY Typed DEF Moving, Ops
  <2>2. Free \notin Outside
    BY Kinds DEF Things
  <2> QED BY <1>1, <1>4, <2>1, <2>2 DEF IInv, UnderWay, Reserved, Moving
<1>10. TypeOK'
  BY <1>1, <1>4, Typed, Zenon DEF TypeOK, Ops, OpKinds
<1> QED BY <1>4, <1>6, <1>7, <1>8, <1>9, <1>10 DEF IInv, UnderWay

LEMMA CrashStep ==
  ASSUME IInv, Kill \/ PowerLoss PROVE IInv'
<1>1. End /\ listed' = {} /\ UNCHANGED <<at, bucket, made>>
  BY DEF Kill, PowerLoss, world
<1>2. UNCHANGED info
  <2>1. \A u \in Uuids : info[u].state # "volatile"
    BY DEF IInv, Records
  <2> QED BY <2>1, Typed DEF Kill, PowerLoss, world
<1> QED BY <1>1, <1>2, EndInPlace, Typed

-----------------------------------------------------------------------------
(* The invariant *)

LEMMA InitInv == Init => IInv
<1> SUFFICES ASSUME Init PROVE IInv
  OBVIOUS
<1>1. TypeOK /\ op.kind = "none" /\ at = InitialTree
  BY TrashAssumption DEF TrashAssumption, Init, TypeOK, Nodes, Infos, NoInfo, Idle
<1>2. Tree
  <2>1. \A s \in Inner : at[s] # Free => at[s] \notin Folders /\ \E r \in Roots : at[r] = s[1]
    BY <1>1, TreeAssumption DEF TreeAssumption, Inner, Roots
  <2>2. \A s, t \in Slots : at[s] \in Things /\ at[s] = at[t] => s = t
    BY <1>1, Kinds, TreeAssumption DEF TreeAssumption
  <2> QED BY <2>1, <2>2, Kinds DEF Tree, IsTree, Things
<1>3. Records
  BY TrashAssumption DEF TrashAssumption, Init, Records, NoInfo
<1>4. UnderWay
  BY <1>1 DEF UnderWay, MoveUnderWay, RestoreUnderWay, PurgeUnderWay, Reserved, Moving
<1> QED BY <1>1, <1>2, <1>3, <1>4 DEF IInv

\* The steps of Next, each on its own line for the proofs below.
LEMMA NextCases ==
  ASSUME Next
  PROVE  \/ WriteMarker \/ MakeEntry \/ WriteRecord \/ CommitRecord
         \/ RenameExclusive \/ Reserve \/ Verify \/ Replace \/ Compare \/ Unreserve
         \/ DropInfo \/ RemoveEntry \/ PurgePayload \/ PurgeLeaf \/ PurgeRecord
         \/ Snapshot \/ Kill \/ PowerLoss
         \/ \E n \in Names : StartMove(n) \/ OutsideRemove(n) \/ \E g \in Outside : OutsideCreate(n, g)
         \/ \E u \in Uuids : \/ \E n \in Names : StartRestore(u, n)
                             \/ \E rel \in Leaves : StartRestoreLeaf(u, rel)
                             \/ \E rel \in Leaves \cup {Whole} : StartPurge(u, rel)
  BY Zenon DEF Next, User, MoveStep, RenameStep, CleanStep, World

LEMMA InvStep == IInv /\ [Next]_vars => IInv'
<1> SUFFICES ASSUME IInv, [Next]_vars PROVE IInv'
  OBVIOUS
<1>1. CASE UNCHANGED vars
  <2>1. UNCHANGED <<at, bucket, made, info, op, listed>>
    BY <1>1 DEF vars, world
  <2> QED BY <2>1 DEF IInv, TypeOK, Tree, Records, UnderWay, MoveUnderWay, RestoreUnderWay,
                   PurgeUnderWay, Reserved, Moving, LeafOf
<1>2. CASE Next
  <2>1. CASE WriteMarker \/ MakeEntry \/ WriteRecord \/ CommitRecord
    BY <2>1, WriteMarkerStep, MakeEntryStep, WriteRecordStep, CommitRecordStep, Zenon
  <2>2. CASE RenameExclusive \/ Reserve \/ Verify \/ Replace \/ Compare \/ Unreserve
    BY <2>2, RenameExclusiveStep, ReserveStep, LookStep, ReplaceStep, UnreserveStep, Zenon
  <2>3. CASE DropInfo \/ RemoveEntry \/ PurgePayload \/ PurgeLeaf \/ PurgeRecord
    BY <2>3, DropRecordStep, RemoveEntryStep, PurgePayloadStep, PurgeLeafStep, Zenon
  <2>4. CASE Snapshot \/ Kill \/ PowerLoss
    BY <2>4, SnapshotStep, CrashStep, Zenon
  <2>5. CASE \E n \in Names : StartMove(n) \/ OutsideRemove(n) \/ \E g \in Outside : OutsideCreate(n, g)
    BY <2>5, StartMoveStep, OutsideRemoveStep, OutsideCreateStep, Zenon
  <2>6. CASE \E u \in Uuids : \/ \E n \in Names : StartRestore(u, n)
                              \/ \E rel \in Leaves : StartRestoreLeaf(u, rel)
                              \/ \E rel \in Leaves \cup {Whole} : StartPurge(u, rel)
    BY <2>6, StartRestoreStep, StartRestoreLeafStep, StartPurgeStep, Zenon
  <2> QED BY <1>2, <2>1, <2>2, <2>3, <2>4, <2>5, <2>6, NextCases, Zenon
<1> QED BY <1>1, <1>2

THEOREM Invariant == Spec => []IInv
  BY InitInv, InvStep, PTL DEF Spec

\* Whatever is in an entry of the trash can be put back where it came from: its record
\* is durable and beside it, at every point of every operation and after every crash.
THEOREM RecordSafe == Spec => []RecordBesidePayload
<1>1. IInv => RecordBesidePayload
  BY DEF IInv, Records, RecordBesidePayload, Readable
<1> QED BY <1>1, Invariant, PTL

-----------------------------------------------------------------------------
(* Nothing is destroyed *)

Excused(f) ==
  \/ \E n \in Names : OutsideRemove(n)
  \/ op.kind = "purge" /\ f \in Content(op.from)
  \/ op.kind # "none" /\ op.raced /\ f = at[op.to]

\* What is reachable before and not after a step was in a slot that changed.
LEMMA GoneFromSlot ==
  ASSUME IInv, IInv', NEW f \in Reachable \ Reachable'
  PROVE  /\ f \in Files \cup Outside /\ f # Free /\ f # Stub /\ f \notin Folders
         /\ \E s \in Slots : at[s] = f /\ at'[s] # f
         /\ \A s \in Slots : at'[s] # f
<1>1. at \in [Slots -> Nodes] /\ at' \in [Slots -> Nodes] /\ IsTree(at) /\ IsTree(at')
  BY DEF IInv, TypeOK, Tree
<1>2. /\ Reachable = {at[s] : s \in Slots} \cap (Files \cup Outside)
      /\ Reachable' = {at'[s] : s \in Slots} \cap (Files \cup Outside)
  BY <1>1, ReachableSlots, ReachableNow
<1> QED BY <1>2, Kinds DEF Things

\* The only thing a move can write over came in after the last look at the slot.
LEMMA MoveExcused ==
  ASSUME IInv, IInv', Moving, op.step \in RenameSteps, MoveNode, ParentExists(op.to),
         op.step = "rename" => at[op.to] = Free, op.step \in {"rename", "replace"},
         NEW f \in Reachable \ Reachable'
  PROVE  Excused(f)
<1>1. at[op.to] \in {Free, Stub} \cup Outside
  BY DEF IInv, UnderWay, Reserved, RenameSteps
<1>2. at[op.to] \notin Folders
  BY <1>1, Kinds DEF Things
<1>3. \A s \in Slots : at'[s] = IF s = op.from THEN Free ELSE IF s = op.to THEN at[op.from] ELSE at[s]
  BY <1>2, MoveNodeTree
<1>4. op.from \in Slots /\ op.to \in Slots /\ op.from # op.to
  BY <1>2, MoveNodeTree
<1>5. at[op.to] = f
  BY <1>3, <1>4, GoneFromSlot
<1>6. op.raced
  BY <1>1, <1>5, GoneFromSlot DEF IInv, UnderWay, Reserved, RenameSteps
<1> QED BY <1>5, <1>6 DEF Excused, Moving

LEMMA StepExcused ==
  ASSUME IInv, IInv', Next, NEW f \in Reachable \ Reachable'
  PROVE  Excused(f)
<1>1. PICK s \in Slots : at[s] = f /\ at'[s] # f
  BY GoneFromSlot
<1>2. f # Free /\ f # Stub /\ f \notin Folders
  BY GoneFromSlot
<1>3. ~UNCHANGED at
  BY <1>1
<1>4. CASE WriteMarker \/ MakeEntry \/ WriteRecord \/ CommitRecord
  BY <1>3, <1>4 DEF WriteMarker, MakeEntry, WriteRecord, CommitRecord
<1>5. CASE Verify \/ Compare \/ Snapshot \/ Kill \/ PowerLoss
  BY <1>3, <1>5 DEF Verify, Compare, Snapshot, Kill, PowerLoss, world
<1>6. CASE DropInfo \/ RemoveEntry \/ PurgeRecord
  BY <1>3, <1>6 DEF DropInfo, RemoveEntry, PurgeRecord
<1>7. CASE RenameExclusive
  BY <1>3, <1>7, MoveExcused DEF RenameExclusive, RenameSteps
<1>8. CASE Replace
  <2>1. Moving
    BY <1>8, RenameOnly DEF Replace, RenameSteps
  <2> QED BY <1>3, <1>8, <2>1, MoveExcused DEF Replace, RenameSteps
<1>9. CASE Reserve
  BY <1>1, <1>2, <1>9, Typed DEF Reserve
<1>10. CASE Unreserve
  <2>1. Moving /\ op.kind # "none" /\ op.step = "unlink"
    BY <1>10, RenameOnly DEF Unreserve, RenameSteps
  <2>2. at[op.to] = f
    BY <1>1, <1>3, <1>10, Typed DEF Unreserve
  <2>3. op.raced
    BY <1>2, <2>1, <2>2 DEF IInv, UnderWay, Reserved, RenameSteps
  <2> QED BY <2>1, <2>2, <2>3 DEF Excused
<1>11. CASE PurgePayload
  <2>1. op.kind = "purge" /\ op.from = op.u
    BY <1>11 DEF PurgePayload, IInv, UnderWay, PurgeUnderWay
  <2>2. s \in {op.u} \cup Below(at[op.u])
    BY <1>1, <1>3, <1>11, Typed DEF PurgePayload
  <2> QED BY <1>1, <2>1, <2>2, GoneFromSlot DEF Excused, Content
<1>12. CASE PurgeLeaf
  <2>1. op.kind = "purge" /\ s = op.from
    BY <1>1, <1>3, <1>12, Typed DEF PurgeLeaf
  <2> QED BY <1>1, <2>1, GoneFromSlot DEF Excused, Content
<1>13. ASSUME NEW n \in Names, StartMove(n) \/ OutsideRemove(n) \/ \E g \in Outside : OutsideCreate(n, g)
       PROVE  Excused(f)
  <2>1. CASE StartMove(n)
    BY <1>3, <2>1 DEF StartMove
  <2>2. CASE OutsideRemove(n)
    BY <2>2 DEF Excused
  <2>3. CASE \E g \in Outside : OutsideCreate(n, g)
    BY <1>1, <1>2, <2>3, Typed DEF OutsideCreate
  <2> QED BY <1>13, <2>1, <2>2, <2>3
<1>14. ASSUME NEW u \in Uuids, \/ \E n \in Names : StartRestore(u, n)
                               \/ \E rel \in Leaves : StartRestoreLeaf(u, rel)
                               \/ \E rel \in Leaves \cup {Whole} : StartPurge(u, rel)
       PROVE  Excused(f)
  <2>1. CASE \E n \in Names : StartRestore(u, n)
    BY <1>3, <2>1 DEF StartRestore, world
  <2>2. CASE \E rel \in Leaves : StartRestoreLeaf(u, rel)
    BY <1>1, <1>2, <2>2, Typed DEF StartRestoreLeaf
  <2>3. CASE \E rel \in Leaves \cup {Whole} : StartPurge(u, rel)
    BY <1>3, <2>3 DEF StartPurge, world
  <2> QED BY <1>14, <2>1, <2>2, <2>3
<1> QED
  BY <1>4, <1>5, <1>6, <1>7, <1>8, <1>9, <1>10, <1>11, <1>12, <1>13, <1>14, NextCases, Zenon

\* A file leaves the volume only when another program deletes it, the user purges it, or it
\* took the place of a reservation after trash.c looked: no interruption, failure or crash
\* of a move, a restore or a purge destroys anything else.
THEOREM NothingLost == Spec => NothingDestroyed
<1>1. IInv /\ IInv' /\ [Next]_vars => [\A f \in Reachable \ Reachable' : Excused(f)]_vars
  BY StepExcused, Zenon
<1>2. [\A f \in Reachable \ Reachable' : Excused(f)]_vars =>
        [\A f \in Reachable \ Reachable' :
           \/ \E n \in Names : OutsideRemove(n)
           \/ op.kind = "purge" /\ f \in Content(op.from)
           \/ op.kind # "none" /\ op.raced /\ f = at[op.to]]_vars
  BY Zenon DEF Excused
<1> QED BY <1>1, <1>2, Invariant, PTL DEF Spec, NothingDestroyed

-----------------------------------------------------------------------------
(* Where a file is, for a tree a and records i *)

Gone == [in |-> "gone"]
Live(p) == [in |-> "live", path |-> p]
Bin(p) == [in |-> "bin", path |-> p]

LeadsIn(a, c, f) ==
  IF Len(c) = 1 THEN a[c[1]] = f ELSE IsFolder(a[c[1]]) /\ a[<<a[c[1]], c[2]>>] = f
ReadableIn(i, u) == i[u].state \in {"volatile", "durable"}
PlaceIn(i, c) ==
  IF c[1] \in Names THEN Live(c)
  ELSE IF ReadableIn(i, c[1]) THEN Bin(IF Len(c) = 1 THEN <<i[c[1]].path>> ELSE <<i[c[1]].path, c[2]>>)
  ELSE Lost
PlaceOf(a, i) ==
  [f \in Files |-> IF \E c \in Chains : LeadsIn(a, c, f)
                   THEN PlaceIn(i, CHOOSE c \in Chains : LeadsIn(a, c, f)) ELSE Gone]

LEMMA PlaceNow == place = PlaceOf(at, info) /\ place' = PlaceOf(at', info')
  BY Zenon DEF place, PlaceOf, Leads, LeadsIn, Place, PlaceIn, Readable, ReadableIn, Gone, Live, Bin

\* A chain is a root, or a root and the leaf of the folder there.
LEMMA ChainForms ==
  /\ \A r \in Roots : <<r>> \in Chains /\ Len(<<r>>) = 1 /\ <<r>>[1] = r
  /\ \A r \in Roots, k \in Leaves : /\ <<r, k>> \in Chains /\ Len(<<r, k>>) = 2
                                    /\ <<r, k>>[1] = r /\ <<r, k>>[2] = k
  /\ \A c \in Chains : \/ \E r \in Roots : c = <<r>>
                       \/ \E r \in Roots, k \in Leaves : c = <<r, k>>
  BY DEF Chains, Roots

\* A file is at the end of one chain at most.
LEMMA OneChain ==
  ASSUME NEW a \in [Slots -> Nodes], IsTree(a), NEW f \in Files,
         NEW c \in Chains, NEW d \in Chains, LeadsIn(a, c, f), LeadsIn(a, d, f)
  PROVE  c = d
<1>1. f \in Things /\ f \notin Folders
  BY Kinds DEF Things
<1>2. \A r \in Roots : LeadsIn(a, <<r>>, f) => a[r] = f /\ r \in Slots
  BY ChainForms, Kinds DEF LeadsIn
<1>3. \A r \in Roots, k \in Leaves : LeadsIn(a, <<r, k>>, f) =>
        a[r] \in Folders /\ a[<<a[r], k>>] = f /\ <<a[r], k>> \in Inner /\ r \in Slots
  BY ChainForms, Kinds, Parents DEF LeadsIn, IsFolder
<1>4. ASSUME NEW r \in Roots, c = <<r>> PROVE c = d
  <2>1. ASSUME NEW q \in Roots, d = <<q>> PROVE c = d
    BY <1>1, <1>2, <1>4, <2>1 DEF IsTree
  <2>2. ASSUME NEW q \in Roots, NEW k \in Leaves, d = <<q, k>> PROVE FALSE
    <3>1. a[r] = f /\ a[<<a[q], k>>] = f /\ <<a[q], k>> \in Inner /\ r \in Slots
      BY <1>2, <1>3, <1>4, <2>2
    <3> QED BY <1>1, <3>1, Kinds DEF IsTree
  <2> QED BY <2>1, <2>2, ChainForms
<1>5. ASSUME NEW r \in Roots, NEW k \in Leaves, c = <<r, k>> PROVE c = d
  <2>1. a[r] \in Folders /\ a[<<a[r], k>>] = f /\ <<a[r], k>> \in Inner /\ r \in Slots
    BY <1>3, <1>5
  <2>2. ASSUME NEW q \in Roots, d = <<q>> PROVE FALSE
    <3>1. a[q] = f /\ q \in Slots
      BY <1>2, <2>2
    <3> QED BY <1>1, <2>1, <3>1, Kinds DEF IsTree
  <2>3. ASSUME NEW q \in Roots, NEW m \in Leaves, d = <<q, m>> PROVE c = d
    <3>1. a[q] \in Folders /\ a[<<a[q], m>>] = f /\ <<a[q], m>> \in Inner /\ q \in Slots
      BY <1>3, <2>3
    <3>2. <<a[r], k>> = <<a[q], m>>
      BY <1>1, <2>1, <3>1, Kinds DEF IsTree
    <3>3. a[r] = a[q] /\ k = m
      BY <3>2
    <3>4. r = q
      BY <2>1, <3>1, <3>3 DEF IsTree, Things
    <3> QED BY <1>5, <2>3, <3>3, <3>4
  <2> QED BY <2>2, <2>3, ChainForms
<1> QED BY <1>4, <1>5, ChainForms

LEMMA AtChain ==
  ASSUME NEW a \in [Slots -> Nodes], IsTree(a), NEW i, NEW f \in Files,
         NEW c \in Chains, LeadsIn(a, c, f)
  PROVE  PlaceOf(a, i)[f] = PlaceIn(i, c)
<1> DEFINE d == CHOOSE d \in Chains : LeadsIn(a, d, f)
<1>1. d \in Chains /\ LeadsIn(a, d, f)
  OBVIOUS
<1> HIDE DEF d
<1>2. d = c
  BY <1>1, OneChain
<1> QED BY <1>2, Zenon DEF PlaceOf, d

LEMMA Nowhere ==
  ASSUME NEW a, NEW i, NEW f \in Files, \A c \in Chains : ~LeadsIn(a, c, f)
  PROVE  PlaceOf(a, i)[f] = Gone
  BY Zenon DEF PlaceOf

\* Something that is on the volume is at the end of a chain.
LEMMA SomeChain ==
  ASSUME NEW a \in [Slots -> Nodes], IsTree(a), NEW f \in Files, NEW s \in Slots, a[s] = f
  PROVE  \/ s \in Roots /\ LeadsIn(a, <<s>>, f)
         \/ \E r \in Roots, k \in Leaves : s = <<a[r], k>> /\ LeadsIn(a, <<r, k>>, f)
<1>1. CASE s \in Roots
  BY <1>1, ChainForms DEF LeadsIn
<1>2. CASE s \in Inner
  <2>1. PICK x \in Folders, k \in Leaves : s = <<x, k>>
    BY <1>2 DEF Inner
  <2>2. PICK r \in Roots : a[r] = x
    BY <1>2, <2>1, Kinds DEF IsTree, Things
  <2>3. LeadsIn(a, <<r, k>>, f)
    BY <2>1, <2>2, ChainForms DEF LeadsIn, IsFolder
  <2> QED BY <2>1, <2>2, <2>3
<1> QED BY <1>1, <1>2, Kinds

\* The chain of a file is made of slots.
LEMMA ChainSlots ==
  ASSUME NEW a \in [Slots -> Nodes], NEW f
  PROVE  /\ \A r \in Roots : LeadsIn(a, <<r>>, f) <=> a[r] = f
         /\ \A r \in Roots, k \in Leaves :
              LeadsIn(a, <<r, k>>, f) <=> a[r] \in Folders /\ a[<<a[r], k>>] = f
  BY ChainForms DEF LeadsIn, IsFolder

LEMMA PlaceFun == ASSUME NEW a, NEW i PROVE PlaceOf(a, i) = [f \in Files |-> PlaceOf(a, i)[f]]
  BY Zenon DEF PlaceOf

\* A chain stands for the same place as long as its entry keeps its record.
LEMMA PlaceKept ==
  ASSUME NEW i, NEW j, NEW r \in Roots, r \in Uuids => j[r] = i[r]
  PROVE  /\ PlaceIn(i, <<r>>) = PlaceIn(j, <<r>>)
         /\ \A k \in Leaves : PlaceIn(i, <<r, k>>) = PlaceIn(j, <<r, k>>)
<1>1. CASE r \in Names
  BY <1>1, ChainForms DEF PlaceIn
<1>2. CASE r \in Uuids
  BY <1>2, ChainForms DEF PlaceIn, ReadableIn
<1> QED BY <1>1, <1>2 DEF Roots

LEMMA SamePlace ==
  ASSUME NEW a \in [Slots -> Nodes], NEW b \in [Slots -> Nodes], IsTree(a), IsTree(b), NEW i, NEW j,
         NEW f \in Files, \A s \in Slots : a[s] = f <=> b[s] = f,
         \A r \in Roots, k \in Leaves : a[r] \in Folders /\ a[<<a[r], k>>] = f => b[r] = a[r],
         \A u \in Uuids : a[u] \in Files \cup Folders => j[u] = i[u]
  PROVE  PlaceOf(b, j)[f] = PlaceOf(a, i)[f]
<1>1. ASSUME NEW r \in Roots, LeadsIn(a, <<r>>, f) PROVE PlaceOf(b, j)[f] = PlaceOf(a, i)[f]
  <2>1. a[r] = f /\ b[r] = f
    BY <1>1, ChainSlots, Kinds
  <2>2. LeadsIn(b, <<r>>, f)
    BY <2>1, ChainSlots
  <2>3. PlaceIn(i, <<r>>) = PlaceIn(j, <<r>>)
    BY <2>1, PlaceKept
  <2> QED BY <1>1, <2>2, <2>3, AtChain, ChainForms
<1>2. ASSUME NEW r \in Roots, NEW k \in Leaves, LeadsIn(a, <<r, k>>, f)
      PROVE  PlaceOf(b, j)[f] = PlaceOf(a, i)[f]
  <2>1. a[r] \in Folders /\ a[<<a[r], k>>] = f /\ <<a[r], k>> \in Slots
    <3>1. a[r] \in Folders /\ a[<<a[r], k>>] = f
      BY <1>2, ChainSlots
    <3> QED BY <3>1, Parents, Kinds
  <2>2. b[r] = a[r] /\ b[<<a[r], k>>] = f
    BY <2>1
  <2>3. LeadsIn(b, <<r, k>>, f)
    BY <2>1, <2>2, ChainSlots
  <2>4. PlaceIn(i, <<r, k>>) = PlaceIn(j, <<r, k>>)
    BY <2>1, PlaceKept
  <2> QED BY <1>2, <2>3, <2>4, AtChain, ChainForms
<1>3. CASE \A c \in Chains : ~LeadsIn(a, c, f)
  <2>1. \A s \in Slots : b[s] # f
    BY <1>3, SomeChain, ChainForms
  <2>2. ASSUME NEW c \in Chains, LeadsIn(b, c, f) PROVE FALSE
    <3>1. ASSUME NEW r \in Roots, c = <<r>> PROVE FALSE
      BY <2>1, <2>2, <3>1, ChainSlots, Kinds
    <3>2. ASSUME NEW r \in Roots, NEW k \in Leaves, c = <<r, k>> PROVE FALSE
      <4>1. b[r] \in Folders /\ b[<<b[r], k>>] = f
        BY <2>2, <3>2, ChainSlots
      <4> QED BY <2>1, <4>1, Parents, Kinds
    <3> QED BY <3>1, <3>2, ChainForms
  <2> QED BY <1>3, <2>2, Nowhere
<1> QED BY <1>1, <1>2, <1>3, ChainForms

\* In a live place is one file.
LEMMA LiveIsOne ==
  ASSUME NEW a \in [Slots -> Nodes], IsTree(a), NEW i, NEW f \in Files, NEW g \in Files,
         PlaceOf(a, i)[f] = PlaceOf(a, i)[g], PlaceOf(a, i)[f].in = "live"
  PROVE  f = g
<1>1. \A h \in Files : PlaceOf(a, i)[h].in = "live" =>
        \E c \in Chains : LeadsIn(a, c, h) /\ PlaceOf(a, i)[h] = Live(c)
  <2> SUFFICES ASSUME NEW h \in Files, PlaceOf(a, i)[h].in = "live"
               PROVE  \E c \in Chains : LeadsIn(a, c, h) /\ PlaceOf(a, i)[h] = Live(c)
    OBVIOUS
  <2>1. PICK c \in Chains : LeadsIn(a, c, h)
    BY Nowhere DEF Gone
  <2>2. PlaceOf(a, i)[h] = PlaceIn(i, c)
    BY <2>1, AtChain
  <2>3. PlaceIn(i, c) = Live(c)
    BY <2>2 DEF PlaceIn, Bin, Lost
  <2> QED BY <2>1, <2>2, <2>3
<1>2. PICK c \in Chains : LeadsIn(a, c, f) /\ PlaceOf(a, i)[f] = Live(c)
  BY <1>1
<1>3. PICK d \in Chains : LeadsIn(a, d, g) /\ PlaceOf(a, i)[g] = Live(d)
  BY <1>1
<1>4. Live(c) = Live(d)
  BY <1>2, <1>3
<1>5. c = d
  <2>1. Live(c).path = c /\ Live(d).path = d
    BY DEF Live
  <2> QED BY <1>4, <2>1, Zenon
<1> QED BY <1>2, <1>3, <1>5, Zenon DEF LeadsIn

LEMMA PlacePaths ==
  ASSUME NEW r \in Names
  PROVE  /\ <<r>> \in Paths /\ \A i : PlaceIn(i, <<r>>) = Live(<<r>>)
         /\ \A k \in Leaves : <<r, k>> \in Paths /\ \A i : PlaceIn(i, <<r, k>>) = Live(<<r, k>>)
  BY ChainForms DEF Paths, PlaceIn, Roots

\* What is in an entry is in the bin, with the path of its record.
LEMMA PlaceInBin ==
  ASSUME IInv, NEW u \in Uuids, at[u] # Free
  PROVE  /\ info[u].path \in Names
         /\ PlaceIn(info, <<u>>) = Bin(<<info[u].path>>)
         /\ \A k \in Leaves : PlaceIn(info, <<u, k>>) = Bin(<<info[u].path, k>>)
<1>1. info[u].state = "durable"
  BY DEF IInv, Records
<1>2. info[u].path \in Names
  BY <1>1, Typed DEF Infos, NoInfo
<1>3. u \notin Names /\ u \in Roots
  BY Kinds DEF Roots
<1> QED BY <1>1, <1>2, <1>3, ChainForms DEF PlaceIn, ReadableIn

LEMMA PlaceTyped ==
  ASSUME IInv, NEW f \in Files
  PROVE  \/ \E p \in Paths : PlaceOf(at, info)[f] = Live(p)
         \/ \E p \in Paths : PlaceOf(at, info)[f] = Bin(p)
         \/ PlaceOf(at, info)[f] = Gone
<1>1. IsTree(at) /\ at \in [Slots -> Nodes]
  BY Typed DEF IInv, Tree
<1>2. ASSUME NEW r \in Roots, LeadsIn(at, <<r>>, f)
      PROVE  \E p \in Paths : PlaceOf(at, info)[f] = Live(p) \/ PlaceOf(at, info)[f] = Bin(p)
  <2>1. PlaceOf(at, info)[f] = PlaceIn(info, <<r>>)
    BY <1>1, <1>2, AtChain, ChainForms
  <2>2. CASE r \in Names
    BY <2>1, <2>2, PlacePaths
  <2>3. CASE r \in Uuids
    <3>1. at[r] # Free
      BY <1>1, <1>2, ChainSlots, Kinds DEF Things
    <3> QED BY <2>1, <2>3, <3>1, PlaceInBin, PlacePaths
  <2> QED BY <2>2, <2>3 DEF Roots
<1>3. ASSUME NEW r \in Roots, NEW k \in Leaves, LeadsIn(at, <<r, k>>, f)
      PROVE  \E p \in Paths : PlaceOf(at, info)[f] = Live(p) \/ PlaceOf(at, info)[f] = Bin(p)
  <2>1. PlaceOf(at, info)[f] = PlaceIn(info, <<r, k>>)
    BY <1>1, <1>3, AtChain, ChainForms
  <2>2. CASE r \in Names
    BY <2>1, <2>2, PlacePaths
  <2>3. CASE r \in Uuids
    <3>1. at[r] # Free
      <4>1. at[r] \in Folders
        BY <1>1, <1>3, ChainSlots
      <4> QED BY <4>1, Kinds DEF Things
    <3> QED BY <2>1, <2>3, <3>1, PlaceInBin, PlacePaths
  <2> QED BY <2>2, <2>3 DEF Roots
<1> QED BY <1>2, <1>3, ChainForms, Nowhere

-----------------------------------------------------------------------------
(* Trash implements TrashBin *)

Inside(a, s) ==
  {f \in Files : \/ a[s] = f
                 \/ a[s] \in Folders /\ \E k \in Leaves : a[<<a[s], k>>] = f}

\* The files that a step leaves where they are.
LEMMA Stays ==
  ASSUME IInv, IInv', NEW f \in Files, \A s \in Slots : at[s] = f <=> at'[s] = f,
         \A r \in Roots, k \in Leaves : at[r] \in Folders /\ at[<<at[r], k>>] = f => at'[r] = at[r],
         \A u \in Uuids : at[u] \in Files \cup Folders => info'[u] = info[u]
  PROVE  place'[f] = place[f]
<1>1. at \in [Slots -> Nodes] /\ at' \in [Slots -> Nodes] /\ IsTree(at) /\ IsTree(at')
  BY DEF IInv, TypeOK, Tree
<1>2. PlaceOf(at', info')[f] = PlaceOf(at, info)[f]
  BY <1>1, SamePlace
<1> QED BY <1>2, PlaceNow, Zenon

LEMMA PlacesAre == place = [f \in Files |-> place[f]] /\ place' = [f \in Files |-> place'[f]]
  BY PlaceFun, PlaceNow

LEMMA AllStay ==
  ASSUME \A f \in Files : place'[f] = place[f]
  PROVE  UNCHANGED place
  BY PlacesAre

LEMMA SameVolume ==
  ASSUME IInv, IInv', UNCHANGED at, \A u \in Uuids : at[u] # Free => info'[u] = info[u]
  PROVE  UNCHANGED place
<1>1. \A u \in Uuids : at[u] \in Files \cup Folders => info'[u] = info[u]
  BY Kinds DEF Things
<1>2. \A f \in Files : place'[f] = place[f]
  BY <1>1, Stays
<1> QED BY <1>2, AllStay

\* A moved node takes what is inside with it and leaves the rest where it is.
LEMMA MoveNodePlaces ==
  ASSUME IInv, IInv', Moving, op.step \in RenameSteps, MoveNode, ParentExists(op.to),
         at[op.to] \in {Free, Stub} \cup Outside, UNCHANGED info
  PROVE  /\ \A f \in Files \ Inside(at, op.from) : place'[f] = place[f]
         /\ op.from \in Roots /\ op.to \in Roots =>
              \A f \in Inside(at, op.from) :
                \/ /\ place[f] = PlaceIn(info, <<op.from>>) /\ place'[f] = PlaceIn(info, <<op.to>>)
                   /\ LeadsIn(at, <<op.from>>, f)
                \/ \E k \in Leaves : /\ place[f] = PlaceIn(info, <<op.from, k>>)
                                     /\ place'[f] = PlaceIn(info, <<op.to, k>>)
                                     /\ LeadsIn(at, <<op.from, k>>, f)
<1>0. at[op.to] \notin Folders /\ at[op.to] \notin Files
  BY Kinds DEF Things
<1>1. /\ at' \in [Slots -> Nodes] /\ op.from # op.to /\ op.from \in Slots /\ op.to \in Slots
      /\ \A s \in Slots : at'[s] = IF s = op.from THEN Free ELSE IF s = op.to THEN at[op.from] ELSE at[s]
  BY <1>0, MoveNodeTree
<1>2. at \in [Slots -> Nodes] /\ IsTree(at) /\ IsTree(at')
  BY Typed DEF IInv, Tree
<1>3. ASSUME NEW f \in Files \ Inside(at, op.from) PROVE place'[f] = place[f]
  <2>1. f # Free /\ at[op.from] # f /\ at[op.to] # f
    <3>1. f \in Files /\ at[op.from] # f
      BY <1>3 DEF Inside
    <3> QED BY <1>0, <3>1, Kinds DEF Things
  <2>2. \A s \in Slots : at[s] = f <=> at'[s] = f
    BY <1>1, <2>1
  <2>3. ASSUME NEW r \in Roots, NEW k \in Leaves, at[r] \in Folders, at[<<at[r], k>>] = f
        PROVE  at'[r] = at[r]
    <3>1. r # op.from /\ r # op.to /\ r \in Slots
      BY <1>0, <1>3, <2>3, Kinds DEF Inside
    <3> QED BY <1>1, <3>1
  <2> QED BY <2>2, <2>3, Stays
<1>4. ASSUME op.from \in Roots, op.to \in Roots, NEW f \in Inside(at, op.from)
      PROVE  \/ /\ place[f] = PlaceIn(info, <<op.from>>) /\ place'[f] = PlaceIn(info, <<op.to>>)
                /\ LeadsIn(at, <<op.from>>, f)
             \/ \E k \in Leaves : /\ place[f] = PlaceIn(info, <<op.from, k>>)
                                  /\ place'[f] = PlaceIn(info, <<op.to, k>>)
                                  /\ LeadsIn(at, <<op.from, k>>, f)
  <2>1. CASE at[op.from] = f
    <3>1. at'[op.to] = f
      BY <1>1, <2>1
    <3>2. LeadsIn(at, <<op.from>>, f) /\ LeadsIn(at', <<op.to>>, f)
      BY <1>1, <1>2, <1>4, <2>1, <3>1, ChainSlots
    <3> QED BY <1>1, <1>2, <1>4, <3>2, AtChain, ChainForms, PlaceNow DEF Inside
  <2>2. ASSUME at[op.from] \in Folders, NEW k \in Leaves, at[<<at[op.from], k>>] = f
        PROVE  /\ place[f] = PlaceIn(info, <<op.from, k>>)
               /\ place'[f] = PlaceIn(info, <<op.to, k>>)
               /\ LeadsIn(at, <<op.from, k>>, f)
    <3>1. <<at[op.from], k>> \in Inner
      BY <2>2, Parents
    <3>2. at'[op.to] = at[op.from] /\ at'[<<at[op.from], k>>] = f
      BY <1>1, <1>4, <2>2, <3>1, Kinds
    <3>3. LeadsIn(at, <<op.from, k>>, f) /\ LeadsIn(at', <<op.to, k>>, f)
      BY <1>1, <1>2, <1>4, <2>2, <3>2, ChainSlots
    <3> QED BY <1>1, <1>2, <1>4, <2>2, <3>3, AtChain, ChainForms, PlaceNow DEF Inside
  <2> QED BY <1>4, <2>1, <2>2 DEF Inside
<1> QED BY <1>3, <1>4

\* Deleting is one step of the bin.
LEMMA MoveRecycles ==
  ASSUME IInv, IInv', op.kind = "move", op.step \in RenameSteps, MoveNode, ParentExists(op.to),
         at[op.to] \in {Free, Stub} \cup Outside, UNCHANGED info
  PROVE  Abstract!Recycle(Inside(at, op.from))
<1> DEFINE S == Inside(at, op.from)
<1>1. /\ op.from \in Names /\ op.to = op.u /\ op.u \in Uuids /\ op.from \in Roots /\ op.to \in Roots
      /\ info[op.u] = Record("durable", op.from)
  BY Typed DEF IInv, UnderWay, MoveUnderWay, RenameSteps, Roots
<1>2. Moving /\ op.to \notin Names
  BY <1>1, Kinds DEF Moving
<1>3. info[op.u].path = op.from /\ ReadableIn(info, op.u)
  BY <1>1 DEF Record, ReadableIn
<1>4. /\ PlaceIn(info, <<op.to>>) = Bin(<<op.from>>)
      /\ \A k \in Leaves : PlaceIn(info, <<op.to, k>>) = Bin(<<op.from, k>>)
  BY <1>1, <1>2, <1>3, ChainForms DEF PlaceIn
<1>5. ASSUME NEW f \in S PROVE \E p : place[f] = Live(p) /\ place'[f] = Bin(p)
  <2>1. \/ place[f] = PlaceIn(info, <<op.from>>) /\ place'[f] = PlaceIn(info, <<op.to>>)
        \/ \E k \in Leaves : /\ place[f] = PlaceIn(info, <<op.from, k>>)
                             /\ place'[f] = PlaceIn(info, <<op.to, k>>)
    BY <1>1, <1>2, MoveNodePlaces
  <2>2. /\ PlaceIn(info, <<op.from>>) = Live(<<op.from>>)
        /\ \A k \in Leaves : PlaceIn(info, <<op.from, k>>) = Live(<<op.from, k>>)
    BY <1>1, PlacePaths
  <2> QED BY <1>4, <2>1, <2>2, Zenon
<1>6. \A f \in S : place[f].in = "live" /\ place'[f] = Bin(place[f].path)
  <2>1. \A p : Live(p).in = "live" /\ Live(p).path = p
    BY DEF Live
  <2> HIDE DEF S
  <2> QED BY <1>5, <2>1, Zenon
<1>7. \A f \in Files \ S : place'[f] = place[f]
  BY <1>2, MoveNodePlaces
<1>8. S \subseteq Files
  BY DEF Inside
<1> HIDE DEF S
<1>9. place' = [f \in Files |-> IF f \in S THEN Bin(place[f].path) ELSE place[f]]
  BY <1>6, <1>7, PlacesAre
<1>10. Abstract!Recycle(S)
  BY <1>6, <1>8, <1>9 DEF Abstract!Recycle, Abstract!LiveFiles, Abstract!Bin, Bin
<1> QED BY <1>10 DEF S

\* Bringing files back is one step of the bin, to places that nothing else has.
LEMMA BackIsRestore ==
  ASSUME IInv, IInv', NEW S \in SUBSET Files,
         \A f \in S : (\E p : place[f] = Bin(p)) /\ \E p \in Paths : place'[f] = Live(p),
         \A f \in Files \ S : place'[f] = place[f]
  PROVE  Abstract!Restore(S)
<1>1. \A p : Live(p).in = "live" /\ Bin(p).in = "bin"
  BY DEF Live, Bin
<1>2. S \subseteq Abstract!BinFiles
  <2>1. \A f \in S : place[f].in = "bin"
    BY <1>1, Zenon
  <2> QED BY <2>1 DEF Abstract!BinFiles
<1>3. \A f \in S : place'[f].in = "live"
  BY <1>1, Zenon
<1>4. ASSUME NEW f \in Files
      PROVE  place'[f] \in {Live(p) : p \in Paths} \cup {Bin(p) : p \in Paths} \cup {Gone}
  <2>1. \/ \E p \in Paths : place[f] = Live(p)
        \/ \E p \in Paths : place[f] = Bin(p)
        \/ place[f] = Gone
    BY PlaceTyped, PlaceNow
  <2> QED BY <2>1
<1>5. place' \in [Files -> {Live(p) : p \in Paths} \cup {Bin(p) : p \in Paths} \cup {Gone}]
  BY <1>4, PlacesAre
<1>6. ASSUME NEW f \in S, NEW g \in Files \ {f} PROVE place'[f] # place'[g]
  <2>1. at' \in [Slots -> Nodes] /\ IsTree(at')
    BY DEF IInv, TypeOK, Tree
  <2> QED BY <1>3, <1>6, <2>1, LiveIsOne, PlaceNow
<1>7. \A f \in Files : IF f \in S THEN place'[f].in = "live" ELSE place'[f] = place[f]
  BY <1>3
<1> QED
  BY <1>2, <1>5, <1>6, <1>7
  DEF Abstract!Restore, Abstract!Live, Abstract!Bin, Abstract!Gone, Live, Bin, Gone

LEMMA MoveRestores ==
  ASSUME IInv, IInv', op.kind = "restore", op.step \in RenameSteps, MoveNode, ParentExists(op.to),
         at[op.to] \in {Free, Stub} \cup Outside, at[op.from] # Free, UNCHANGED info
  PROVE  Abstract!Restore(Inside(at, op.from))
<1> DEFINE S == Inside(at, op.from)
<1>1. Moving /\ op.u \in Uuids /\ op.u \in Roots /\ op.u \in Slots
  BY Typed DEF Moving, IInv, UnderWay, RestoreUnderWay, Roots
<1>2. S \in SUBSET Files /\ \A f \in Files \ S : place'[f] = place[f]
  BY <1>1, MoveNodePlaces DEF Inside
<1>3. CASE op.from = op.u /\ op.to \in Names
  <2>1. op.from \in Roots /\ op.to \in Roots
    BY <1>1, <1>3 DEF Roots
  <2>2. ASSUME NEW f \in S
        PROVE  (\E p : place[f] = Bin(p)) /\ \E p \in Paths : place'[f] = Live(p)
    <3>1. \/ place[f] = PlaceIn(info, <<op.from>>) /\ place'[f] = PlaceIn(info, <<op.to>>)
          \/ \E k \in Leaves : /\ place[f] = PlaceIn(info, <<op.from, k>>)
                               /\ place'[f] = PlaceIn(info, <<op.to, k>>)
      BY <1>1, <2>1, MoveNodePlaces
    <3>2. /\ PlaceIn(info, <<op.from>>) = Bin(<<info[op.u].path>>)
          /\ \A k \in Leaves : PlaceIn(info, <<op.from, k>>) = Bin(<<info[op.u].path, k>>)
      BY <1>1, <1>3, PlaceInBin
    <3>3. /\ <<op.to>> \in Paths /\ PlaceIn(info, <<op.to>>) = Live(<<op.to>>)
          /\ \A k \in Leaves : <<op.to, k>> \in Paths /\ PlaceIn(info, <<op.to, k>>) = Live(<<op.to, k>>)
      BY <1>3, PlacePaths
    <3> QED BY <3>1, <3>2, <3>3, Zenon
  <2> HIDE DEF S
  <2> QED BY <1>2, <2>2, BackIsRestore DEF S
<1>4. CASE LeafOf(op.u, op.from) /\ op.to \in Inner
  <2>1. PICK k \in Leaves : op.from = <<at[op.u], k>>
    BY <1>4 DEF LeafOf
  <2>2. PICK y \in Folders, m \in Leaves : op.to = <<y, m>>
    BY <1>4 DEF Inner
  <2>3. PICK r \in Names : at[r] = y
    BY <1>4, <2>2 DEF ParentExists, Inner
  <2>4. op.from \in Inner /\ at[op.u] \in Folders /\ at[op.from] \notin Folders
    BY <1>4, LeafInner DEF LeafOf, IInv, Tree, IsTree
  <2>5. at' \in [Slots -> Nodes] /\ IsTree(at') /\ at \in [Slots -> Nodes] /\ IsTree(at)
    BY DEF IInv, TypeOK, Tree
  <2>6. /\ op.from # op.to /\ op.from \in Slots /\ op.to \in Slots
        /\ \A s \in Slots : at'[s] = IF s = op.from THEN Free ELSE IF s = op.to THEN at[op.from] ELSE at[s]
    BY <1>1, MoveNodeTree, Kinds DEF Things
  <2>7. r \in Roots /\ r \in Slots /\ at'[r] = y
    BY <1>4, <2>3, <2>4, <2>6, Typed, Kinds DEF Roots
  <2>8. ASSUME NEW f \in S
        PROVE  (\E p : place[f] = Bin(p)) /\ \E p \in Paths : place'[f] = Live(p)
    <3>1. f \in Files /\ at[op.from] = f /\ at'[op.to] = f
      BY <2>4, <2>6 DEF Inside
    <3>2. LeadsIn(at, <<op.u, k>>, f) /\ LeadsIn(at', <<r, m>>, f)
      BY <1>1, <2>1, <2>2, <2>4, <2>5, <2>7, <3>1, ChainSlots
    <3>3. place[f] = PlaceIn(info, <<op.u, k>>) /\ place'[f] = PlaceIn(info, <<r, m>>)
      BY <1>1, <2>5, <2>7, <3>1, <3>2, AtChain, ChainForms, PlaceNow
    <3>4. at[op.u] # Free
      BY <2>4, Kinds DEF Things
    <3>5. (\E p : place[f] = Bin(p)) /\ <<r, m>> \in Paths /\ place'[f] = Live(<<r, m>>)
      <4>1. PlaceIn(info, <<op.u, k>>) = Bin(<<info[op.u].path, k>>)
        BY <1>1, <3>4, PlaceInBin
      <4> QED BY <3>3, <4>1, PlacePaths
    <3> QED BY <3>5, Zenon
  <2> HIDE DEF S
  <2> QED BY <1>2, <2>8, BackIsRestore DEF S
<1> QED BY <1>3, <1>4 DEF IInv, UnderWay, RestoreUnderWay

LEMMA MoveImplements ==
  ASSUME IInv, IInv', Moving, op.step \in RenameSteps, MoveNode, ParentExists(op.to),
         at[op.to] \in {Free, Stub} \cup Outside, at[op.from] # Free, UNCHANGED info
  PROVE  Abstract!Next
<1>1. Inside(at, op.from) \in SUBSET Files
  BY DEF Inside
<1>2. CASE op.kind = "move"
  BY <1>1, <1>2, MoveRecycles, Zenon DEF Abstract!Next
<1>3. CASE op.kind = "restore"
  BY <1>1, <1>3, MoveRestores, Zenon DEF Abstract!Next
<1> QED BY <1>2, <1>3 DEF Moving

\* What is in no slot is gone.
LEMMA NoSlot ==
  ASSUME NEW a \in [Slots -> Nodes], IsTree(a), NEW i, NEW f \in Files, \A s \in Slots : a[s] # f
  PROVE  PlaceOf(a, i)[f] = Gone
<1>1. ASSUME NEW c \in Chains, LeadsIn(a, c, f) PROVE FALSE
  <2>1. ASSUME NEW r \in Roots, c = <<r>> PROVE FALSE
    BY <1>1, <2>1, ChainSlots, Kinds
  <2>2. ASSUME NEW r \in Roots, NEW k \in Leaves, c = <<r, k>> PROVE FALSE
    <3>1. a[r] \in Folders /\ a[<<a[r], k>>] = f
      BY <1>1, <2>2, ChainSlots
    <3> QED BY <3>1, Parents, Kinds
  <2> QED BY <2>1, <2>2, ChainForms
<1> QED BY <1>1, Nowhere

LEMMA GoneNow ==
  ASSUME IInv', NEW f \in Files, \A s \in Slots : at'[s] # f
  PROVE  place'[f] = Gone
<1>1. at' \in [Slots -> Nodes] /\ IsTree(at')
  BY DEF IInv, TypeOK, Tree
<1> QED BY <1>1, NoSlot, PlaceNow

\* The purge of a file is one step of the bin; that of an empty folder, none.
LEMMA ClearPurges ==
  ASSUME IInv, IInv', NEW u \in Uuids, NEW s, s = u \/ LeafOf(u, s),
         at' = [at EXCEPT ![s] = Free], UNCHANGED info,
         at[s] \in Folders => \A k \in Leaves : at[<<at[s], k>>] = Free
  PROVE  Abstract!Next \/ UNCHANGED place
<1>1. s \in Slots /\ u \in Roots /\ u \in Slots
  BY LeafInner, Kinds DEF Roots
<1>2. /\ at \in [Slots -> Nodes] /\ IsTree(at)
      /\ \A t \in Slots : at'[t] = IF t = s THEN Free ELSE at[t]
  BY Typed DEF IInv, Tree
<1>3. Free \notin Files /\ Free \notin Folders
  BY Kinds DEF Things
<1>4. ASSUME NEW g \in Files, at[s] # g PROVE place'[g] = place[g]
  <2>1. \A t \in Slots : at[t] = g <=> at'[t] = g
    BY <1>1, <1>2, <1>3, <1>4
  <2>2. ASSUME NEW r \in Roots, NEW k \in Leaves, at[r] \in Folders, at[<<at[r], k>>] = g
        PROVE  at'[r] = at[r]
    BY <1>2, <1>3, <2>2, Kinds
  <2> QED BY <2>1, <2>2, Stays
<1>5. CASE at[s] \notin Files
  BY <1>4, <1>5, AllStay
<1>6. CASE at[s] \in Files
  <2> DEFINE f == at[s]
  <2>1. \A t \in Slots : at'[t] # f
    BY <1>1, <1>2, <1>3, <1>6, Kinds DEF IsTree, Things
  <2>2. place'[f] = Gone
    BY <1>6, <2>1, GoneNow
  <2>3. \E p : place[f] = Bin(p)
    <3>1. CASE s = u
      <4>1. LeadsIn(at, <<u>>, f) /\ at[u] # Free
        BY <1>1, <1>2, <1>3, <1>6, <3>1, ChainSlots
      <4>2. place[f] = PlaceIn(info, <<u>>)
        BY <1>1, <1>2, <1>6, <4>1, AtChain, ChainForms, PlaceNow
      <4>3. PlaceIn(info, <<u>>) = Bin(<<info[u].path>>)
        BY <4>1, PlaceInBin
      <4> QED BY <4>2, <4>3
    <3>2. CASE LeafOf(u, s)
      <4>1. PICK k \in Leaves : s = <<at[u], k>> /\ at[u] \in Folders
        BY <3>2 DEF LeafOf
      <4>2. LeadsIn(at, <<u, k>>, f) /\ at[u] # Free
        BY <1>1, <1>2, <1>3, <4>1, ChainSlots
      <4>3. place[f] = PlaceIn(info, <<u, k>>)
        BY <1>1, <1>2, <1>6, <4>2, AtChain, ChainForms, PlaceNow
      <4>4. PlaceIn(info, <<u, k>>) = Bin(<<info[u].path, k>>)
        BY <4>2, PlaceInBin
      <4> QED BY <4>3, <4>4
    <3> QED BY <3>1, <3>2
  <2>4. place[f].in = "bin"
    BY <2>3 DEF Bin
  <2>5. \A g \in Files : place'[g] = IF g = f THEN Gone ELSE place[g]
    BY <1>4, <2>2
  <2> HIDE DEF f
  <2>6. f \in Files
    BY <1>6 DEF f
  <2>7. place' = [place EXCEPT ![f] = Gone]
    BY <2>5, <2>6, PlacesAre
  <2>8. Abstract!Purge(f)
    BY <2>4, <2>6, <2>7 DEF Abstract!Purge, Abstract!BinFiles, Abstract!Gone, Gone
  <2> QED BY <2>6, <2>8 DEF Abstract!Next
<1> QED BY <1>5, <1>6

LEMMA RemoveTakesAway ==
  ASSUME IInv, IInv', NEW n \in Names, OutsideRemove(n) PROVE Abstract!TakeAway(Inside(at, n))
<1> DEFINE S == Inside(at, n)
<1>1. n \in Roots /\ n \in Slots /\ at \in [Slots -> Nodes] /\ IsTree(at) /\ UNCHANGED info
  BY Typed DEF Roots, OutsideRemove, IInv, Tree
<1>2. \A s \in Slots : at'[s] = IF s = n \/ s \in Below(at[n]) THEN Free ELSE at[s]
  BY DEF OutsideRemove
<1>3. \A s : s \in Below(at[n]) <=> at[n] \in Folders /\ \E k \in Leaves : s = <<at[n], k>>
  BY DEF Below, IsFolder
<1>4. Free \notin Files
  BY Kinds DEF Things
<1>5. ASSUME NEW f \in Files \ S PROVE place'[f] = place[f]
  <2>1. at[n] # f /\ \A s \in Below(at[n]) : at[s] # f
    BY <1>3, <1>5 DEF Inside
  <2>2. \A s \in Slots : at[s] = f <=> at'[s] = f
    BY <1>2, <1>4, <1>5, <2>1
  <2>3. ASSUME NEW r \in Roots, NEW k \in Leaves, at[r] \in Folders, at[<<at[r], k>>] = f
        PROVE  at'[r] = at[r]
    <3>1. r # n /\ r \in Slots
      BY <1>5, <2>3, Kinds DEF Inside
    <3>2. r \notin Below(at[n])
      BY <1>3, Parents, Kinds
    <3> QED BY <1>2, <3>1, <3>2
  <2> QED BY <1>1, <2>2, <2>3, Stays
<1>6. ASSUME NEW f \in S PROVE place[f].in = "live" /\ place'[f] = Gone
  <2>1. f \in Files /\ f \in Things
    BY <1>6 DEF Inside, Things
  <2>2. CASE at[n] = f
    <3>1. LeadsIn(at, <<n>>, f)
      BY <1>1, <2>2, ChainSlots
    <3>2. place[f] = Live(<<n>>)
      BY <1>1, <2>1, <3>1, AtChain, ChainForms, PlaceNow, PlacePaths
    <3>3. \A s \in Slots : at'[s] # f
      BY <1>1, <1>2, <1>4, <2>1, <2>2 DEF IsTree
    <3> QED BY <2>1, <3>2, <3>3, GoneNow DEF Live
  <2>3. ASSUME at[n] \in Folders, NEW k \in Leaves, at[<<at[n], k>>] = f
        PROVE  place[f].in = "live" /\ place'[f] = Gone
    <3>1. LeadsIn(at, <<n, k>>, f)
      BY <1>1, <2>3, ChainSlots
    <3>2. place[f] = Live(<<n, k>>)
      <4>1. place[f] = PlaceIn(info, <<n, k>>)
        BY <1>1, <2>1, <2>3, <3>1, AtChain, ChainForms, PlaceNow
      <4> QED BY <4>1, PlacePaths
    <3>3. <<at[n], k>> \in Slots /\ <<at[n], k>> \in Below(at[n])
      BY <1>3, <2>3, Parents, Kinds
    <3>4. \A s \in Slots : at'[s] # f
      BY <1>1, <1>2, <1>4, <2>1, <2>3, <3>3 DEF IsTree
    <3> QED BY <2>1, <3>2, <3>4, GoneNow DEF Live
  <2> QED BY <1>6, <2>2, <2>3 DEF Inside
<1>7. S \subseteq Files
  BY DEF Inside
<1> HIDE DEF S
<1>8. place' = [f \in Files |-> IF f \in S THEN Gone ELSE place[f]]
  BY <1>5, <1>6, PlacesAre
<1>9. Abstract!TakeAway(S)
  BY <1>6, <1>7, <1>8 DEF Abstract!TakeAway, Abstract!LiveFiles, Abstract!Gone, Gone
<1> QED BY <1>9 DEF S

\* What a step that moves no file does to the bin: nothing.
LEMMA Stutters ==
  ASSUME IInv, IInv',
         \/ WriteMarker \/ MakeEntry \/ WriteRecord \/ CommitRecord \/ Verify \/ Compare
         \/ DropInfo \/ RemoveEntry \/ PurgeRecord \/ Snapshot \/ Kill \/ PowerLoss
  PROVE  UNCHANGED place
<1>1. UNCHANGED at
  BY DEF WriteMarker, MakeEntry, WriteRecord, CommitRecord, Verify, Compare, DropInfo,
         RemoveEntry, PurgeRecord, Snapshot, Kill, PowerLoss, world
<1>2. CASE WriteMarker \/ MakeEntry \/ Verify \/ Compare \/ RemoveEntry \/ Snapshot \/ Kill
  <2>1. UNCHANGED info
    BY <1>2 DEF WriteMarker, MakeEntry, Verify, Compare, RemoveEntry, Snapshot, Kill, world
  <2> QED BY <1>1, <2>1, SameVolume
<1>3. CASE WriteRecord \/ CommitRecord \/ DropInfo \/ PurgeRecord
  <2>1. at[op.u] = Free
    BY <1>3 DEF WriteRecord, CommitRecord, DropInfo, PurgeRecord, IInv, UnderWay, MoveUnderWay,
                RestoreUnderWay, PurgeUnderWay
  <2>2. \A u \in Uuids : u # op.u => info'[u] = info[u]
    BY <1>3, Typed DEF WriteRecord, CommitRecord, DropInfo, PurgeRecord
  <2>3. \A u \in Uuids : at[u] # Free => info'[u] = info[u]
    BY <2>1, <2>2
  <2> QED BY <1>1, <2>3, SameVolume
<1>4. CASE PowerLoss
  <2>1. \A u \in Uuids : info'[u] = info[u]
    BY <1>4 DEF PowerLoss, IInv, Records
  <2> QED BY <1>1, <2>1, SameVolume
<1> QED BY <1>2, <1>3, <1>4

\* A slot that holds no file before and after is the only one to change.
LEMMA FileFreeStep ==
  ASSUME IInv, IInv', NEW s \in Slots, NEW v \in Nodes, at' = [at EXCEPT ![s] = v], UNCHANGED info,
         at[s] \notin Files \cup Folders, v \notin Files
  PROVE  UNCHANGED place
<1>1. \A t \in Slots : at'[t] = IF t = s THEN v ELSE at[t]
  BY Typed
<1>2. ASSUME NEW f \in Files PROVE place'[f] = place[f]
  <2>1. \A t \in Slots : at[t] = f <=> at'[t] = f
    BY <1>1
  <2>2. \A r \in Roots, k \in Leaves : at[r] \in Folders /\ at[<<at[r], k>>] = f => at'[r] = at[r]
    BY <1>1, Kinds
  <2> QED BY <2>1, <2>2, Stays
<1> QED BY <1>2, AllStay

LEMMA StepImplements ==
  ASSUME IInv, IInv', Next PROVE Abstract!Next \/ UNCHANGED place
<1> DEFINE Goal == Abstract!Next \/ UNCHANGED place
<1>0. /\ {Free, Stub} \cup Outside \subseteq Nodes
      /\ \A v \in {Free, Stub} \cup Outside : v \notin Files /\ v \notin Folders
      /\ Folders \subseteq Nodes /\ Folders \cap Files = {}
  BY Kinds DEF Things
<1>1. ASSUME RenameExclusive PROVE Goal
  <2>1. CASE UNCHANGED at
    BY <1>1, <2>1, SameVolume DEF RenameExclusive
  <2>2. CASE at[op.from] # Free /\ at[op.to] = Free /\ ParentExists(op.to) /\ MoveNode
    BY <1>1, <2>2, MoveImplements DEF RenameExclusive, RenameSteps
  <2> QED BY <1>1, <2>1, <2>2 DEF RenameExclusive
<1>2. ASSUME Replace PROVE Goal
  <2>1. Moving /\ op.step \in RenameSteps /\ at[op.to] \in {Free, Stub} \cup Outside
    BY <1>2, RenameOnly DEF Replace, RenameSteps, IInv, UnderWay, Reserved
  <2>2. CASE UNCHANGED at
    BY <1>2, <2>2, SameVolume DEF Replace
  <2>3. CASE at[op.from] # Free /\ ParentExists(op.to) /\ MoveNode
    BY <1>2, <2>1, <2>3, MoveImplements DEF Replace
  <2> QED BY <1>2, <2>2, <2>3 DEF Replace, CanReplace
<1>3. ASSUME Reserve PROVE Goal
  <2>1. op.to \in Slots /\ UNCHANGED info
    BY <1>3, Typed DEF Reserve, Moving, Ops
  <2>2. CASE UNCHANGED at
    BY <2>1, <2>2, SameVolume
  <2>3. CASE at[op.to] = Free /\ at' = [at EXCEPT ![op.to] = Stub]
    BY <1>0, <2>1, <2>3, FileFreeStep
  <2> QED BY <1>3, <2>2, <2>3 DEF Reserve
<1>4. ASSUME Unreserve PROVE Goal
  <2>1. op.to \in Slots /\ UNCHANGED info /\ at[op.to] \in {Free, Stub} \cup Outside
    BY <1>4, RenameOnly DEF Unreserve, RenameSteps, Ops, IInv, UnderWay, Reserved
  <2>2. CASE UNCHANGED at
    BY <2>1, <2>2, SameVolume
  <2>3. CASE at' = [at EXCEPT ![op.to] = Free]
    BY <1>0, <2>1, <2>3, FileFreeStep
  <2> QED BY <1>4, <2>2, <2>3 DEF Unreserve
<1>5. ASSUME PurgePayload PROVE Goal
  <2>1. op.u \in Uuids /\ UNCHANGED info
    BY <1>5 DEF PurgePayload, IInv, UnderWay, PurgeUnderWay
  <2>2. ASSUME NEW s \in Below(at[op.u]), at' = [at EXCEPT ![s] = Free] PROVE Goal
    <3>1. LeafOf(op.u, s)
      BY <2>2 DEF Below, IsFolder, LeafOf
    <3>2. at[s] \notin Folders
      BY <3>1, LeafInner DEF IInv, Tree, IsTree
    <3> QED BY <2>1, <2>2, <3>1, <3>2, ClearPurges
  <2>3. CASE {s \in Below(at[op.u]) : at[s] # Free} = {} /\ at' = [at EXCEPT ![op.u] = Free]
    <3>1. at[op.u] \in Folders => \A k \in Leaves : at[<<at[op.u], k>>] = Free
      BY <2>3 DEF Below, IsFolder
    <3> QED BY <2>1, <2>3, <3>1, ClearPurges
  <2>4. CASE UNCHANGED at
    BY <2>1, <2>4, SameVolume
  <2> QED BY <1>5, <2>2, <2>3, <2>4 DEF PurgePayload
<1>6. ASSUME PurgeLeaf PROVE Goal
  <2>1. op.u \in Uuids /\ UNCHANGED info /\ LeafOf(op.u, op.from)
    BY <1>6 DEF PurgeLeaf, IInv, UnderWay, PurgeUnderWay
  <2>2. at[op.from] \notin Folders
    BY <2>1, LeafInner DEF IInv, Tree, IsTree
  <2>3. CASE at' = [at EXCEPT ![op.from] = Free]
    BY <2>1, <2>2, <2>3, ClearPurges
  <2>4. CASE UNCHANGED at
    BY <2>1, <2>4, SameVolume
  <2> QED BY <1>6, <2>3, <2>4 DEF PurgeLeaf
<1>7. ASSUME NEW n \in Names, StartMove(n) \/ OutsideRemove(n) \/ \E g \in Outside : OutsideCreate(n, g)
      PROVE  Goal
  <2>1. CASE StartMove(n)
    BY <2>1, SameVolume DEF StartMove
  <2>2. CASE OutsideRemove(n)
    <3>1. Inside(at, n) \in SUBSET Files
      BY DEF Inside
    <3> QED BY <2>2, <3>1, RemoveTakesAway, Zenon DEF Abstract!Next
  <2>3. ASSUME NEW g \in Outside, OutsideCreate(n, g) PROVE Goal
    <3>1. /\ n \in Slots /\ g \in Nodes /\ g \notin Files /\ at[n] \notin Files \cup Folders
          /\ at' = [at EXCEPT ![n] = g] /\ UNCHANGED info
      BY <1>0, <2>3, Typed DEF OutsideCreate
    <3> QED BY <3>1, FileFreeStep
  <2> QED BY <1>7, <2>1, <2>2, <2>3
<1>8. ASSUME NEW u \in Uuids, \/ \E n \in Names : StartRestore(u, n)
                              \/ \E rel \in Leaves : StartRestoreLeaf(u, rel)
                              \/ \E rel \in Leaves \cup {Whole} : StartPurge(u, rel)
      PROVE  Goal
  <2>1. CASE UNCHANGED <<at, info>>
    BY <2>1, SameVolume
  <2>2. ASSUME NEW rel \in Leaves, StartRestoreLeaf(u, rel), NEW x \in Folders,
               at[info[u].path] = Free, at' = [at EXCEPT ![info[u].path] = x]
        PROVE  Goal
    <3>1. info[u].path \in Slots
      <4>1. info[u] \in Infos /\ info[u] # NoInfo
        BY <2>2, Typed DEF StartRestoreLeaf, Readable, NoInfo
      <4> QED BY <4>1, Typed DEF Infos
    <3>2. UNCHANGED info /\ x \in Nodes /\ x \notin Files /\ Free \notin Files \cup Folders
      BY <1>0, <2>2 DEF StartRestoreLeaf
    <3> QED BY <2>2, <3>1, <3>2, FileFreeStep
  <2>3. CASE \E n \in Names : StartRestore(u, n)
    BY <2>1, <2>3 DEF StartRestore, world
  <2>4. ASSUME NEW rel \in Leaves, StartRestoreLeaf(u, rel) PROVE Goal
    BY <2>1, <2>2, <2>4 DEF StartRestoreLeaf
  <2>5. CASE \E rel \in Leaves \cup {Whole} : StartPurge(u, rel)
    BY <2>1, <2>5 DEF StartPurge, world
  <2> QED BY <1>8, <2>3, <2>4, <2>5
<1>9. CASE \/ WriteMarker \/ MakeEntry \/ WriteRecord \/ CommitRecord \/ Verify \/ Compare
           \/ DropInfo \/ RemoveEntry \/ PurgeRecord \/ Snapshot \/ Kill \/ PowerLoss
  BY <1>9, Stutters, Zenon
<1> HIDE DEF Goal
<1>10. Goal
  BY <1>1, <1>2, <1>3, <1>4, <1>5, <1>6, <1>7, <1>8, <1>9, NextCases, Zenon DEF Goal
<1> QED BY <1>10 DEF Goal

LEMMA InitImplements == Init => Abstract!Init
<1> SUFFICES ASSUME Init PROVE Abstract!Init
  OBVIOUS
<1>1. IInv /\ IsTree(at) /\ at \in [Slots -> Nodes] /\ at = InitialTree
  BY InitInv DEF IInv, TypeOK, Tree, Init
<1>2. ASSUME NEW f \in Files PROVE \E p \in Paths : place[f] = Live(p)
  <2>1. PICK s \in Slots : at[s] = f
    BY <1>1, TreeAssumption DEF TreeAssumption
  <2>2. \A u \in Uuids : at[u] = Free
    BY <1>1, TrashAssumption DEF TrashAssumption
  <2>3. Free \notin Files /\ Free \notin Folders
    BY Kinds DEF Things
  <2>4. CASE s \in Roots /\ LeadsIn(at, <<s>>, f)
    <3>1. s \in Names
      BY <2>1, <2>2, <2>3, <2>4 DEF Roots
    <3>2. place[f] = PlaceIn(info, <<s>>)
      BY <1>1, <2>4, AtChain, ChainForms, PlaceNow
    <3> QED BY <3>1, <3>2, PlacePaths
  <2>5. ASSUME NEW r \in Roots, NEW k \in Leaves, LeadsIn(at, <<r, k>>, f)
        PROVE  \E p \in Paths : place[f] = Live(p)
    <3>1. at[r] \in Folders
      BY <1>1, <2>5, ChainSlots
    <3>2. r \in Names
      BY <2>2, <2>3, <3>1 DEF Roots
    <3>3. place[f] = PlaceIn(info, <<r, k>>)
      BY <1>1, <2>5, AtChain, ChainForms, PlaceNow
    <3> QED BY <3>2, <3>3, PlacePaths
  <2> QED BY <1>1, <2>1, <2>4, <2>5, SomeChain
<1>3. place \in [Files -> {Live(p) : p \in Paths}]
  BY <1>2, PlacesAre
<1>4. ASSUME NEW f \in Files, NEW g \in Files, place[f] = place[g] PROVE f = g
  <2>1. place[f].in = "live"
    <3>1. \A p : Live(p).in = "live"
      BY DEF Live
    <3> QED BY <1>2, <3>1, Zenon
  <2> QED BY <1>1, <1>4, <2>1, LiveIsOne, PlaceNow
<1> QED BY <1>3, <1>4 DEF Abstract!Init, Abstract!Live, Live

\* Deleting, restoring and purging a file are one step each of the bin that never crashes;
\* everything else this code does, and every crash, is invisible to the bin.
THEOREM Implements == Spec => ImplementsTrashBin
<1>1. IInv /\ IInv' /\ [Next]_vars => [Abstract!Next]_place
  <2> SUFFICES ASSUME IInv, IInv', [Next]_vars PROVE Abstract!Next \/ UNCHANGED place
    OBVIOUS
  <2>1. CASE UNCHANGED vars
    BY <2>1, SameVolume DEF vars, world
  <2>2. CASE Next
    BY <2>2, StepImplements
  <2> QED BY <2>1, <2>2
<1> QED BY <1>1, InitImplements, Invariant, PTL DEF Spec, ImplementsTrashBin, Abstract!Spec
=============================================================================
