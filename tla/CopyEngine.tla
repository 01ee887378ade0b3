----------------------------- MODULE CopyEngine -----------------------------
(***************************************************************************)
(* CopyEngine.transfer with SafeWrite and TransferCheckpoint: one batch of *)
(* top-level entries copied or moved into a destination directory, the     *)
(* failures of every backend call on the way, and the manual retries that  *)
(* continue from the checkpoint.                                           *)
(*                                                                         *)
(* An entry's bytes are abstracted to whose they are: of and ver name the  *)
(* source file and its version, len counts the blocks written so far, and  *)
(* a file whose blocks come from two versions is "mixed".  mt is the       *)
(* modification time: 0 for the moment of writing, a version number for a  *)
(* time copied from that version of a source file.                         *)
(***************************************************************************)
EXTENDS Integers, Sequences

CONSTANTS
  Kids,         \* Kids[i]: the files below item i, {i} when i is a file itself
  Names,        \* file names at the destination
  NameOf,       \* the name each source file is copied to
  Stamped,      \* files whose source reports a modification time
  Settings,     \* the settings a transfer may run in: see EngineAssumption
  MaxBlocks, MaxVersion, MaxAlt, MaxFaults   \* bounds

Items == DOMAIN Kids
Files == UNION {Kids[i] : i \in Items}
IsDir(i) == Kids[i] # {i}

Circumstances ==
  {"fastMove",      \* source and destination share a file system with moveWithin
   "stampFails",    \* setModifiedTime may be unsupported or fail
   "shortReads",    \* the source of a plain copy may end early without an error
   "tempRefused",   \* the server may refuse to create a temp file beside the target
   "othersWrite"}   \* other programs replace destination files between attempts

\* A setting: the entries to transfer in their order, the kind of destination, what
\* may happen to it, the names isSafeName refuses, the names a folder may already
\* hold, the blocks in a file, and the bounds on failing calls and on versions of a source.
\* The files of one directory have different names, and a file below a directory
\* of the batch shares its destination with nothing else in the batch.
ASSUME EngineAssumption ==
  /\ \A i \in Items : Kids[i] \subseteq Files
  /\ \A i, j \in Items : i # j => Kids[i] \cap Kids[j] = {}
  /\ \A i \in Items : i \in Files => Kids[i] = {i}
  /\ NameOf \in [Files -> Names] /\ "none" \notin Names
  /\ \A i \in Items : \A f, g \in Kids[i] : NameOf[f] = NameOf[g] => f = g
  /\ Stamped \subseteq Files
  /\ \A s \in Settings :
       /\ s.batch \in Seq(Items)
       /\ \A m, n \in DOMAIN s.batch : m # n =>
            /\ s.batch[m] # s.batch[n]
            /\ IsDir(s.batch[m]) =>
                 \A f \in Kids[s.batch[m]], g \in Kids[s.batch[n]] : NameOf[f] # NameOf[g]
       /\ s.backend \in {"resumable", "staged", "atomic"}
       /\ s.with \subseteq Circumstances /\ s.unsafe \subseteq Files \cup Items
       /\ s.folders \subseteq Names /\ s.faults \in 0..MaxFaults /\ s.versions \in 1..MaxVersion
       /\ s.blocks \in 1..MaxBlocks
  /\ MaxBlocks \in Nat \ {0} /\ MaxVersion \in Nat \ {0}
  /\ MaxAlt \in Nat /\ MaxFaults \in Nat
  /\ (Files \cup Items) \cap {"old", "other", "folder", "mixed", "nobody"} = {}

-----------------------------------------------------------------------------
(* Entries, destination names and checkpoint keys *)

Versions == 1..MaxVersion
OldTime == MaxVersion + 1       \* the time of files that were there before
OtherTime == MaxVersion + 2     \* the time of files another program wrote
Times == 0..OtherTime

Nobody == "nobody"
Owners == Files \cup {"old", "other", "folder", "mixed", Nobody}
Entry == [of : Owners, ver : 0..MaxVersion, len : 0..MaxBlocks, mt : Times]
NoFile == [of |-> Nobody, ver |-> 0, len |-> 0, mt |-> 0]
Exists(e) == e.of # Nobody
Folder == [of |-> "folder", ver |-> 0, len |-> 0, mt |-> OldTime]
SameBytes(e, g) == e.of = g.of /\ e.ver = g.ver /\ e.len = g.len

\* <<n, 0>> is the name n itself, <<n, k>> is "n (k)" (freeName).
Slots == Names \X (0..MaxAlt)
NoSlot == <<"none", 0>>

\* checkpoint.key: uri, size, modification time, destination.
Keys == Files \X (0..MaxVersion)
\* Variant: the key does not carry the time.
KeyByName(f, v) == <<f, 0>>
Key(f, v) == <<f, IF f \in Stamped THEN v ELSE 0>>

NoKey == <<Nobody, 0>>

NoOutput == [slot |-> NoSlot, mt |-> 0]
NoPartial == [slot |-> NoSlot, replacing |-> NoFile]

VARIABLES
  setting, move,                     \* fixed for the whole transfer
  src, gone,                         \* source files: version, and those deleted
  dst, part, temp, dirs,             \* destination: files, "name.twigpart", ".uuid.twigpart", directories
  completed, rootsDone, outputs, partials, skipped, failure,   \* TransferCheckpoint
  pc, todo, item, kids, complete,    \* transfer's loop and the directory recursion
  file, ver, slot, mode, copied,     \* copyEntry's locals
  known,                             \* Task.listed: the cached destination listings
  cancelled,                         \* Session.cancelled, or Task.aborted
  released,                          \* history: contents the user let go of
  leaked,                            \* history: partials whose deletion failed
  faults

fsVars == <<src, gone, dst, part, temp, dirs>>
checkpointVars == <<completed, rootsDone, outputs, partials, skipped, failure>>
loopVars == <<todo, item, kids, complete>>
fileVars == <<file, ver, slot, mode, copied>>
fixedVars == <<setting, move>>
historyVars == <<released, leaked>>
vars == <<fixedVars, fsVars, checkpointVars, pc, loopVars, fileVars, known,
          cancelled, historyVars, faults>>

key == Key(file, ver)
backend == setting.backend
Given(circumstance) == circumstance \in setting.with
Unsafe == setting.unsafe
Batch == setting.batch
Listed == {Batch[n] : n \in DOMAIN Batch}
Sources == UNION {Kids[i] : i \in Listed}
Targets == {NameOf[f] : f \in Sources}
Blocks == setting.blocks
Old == [of |-> "old", ver |-> 0, len |-> Blocks, mt |-> OldTime]
Other == [of |-> "other", ver |-> 0, len |-> Blocks, mt |-> OtherTime]

\* Folders F and files N stand at the destination.
Standing(F, N) ==
  [s \in Slots |-> CASE s[2] = 0 /\ s[1] \in N -> Old
                     [] s[2] = 0 /\ s[1] \in F -> Folder
                     [] OTHER -> NoFile]

Init ==
  /\ setting \in Settings /\ move \in BOOLEAN
  /\ src = [f \in Files |-> 1] /\ gone = {}
  /\ dirs \in SUBSET {i \in Listed : IsDir(i)}
  /\ \E F \in SUBSET setting.folders, N \in SUBSET Targets :
       /\ F \cap N = {}
       /\ \A i \in Listed : IsDir(i) /\ i \notin dirs => \A f \in Kids[i] : NameOf[f] \notin F \cup N
       /\ dst = Standing(F, N)
  /\ part = [s \in Slots |-> NoFile] /\ temp = [k \in Keys |-> NoFile]
  /\ completed = {} /\ rootsDone = {} /\ skipped = {}
  /\ outputs = [k \in Keys |-> NoOutput] /\ partials = [k \in Keys |-> NoPartial]
  /\ failure = [what |-> Nobody, key |-> NoKey]
  /\ pc = "idle" /\ todo = <<>> /\ item = Nobody /\ kids = {} /\ complete = TRUE
  /\ file = Nobody /\ ver = 0 /\ slot = NoSlot /\ mode = "none" /\ copied = 0
  /\ known = dst /\ cancelled = FALSE
  /\ released = {} /\ leaked = {} /\ faults = 0

-----------------------------------------------------------------------------
(* Helpers *)

\* One more backend call goes wrong.
Fault == faults < setting.faults /\ faults' = faults + 1

\* An exception reaches transfer's caller; the innermost failure is recorded.
Fail(what, k) == pc' = "failed" /\ failure' = [what |-> what, key |-> k]
FileFails == Fail(file, key)
ItemFails == Fail(item, IF IsDir(item) THEN NoKey ELSE Key(item, 1))

\* Variant: what was left out does not make the directory incomplete.
FileReturnsComplete(ok) ==
  /\ UNCHANGED complete
  /\ pc' = CASE IsDir(item) /\ ~cancelled -> "kid"
             [] ~IsDir(item) /\ ok        -> "placed"
             [] OTHER                     -> "pick"

\* copyEntry returns to transfer, or to the loop over a directory's children.
FileReturns(ok) ==
  /\ complete' = (complete /\ ok)
  /\ pc' = CASE IsDir(item) /\ ~cancelled -> "kid"
             [] ~IsDir(item) /\ ok        -> "placed"
             [] OTHER                     -> "pick"

\* One more block of the current file appended to e.
Grown(e) ==
  [of  |-> IF e.len = 0 \/ (e.of = file /\ e.ver = src[file]) THEN file ELSE "mixed",
   ver |-> src[file], len |-> e.len + 1, mt |-> 0]
Fresh == [of |-> file, ver |-> src[file], len |-> 0, mt |-> 0]

\* What source file f is at the destination once it is moved in place: a rename
\* keeps the modification time, an S3 copy does not.
Moved(f) == [of |-> f, ver |-> src[f], len |-> Blocks,
             mt |-> IF f \in Stamped /\ backend # "atomic" THEN src[f] ELSE 0]

\* ResumableWrite.canResumeWrites, with the size and the time the checkpoint key needs.
Resumable == backend = "resumable" /\ file \in Stamped

\* The listed output of an earlier attempt still stands for this very version.
AlreadyDone ==
  LET o == outputs[key]
      e == known[o.slot] IN
  /\ file \in Stamped /\ key \in completed /\ o # NoOutput
  /\ Exists(e) /\ e # Folder /\ e.len = Blocks
  /\ (o.mt = 0 \/ e.mt = o.mt)

\* The name to write: the partial's, the earlier output's, or the source's own.
TargetSlot ==
  CASE partials[key] # NoPartial -> partials[key].slot
    [] partials[key] = NoPartial /\ outputs[key] # NoOutput -> outputs[key].slot
    [] OTHER -> <<NameOf[file], 0>>

\* The entry in the way is the one whose replacement the user approved before: it
\* has its size and time (two files written at different moments differ in time).
UnchangedConflict(s) ==
  LET approved == partials[key].replacing IN
  /\ Exists(approved) /\ approved.len = known[s].len /\ approved.mt = known[s].mt
  /\ approved.mt = 0 => SameBytes(approved, known[s])

\* freeName's answer: the first "n (k)" the listing does not hold.
FreeSlot(n, k) ==
  /\ ~Exists(known[<<n, k>>])
  /\ \A j \in 1..(k - 1) : Exists(known[<<n, j>>])

-----------------------------------------------------------------------------
(* Attempts: Transfers.start, retrySession, discardPartials, and what        *)
(* happens to the files while no attempt runs                                *)

Begin ==
  /\ pc' = "pick" /\ todo' = Batch /\ known' = dst
  /\ failure' = [what |-> Nobody, key |-> NoKey]

Start ==
  /\ pc = "idle" /\ Begin
  /\ UNCHANGED <<fixedVars, fsVars, completed, rootsDone, outputs, partials, skipped,
                 item, kids, complete, fileVars, cancelled, historyVars, faults>>

Retry ==
  /\ pc = "failed" /\ ~cancelled /\ Begin
  /\ UNCHANGED <<fixedVars, fsVars, completed, rootsDone, outputs, partials, skipped,
                 item, kids, complete, fileVars, cancelled, historyVars, faults>>

\* The failed entry is skipped and its partial deleted, as far as that works.
RetrySkipping ==
  LET k == failure.key
      lost == k \in Keys /\ partials[k] # NoPartial /\ Exists(temp[k]) IN
  /\ pc = "failed" /\ ~cancelled /\ Begin
  /\ skipped' = skipped \cup {failure.what}
  /\ partials' = [j \in Keys |-> IF j = k THEN NoPartial ELSE partials[j]]
  /\ temp' = [j \in Keys |-> IF lost /\ j = k THEN NoFile ELSE temp[j]]
  /\ \/ UNCHANGED <<leaked, faults>>
     \/ lost /\ Fault /\ leaked' = leaked \cup {temp[k]}
  /\ UNCHANGED <<fixedVars, src, gone, dst, part, dirs, completed, rootsDone, outputs,
                 item, kids, complete, fileVars, cancelled, released>>

\* Variant: only the failed entry's temp file is deleted.
DiscardFailedOnly == [k \in Keys |-> IF k = failure.key THEN NoFile ELSE temp[k]]
\* The temp files the checkpoint lists are deleted.
Discarded == [k \in Keys |-> IF partials[k] = NoPartial THEN temp[k] ELSE NoFile]

\* discardPartials: after success, after a cancel, or when the user dismisses
\* the retry dialog.  A deletion that fails is ignored.
Discard ==
  /\ pc \in {"failed", "finished"} /\ pc' = "over"
  /\ partials' = [k \in Keys |-> NoPartial]
  /\ temp' = Discarded
  /\ \/ UNCHANGED <<leaked, faults>>
     \/ \E k \in Keys :
          /\ partials[k] # NoPartial /\ Exists(temp[k]) /\ Fault
          /\ leaked' = leaked \cup {temp[k]}
  /\ UNCHANGED <<fixedVars, src, gone, dst, part, dirs, completed, rootsDone, outputs,
                 skipped, failure, loopVars, fileVars, known, cancelled, released>>

\* A source file is edited before the transfer starts or between two attempts.
Touch(f) ==
  /\ pc \in {"idle", "failed"} /\ f \notin gone /\ src[f] < setting.versions
  /\ src' = [src EXCEPT ![f] = @ + 1]
  /\ UNCHANGED <<fixedVars, gone, dst, part, temp, dirs, checkpointVars, pc, loopVars,
                 fileVars, known, cancelled, historyVars, faults>>

\* Another program replaces a destination file (once per name, a bound): no
\* longer this transfer's business when the file was moved here before.
Replace(n) ==
  LET s == <<n, 0>> IN
  /\ Given("othersWrite") /\ pc = "failed" /\ Exists(dst[s]) /\ dst[s] \notin {Folder, Other}
  /\ dst' = [dst EXCEPT ![s] = Other]
  /\ released' = IF dst[s].of \in gone THEN released \cup {<<s, dst[s].of, dst[s].ver>>}
                 ELSE released
  /\ UNCHANGED <<fixedVars, src, gone, part, temp, dirs, checkpointVars, pc, loopVars,
                 fileVars, known, cancelled, leaked, faults>>

\* Session.cancel while the transfer runs.
Cancel ==
  /\ pc \notin {"idle", "failed", "finished", "over"} /\ ~cancelled
  /\ cancelled' = TRUE
  /\ UNCHANGED <<fixedVars, fsVars, checkpointVars, pc, loopVars, fileVars, known,
                 historyVars, faults>>

Over == pc = "over" /\ UNCHANGED vars

-----------------------------------------------------------------------------
(* transfer: the loop over the batch *)

PickEnd ==
  /\ pc = "pick" /\ (todo = <<>> \/ cancelled)
  /\ pc' = "finished"
  /\ UNCHANGED <<fixedVars, fsVars, checkpointVars, loopVars, fileVars, known, cancelled,
                 historyVars, faults>>

\* An unsafe name, an entry completed earlier, or one the user chose to skip.
PassedOver(i) == i \in Unsafe \cup rootsDone \cup skipped

PickItem ==
  /\ pc = "pick" /\ todo # <<>> /\ ~cancelled
  /\ todo' = Tail(todo) /\ item' = Head(todo) /\ complete' = TRUE /\ kids' = {}
  /\ pc' = IF PassedOver(Head(todo)) THEN "pick" ELSE "item"
  /\ UNCHANGED <<fixedVars, fsVars, checkpointVars, fileVars, known, cancelled,
                 historyVars, faults>>

\* Variant: moveWithin is tried without looking.
TakenForFree(i) == TRUE
\* The name is free in the cached listing.
ListedFree(i) == IF IsDir(i) THEN i \notin dirs ELSE ~Exists(known[<<NameOf[i], 0>>])
\* The name is free at the destination, which LocalFileSystem.moveWithin looks at
\* and S3FileSystem.moveWithin does not.
ReallyFree(i) == ~IsDir(i) => ~Exists(dst[<<NameOf[i], 0>>])
MovesFast ==
  move /\ Given("fastMove") /\ ListedFree(item) /\ (backend # "atomic" => ReallyFree(item))

\* The files of S appear under their own names.
Placing(S) ==
  [s \in Slots |-> IF \E f \in S : s = <<NameOf[f], 0>>
                   THEN Moved(CHOOSE f \in S : s = <<NameOf[f], 0>>) ELSE dst[s]]

\* moveWithin succeeds; the cached listing does not learn of the new entry.
MoveWithin ==
  LET S == Kids[item] \ gone IN
  /\ pc = "item" /\ MovesFast
  /\ dst' = Placing(S) /\ gone' = gone \cup S
  /\ dirs' = IF IsDir(item) THEN dirs \cup {item} ELSE dirs
  /\ rootsDone' = rootsDone \cup {item}
  /\ pc' = "pick"
  /\ UNCHANGED <<fixedVars, src, part, temp, completed, outputs, partials, skipped, failure,
                 loopVars, fileVars, known, cancelled, historyVars, faults>>

\* S3 copies and deletes object by object and can stop anywhere.
MoveWithinFails ==
  /\ pc = "item" /\ MovesFast /\ backend = "atomic" /\ Fault
  /\ \E C \in SUBSET (Kids[item] \ gone) : \E D \in SUBSET C :
       /\ dst' = Placing(C) /\ gone' = gone \cup D
       /\ dirs' = IF IsDir(item) /\ C # {} THEN dirs \cup {item} ELSE dirs
  /\ ItemFails
  /\ UNCHANGED <<fixedVars, src, part, temp, completed, rootsDone, outputs, partials, skipped,
                 loopVars, fileVars, known, cancelled, historyVars>>

\* needsRefresh: a plain entry with a checkpoint is looked at again, otherwise
\* the entry is what it was when the user chose it (version 1).
NeedsRefresh ==
  ~IsDir(item) /\ (partials[Key(item, 1)] # NoPartial \/ outputs[Key(item, 1)] # NoOutput)

EnterFileItem ==
  /\ pc = "item" /\ ~MovesFast /\ ~IsDir(item)
  /\ NeedsRefresh => item \notin gone
  /\ file' = item /\ ver' = IF NeedsRefresh THEN src[item] ELSE 1
  /\ pc' = "file"
  /\ UNCHANGED <<fixedVars, fsVars, checkpointVars, loopVars, slot, mode, copied, known,
                 cancelled, historyVars, faults>>

\* A same-name directory is merged into, otherwise it is created.
EnterDir ==
  /\ pc = "item" /\ ~MovesFast /\ IsDir(item)
  /\ dirs' = dirs \cup {item} /\ kids' = Kids[item] \ gone
  /\ pc' = "kid"
  /\ UNCHANGED <<fixedVars, src, gone, dst, part, temp, checkpointVars, todo, item, complete,
                 fileVars, known, cancelled, historyVars, faults>>

\* The source is gone, or a listing, a stat or mkdir fails.
ItemBreaks ==
  /\ pc = "item"
  /\ \/ NeedsRefresh /\ item \in gone /\ UNCHANGED faults
     \/ Fault
  /\ ItemFails
  /\ UNCHANGED <<fixedVars, fsVars, completed, rootsDone, outputs, partials, skipped, loopVars,
                 fileVars, known, cancelled, historyVars>>

NextKid ==
  /\ pc = "kid"
  /\ \E f \in kids : file' = f /\ ver' = src[f] /\ kids' = kids \ {f}
  /\ pc' = "file"
  /\ UNCHANGED <<fixedVars, fsVars, checkpointVars, todo, item, complete, slot, mode, copied,
                 known, cancelled, historyVars, faults>>

EndDir ==
  /\ pc = "kid" /\ kids = {}
  /\ pc' = IF complete THEN "placed" ELSE "pick"
  /\ UNCHANGED <<fixedVars, fsVars, checkpointVars, loopVars, fileVars, known, cancelled,
                 historyVars, faults>>

\* The entry is complete: a move deletes the source, children and all.
Placed ==
  /\ pc = "placed"
  /\ gone' = IF move THEN gone \cup Kids[item] ELSE gone
  /\ rootsDone' = rootsDone \cup {item}
  /\ pc' = "pick"
  /\ UNCHANGED <<fixedVars, src, dst, part, temp, dirs, completed, outputs, partials, skipped,
                 failure, loopVars, fileVars, known, cancelled, historyVars, faults>>

DeleteSourceFails ==
  /\ pc = "placed" /\ move /\ Fault
  /\ \E D \in SUBSET Kids[item] : gone' = gone \cup D
  /\ ItemFails
  /\ UNCHANGED <<fixedVars, src, dst, part, temp, dirs, completed, rootsDone, outputs, partials,
                 skipped, loopVars, fileVars, known, cancelled, historyVars>>

-----------------------------------------------------------------------------
(* copyEntry: what to write, and where *)

Refused == cancelled \/ file \in Unsafe \/ file \in skipped

LeaveOut ==
  /\ pc = "file" /\ Refused
  /\ FileReturns(FALSE)
  /\ UNCHANGED <<fixedVars, fsVars, checkpointVars, todo, item, kids, fileVars, known,
                 cancelled, historyVars, faults>>

ShortCircuit ==
  /\ pc = "file" /\ ~Refused /\ AlreadyDone
  /\ FileReturns(TRUE)
  /\ UNCHANGED <<fixedVars, fsVars, checkpointVars, todo, item, kids, fileVars, known,
                 cancelled, historyVars, faults>>

Examine ==
  /\ pc = "file" /\ ~Refused /\ ~AlreadyDone
  /\ completed' = completed \ {key}
  /\ slot' = TargetSlot
  /\ pc' = IF Exists(known[TargetSlot]) /\ ~UnchangedConflict(TargetSlot) THEN "ask" ELSE "open"
  /\ UNCHANGED <<fixedVars, fsVars, rootsDone, outputs, partials, skipped, failure, loopVars,
                 file, ver, mode, copied, known, cancelled, historyVars, faults>>

\* Listing the source directory, or the destination directory, fails.
ListFails ==
  /\ Fault
  /\ \/ pc = "kid" /\ kids = Kids[item] \ gone /\ ItemFails
     \/ pc = "file" /\ FileFails
  /\ UNCHANGED <<fixedVars, fsVars, completed, rootsDone, outputs, partials, skipped, loopVars,
                 fileVars, known, cancelled, historyVars>>

\* The four answers to a same-name conflict.
Overwrite ==
  /\ pc = "ask"
  /\ released' = released \cup {<<slot, known[slot].of, known[slot].ver>>}
  /\ pc' = "open"
  /\ UNCHANGED <<fixedVars, fsVars, checkpointVars, loopVars, fileVars, known, cancelled,
                 leaked, faults>>

Skip ==
  /\ pc = "ask" /\ FileReturns(FALSE)
  /\ UNCHANGED <<fixedVars, fsVars, checkpointVars, todo, item, kids, fileVars, known,
                 cancelled, historyVars, faults>>

Rename ==
  /\ pc = "ask"
  /\ \E k \in 1..MaxAlt : FreeSlot(NameOf[file], k) /\ slot' = <<NameOf[file], k>>
  /\ pc' = "open"
  /\ UNCHANGED <<fixedVars, fsVars, checkpointVars, loopVars, file, ver, mode, copied, known,
                 cancelled, historyVars, faults>>

\* resolverFor sets the session's flag, copyEntry sets task.aborted.
Abort ==
  /\ pc = "ask" /\ pc' = "pick"
  /\ cancelled' = TRUE /\ complete' = FALSE
  /\ UNCHANGED <<fixedVars, fsVars, checkpointVars, todo, item, kids, fileVars, known,
                 historyVars, faults>>

-----------------------------------------------------------------------------
(* Writing: the resumable branch of copyEntry, and SafeWrite.replace         *)

InTheWay == known[slot] = Folder

\* The listed size of the partial.
Offset == temp[key].len

\* The partial is recorded before anything is opened, and resumed where it ends.
OpenPartial ==
  /\ pc = "open" /\ ~InTheWay /\ Resumable /\ file \notin gone
  /\ partials' = [partials EXCEPT ![key] = [slot |-> slot, replacing |-> known[slot]]]
  /\ \/ /\ temp' = [temp EXCEPT ![key] = IF Exists(@) /\ @.len > 0 THEN @ ELSE Fresh]
        /\ copied' = Offset /\ mode' = "temp"
        /\ pc' = "pump" /\ UNCHANGED <<failure, faults>>
     \/ Fault /\ FileFails /\ UNCHANGED <<temp, copied, mode>>
  /\ UNCHANGED <<fixedVars, src, gone, dst, part, dirs, completed, rootsDone, outputs, skipped,
                 loopVars, file, ver, slot, known, cancelled, historyVars>>

\* SafeWrite.replace: straight to a free name, over an existing entry where that
\* is atomic (part[slot] is then the pending upload), else into "name.twigpart".
OpenReplace ==
  /\ pc = "open" /\ ~InTheWay /\ ~Resumable /\ file \notin gone
  /\ copied' = 0 /\ pc' = "pump"
  /\ IF ~Exists(known[slot])
     THEN /\ mode' = "direct" /\ dst' = [dst EXCEPT ![slot] = Fresh]
          /\ UNCHANGED <<part, faults>>
     ELSE \/ /\ mode' = IF backend = "atomic" THEN "atomic" ELSE "part"
             /\ part' = [part EXCEPT ![slot] = Fresh] /\ UNCHANGED <<dst, faults>>
          \/ /\ Given("tempRefused") /\ backend # "atomic" /\ Fault
             /\ mode' = "inplace" /\ dst' = [dst EXCEPT ![slot] = Fresh] /\ UNCHANGED part
  /\ UNCHANGED <<fixedVars, src, gone, temp, dirs, checkpointVars, loopVars, file, ver, slot,
                 known, cancelled, historyVars>>

\* The source or the target cannot be opened, or a folder has the target's name.
\* A failed direct write deletes its target.
OpenFails ==
  /\ pc = "open"
  /\ \/ (InTheWay \/ file \in gone) /\ UNCHANGED <<dst, faults>>
     \/ ~InTheWay /\ ~Resumable /\ Fault
        /\ \/ UNCHANGED dst
           \/ ~Exists(known[slot]) /\ dst' = [dst EXCEPT ![slot] = NoFile]
  /\ FileFails
  /\ UNCHANGED <<fixedVars, src, gone, part, temp, dirs, completed, rootsDone, outputs, partials,
                 skipped, loopVars, fileVars, known, cancelled, historyVars>>

\* pipe writes one block; a temp file's last one may be lost without an error.
Pump ==
  /\ pc = "pump" /\ ~cancelled /\ copied < Blocks
  /\ copied' = copied + 1
  /\ \/ temp' = (IF mode = "temp" THEN [temp EXCEPT ![key] = Grown(@)] ELSE temp) /\ UNCHANGED faults
     \/ mode = "temp" /\ copied = Blocks - 1 /\ Fault /\ UNCHANGED temp
  /\ part' = IF mode \in {"part", "atomic"} THEN [part EXCEPT ![slot] = Grown(@)] ELSE part
  /\ dst' = IF mode \in {"direct", "inplace"} THEN [dst EXCEPT ![slot] = Grown(@)] ELSE dst
  /\ UNCHANGED <<fixedVars, src, gone, dirs, checkpointVars, pc, loopVars, file, ver, slot, mode,
                 known, cancelled, historyVars>>

\* The source ends.  A plain copy outside the resumable branch takes the
\* source's word for it.
PumpEnds ==
  /\ pc = "pump"
  /\ \/ copied = Blocks /\ UNCHANGED faults
     \/ Given("shortReads") /\ copied < Blocks /\ ~move /\ mode # "temp" /\ Fault
  /\ dst' = IF mode = "atomic" THEN [dst EXCEPT ![slot] = part[slot]] ELSE dst
  /\ part' = IF mode = "atomic" THEN [part EXCEPT ![slot] = NoFile] ELSE part
  /\ pc' = CASE mode = "temp" -> "verify" [] mode = "part" -> "delete" [] OTHER -> "stamp"
  /\ UNCHANGED <<fixedVars, src, gone, temp, dirs, checkpointVars, loopVars, fileVars, known,
                 cancelled, historyVars>>

\* The user cancels, or a read, a write or close fails (a short read of a move
\* too).  A direct write and a "name.twigpart" are deleted, if that works; an
\* atomic target commits on close what it has, if that works.
PumpBreaks ==
  /\ pc = "pump"
  /\ \E broken, cleanup \in {0, 1} :
       /\ broken = 0 => cancelled
       /\ faults + broken + cleanup <= setting.faults
       /\ faults' = faults + broken + cleanup
       /\ dst' = CASE mode = "direct" /\ cleanup = 0 -> [dst EXCEPT ![slot] = NoFile]
                   [] mode = "atomic" /\ cleanup = 0 -> [dst EXCEPT ![slot] = part[slot]]
                   [] OTHER -> dst
       /\ part' = IF mode = "atomic" \/ (mode = "part" /\ cleanup = 0)
                  THEN [part EXCEPT ![slot] = NoFile] ELSE part
       /\ IF broken = 1 THEN FileFails /\ UNCHANGED complete
                        ELSE FileReturns(FALSE) /\ UNCHANGED failure
  /\ UNCHANGED <<fixedVars, src, gone, temp, dirs, completed, rootsDone, outputs, partials,
                 skipped, todo, item, kids, fileVars, known, cancelled, historyVars>>

\* The directory is listed afresh: the temp file must be whole.
Verify ==
  /\ pc = "verify" /\ temp[key].len = Blocks /\ dst[slot] # Folder
  /\ pc' = IF Exists(dst[slot]) THEN "delete" ELSE "rename"
  /\ UNCHANGED <<fixedVars, fsVars, checkpointVars, loopVars, fileVars, known, cancelled,
                 historyVars, faults>>

VerifyFails ==
  /\ pc = "verify"
  /\ \/ temp[key].len # Blocks /\ UNCHANGED faults
     \/ Fault
  /\ FileFails
  /\ UNCHANGED <<fixedVars, fsVars, completed, rootsDone, outputs, partials, skipped, loopVars,
                 fileVars, known, cancelled, historyVars>>

DeleteOld ==
  /\ pc = "delete"
  /\ dst' = [dst EXCEPT ![slot] = NoFile]
  /\ pc' = "rename"
  /\ UNCHANGED <<fixedVars, src, gone, part, temp, dirs, checkpointVars, loopVars, fileVars,
                 known, cancelled, historyVars, faults>>

\* The deletion fails, before or after it took effect: fatal for a resumable
\* write, ignored by SafeWrite.
DeleteOldFails ==
  /\ pc = "delete" /\ Fault
  /\ \/ UNCHANGED dst
     \/ dst' = [dst EXCEPT ![slot] = NoFile]
  /\ IF mode = "temp" THEN FileFails ELSE pc' = "rename" /\ UNCHANGED failure
  /\ UNCHANGED <<fixedVars, src, gone, part, temp, dirs, completed, rootsDone, outputs, partials,
                 skipped, loopVars, fileVars, known, cancelled, historyVars>>

\* The temp file gets the target's name.
PutInPlace ==
  IF mode = "temp"
  THEN /\ dst' = [dst EXCEPT ![slot] = temp[key]]
       /\ temp' = [temp EXCEPT ![key] = NoFile] /\ UNCHANGED part
  ELSE /\ dst' = [dst EXCEPT ![slot] = part[slot]]
       /\ part' = [part EXCEPT ![slot] = NoFile] /\ UNCHANGED temp

RenameTemp ==
  /\ pc = "rename" /\ ~Exists(dst[slot]) /\ PutInPlace
  /\ partials' = IF mode = "temp" THEN [partials EXCEPT ![key] = NoPartial] ELSE partials
  /\ pc' = "stamp"
  /\ UNCHANGED <<fixedVars, src, gone, dirs, completed, rootsDone, outputs, skipped, failure,
                 loopVars, fileVars, known, cancelled, historyVars, faults>>

\* Variant: the temp file is cleaned up when the rename fails.
RenameFailsCleaning ==
  /\ pc = "rename" /\ ((Exists(dst[slot]) /\ UNCHANGED faults) \/ Fault)
  /\ part' = [part EXCEPT ![slot] = NoFile] /\ UNCHANGED <<dst, temp>>
  /\ FileFails
  /\ UNCHANGED <<fixedVars, src, gone, dirs, completed, rootsDone, outputs, partials, skipped,
                 loopVars, fileVars, known, cancelled, historyVars>>

\* rename refuses an existing target, or fails before or after it took effect.
\* SafeWrite.RenameFailed keeps "name.twigpart".
RenameFails ==
  /\ pc = "rename"
  /\ \/ Exists(dst[slot]) /\ UNCHANGED <<dst, part, temp, faults>>
     \/ ~Exists(dst[slot]) /\ Fault /\ (PutInPlace \/ UNCHANGED <<dst, part, temp>>)
  /\ FileFails
  /\ UNCHANGED <<fixedVars, src, gone, dirs, completed, rootsDone, outputs, partials, skipped,
                 loopVars, fileVars, known, cancelled, historyVars>>

\* setModifiedTime, best effort, and the checkpoint's record of the output.
Stamp ==
  /\ pc = "stamp"
  /\ \E timeSet \in {file \in Stamped} \cup (IF Given("stampFails") THEN {FALSE} ELSE {}) :
       LET t == IF timeSet THEN ver ELSE 0 IN
       /\ dst' = IF timeSet THEN [dst EXCEPT ![slot].mt = ver] ELSE dst
       /\ outputs' = [outputs EXCEPT ![key] = [slot |-> slot, mt |-> t]]
  /\ completed' = completed \cup {key}
  /\ known' = [known EXCEPT ![slot] = dst[slot]]
  /\ FileReturns(TRUE)
  /\ UNCHANGED <<fixedVars, src, gone, part, temp, dirs, rootsDone, partials, skipped, failure,
                 todo, item, kids, fileVars, cancelled, historyVars, faults>>

-----------------------------------------------------------------------------

Next ==
  \/ Start \/ Retry \/ RetrySkipping \/ Discard \/ Cancel \/ Over
  \/ \E f \in Sources : Touch(f)
  \/ \E n \in Targets : Replace(n)
  \/ PickEnd \/ PickItem \/ MoveWithin \/ MoveWithinFails
  \/ EnterFileItem \/ EnterDir \/ ItemBreaks \/ NextKid \/ EndDir
  \/ Placed \/ DeleteSourceFails
  \/ LeaveOut \/ ShortCircuit \/ Examine \/ ListFails
  \/ Overwrite \/ Skip \/ Rename \/ Abort
  \/ OpenPartial \/ OpenReplace \/ OpenFails \/ Pump \/ PumpEnds \/ PumpBreaks
  \/ Verify \/ VerifyFails \/ DeleteOld \/ DeleteOldFails \/ RenameTemp \/ RenameFails
  \/ Stamp

Spec == Init /\ [][Next]_vars

-----------------------------------------------------------------------------
(* Properties *)

FlagsOK == move \in BOOLEAN /\ complete \in BOOLEAN /\ cancelled \in BOOLEAN

TypeOK ==
  /\ FlagsOK
  /\ setting \in Settings
  /\ src \in [Files -> Versions] /\ gone \subseteq Files /\ dirs \subseteq Items
  /\ dst \in [Slots -> Entry] /\ part \in [Slots -> Entry] /\ known \in [Slots -> Entry]
  /\ temp \in [Keys -> Entry]
  /\ completed \subseteq Keys /\ rootsDone \subseteq Items /\ skipped \subseteq Files \cup Items
  /\ outputs \in [Keys -> [slot : Slots \cup {NoSlot}, mt : Times]]
  /\ partials \in [Keys -> [slot : Slots \cup {NoSlot}, replacing : Entry]]
  /\ failure \in [what : Files \cup Items \cup {Nobody}, key : Keys \cup {NoKey}]
  /\ pc \in {"idle", "pick", "item", "kid", "file", "ask", "open", "pump", "verify", "delete",
             "rename", "stamp", "placed", "failed", "finished", "over"}
  /\ todo \in Seq(Items) /\ item \in Items \cup {Nobody} /\ kids \subseteq Files
  /\ file \in Files \cup {Nobody} /\ ver \in 0..MaxVersion /\ slot \in Slots \cup {NoSlot}
  /\ mode \in {"none", "temp", "direct", "part", "atomic", "inplace"} /\ copied \in 0..MaxBlocks
  /\ released \subseteq Slots \X Owners \X (0..MaxVersion) /\ leaked \subseteq Entry
  /\ faults \in 0..MaxFaults

WholeCopy(f, e) == e.of = f /\ e.ver = src[f] /\ e.len = Blocks

\* The checkpoint could not record the time of the copy of f it made at s, and
\* another program's file of that size stands there now (copyEntry 217-220).
Mistaken(f, s) ==
  f \in Stamped /\ outputs[Key(f, src[f])] = [slot |-> s, mt |-> 0] /\ dst[s] = Other

(* A move deletes a source file only when its current version stands whole at the  *)
(* destination, unless the user later approved overwriting that copy: whatever     *)
(* fails, whatever is retried, whatever was edited in between (CopyEngine.transfer *)
(* 133-150, the promise of its lines 311-319).  TransferCheckpoint.kt:11 says      *)
(* "Never infer completion from file size"; where the destination does not keep    *)
(* modification times the code does infer it, and then a file of the same size     *)
(* that another program put in place of the copy is taken for it.  This is the     *)
(* only way to lose a source.                                                      *)
SourceNeverLost ==
  \A f \in gone : \E s \in Slots :
    WholeCopy(f, dst[s]) \/ <<s, f, src[f]>> \in released \/ Mistaken(f, s)

\* The file at s is nobody's work in progress.
Settled(s) ==
  /\ dst[s].len = Blocks /\ dst[s].of # "mixed"
  /\ ~(s = slot /\ mode \in {"direct", "inplace"} /\ pc \in {"pump", "stamp"})

(* No step changes or removes a finished destination file, unless the user was *)
(* shown that very file and answered OVERWRITE; a folder is never replaced by   *)
(* a file (copyEntry 234-256, FileSystem.rename's contract).                    *)
NothingReplacedUnasked ==
  [][pc # "failed" => \A s \in Slots :
       /\ Settled(s) /\ ~SameBytes(dst'[s], dst[s])
            => <<s, dst[s].of, dst[s].ver>> \in released'
       /\ dst[s] = Folder => dst'[s] = Folder]_vars

(* Resuming a partial never splices two versions of a source file, because the  *)
(* checkpoint key carries the size and the time (TransferCheckpoint.key), nor    *)
(* appends at the wrong offset: no file outgrows its source.                      *)
NoMixedFile == TypeOK /\ \A s \in Slots : dst[s].of # "mixed"

(* Every temp file is one the checkpoint still knows, so discardPartials or a   *)
(* skip finds it; a deletion that failed is the only way to leave one behind     *)
(* (copyEntry 258-287, Transfers.discardPartials).                               *)
NoOrphanTemp ==
  /\ \A k \in Keys : Exists(temp[k]) => partials[k] # NoPartial
  /\ pc = "over" => \A k \in Keys : ~Exists(temp[k])

\* A whole file stands for what slot s should hold: in place, or staged for it.
SomethingWhole(s) ==
  LET whole(e) == e.len = Blocks /\ e.of # "mixed" IN
  whole(dst[s]) \/ whole(part[s]) \/ \E k \in Keys : partials[k].slot = s /\ whole(temp[k])

\* Files written to this name resume from a temp file; the others go through SafeWrite.
Resumed(s) == backend = "resumable" /\ \A f \in Sources : NameOf[f] = s[1] => f \in Stamped

(* Once the user has approved overwriting an old file, it or a whole new one is    *)
(* there, whatever fails: with SafeWrite's temp file beside the target through any  *)
(* two failures, and with resumable writes through any number, as long as the       *)
(* transfer can be retried and the user has skipped nothing (SafeWrite's header and *)
(* 80-95, copyEntry 288-303).  The third failure can cost both: the rename fails,   *)
(* the retry writes to the free name and leaves a piece there, and the attempt      *)
(* after that truncates "name.twigpart".  A destination that overwrites in place    *)
(* and commits on close does not keep one.                                          *)
OverwriteKeepsOne ==
  \A s \in Slots :
    /\ <<s, "old", 0>> \in released
    /\ IF Resumed(s) THEN pc # "over" /\ skipped = {}
                     ELSE /\ backend # "atomic" /\ ~Given("shortReads") /\ ~Given("tempRefused")
                          /\ faults < 3
    => SomethingWhole(s)

=============================================================================
