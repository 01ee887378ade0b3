# Twig: what is specified, checked and proved

Twig is a file manager for Android. It browses and copies between local storage,
archives, and SMB, NFS, FTP, SFTP, WebDAV and S3 servers, plays media straight from
them, and keeps a trash, a comparison view, a text editor and a Wi-Fi share. This
directory holds TLA+ models of its core logic, the TLC configurations that check
them, and TLAPS proofs about them. The reference is the code under `src/`; `CE:300`
below means line 300 of `CopyEngine.kt`, `TS` is `TransferService.kt`, `SW` is
`SafeWrite.kt`.

## 1. Inventory

State, operations and neighbours of each part, what is hard about it, and what
makes it correct. The list is the whole system; the last column names the module
that models the part, if one does.

| part | state and operations | hard behaviour | correct when | module |
|---|---|---|---|---|
| copy pipeline (`CopyEngine.pipe`) | a pool of `PIPE_DEPTH` buffers, a queue of filled ones, an error cell, the interrupt flag; a reader thread and the calling thread | two threads, timeouts on both queue ends, a source that hangs or fails | bytes arrive whole and in order, success means all of them, a cancel returns, no thread stays | `CopyPipe` |
| copy engine (`transfer`, `copyEntry`), `SafeWrite`, `TransferCheckpoint` | cached listings (`Task.listed`), the recursion, `name.twigpart`, completed keys, partial files, the failure | every backend call may fail, before or after taking effect; a move deletes sources; records go stale between attempts | no source is deleted without a whole copy; nothing is replaced unasked; a retry trusts nothing that changed | `CopyEngine` |
| transfer sessions (`Transfers`, `TransferService`, `TransferBox`, `TransferRetry`) | `active`, `ui`, `pendingResult`; per session the flag, the question, the result | cancel, answer, attach, finish and retry interleave on three kinds of thread | one transfer at a time, answers reach their question, everything ends, retry state is not leaked | `Transfers` |
| trash (`TrashStore`, `trash.c`) | one directory per entry with a record and the payload; a rename that must not overwrite | a kill or a power loss between record and rename; a purge that stops half-way; other programs on the volume | no file is reachable from nowhere, and each leads back to where it was | `Trash`, `TrashBin` |
| SMB client (`NativeSmbClient`, `SmbRequest`, `samba_jni.cpp`) | one io thread, a handle, reconnects, positioned reads on the caller's thread | a request repeated after it took effect; a file handle of the old connection; a freed context entered | every handle is used on its own live connection; answers are true; calls return | `SmbClient` |
| libsmb2 (`socket.c`, `pdu.c`, `sync.c`, `init.c`, `libsmb2.c`) | out and wait queues, credits, the reply being read, callback data of synchronous calls | a failed call leaves requests behind whose callbacks run late or at destroy; a call fails after its callback ran; compounds; credits | who frees what is settled in every order; results are true; calls end | `SmbPdu` |
| libnfs RPC (`socket.c`, `pdu.c`, `init.c`) | out queue with a high priority run, wait queue, the reader, counters | partial writes, timeouts, retransmission, reconnects, late replies | each call is in one place and ends; no bytes of two requests are mixed | `RpcClient` |
| playback sources (`BufferedRandomSource`, `AudioCache`) | block caches, latches, a prefetch thread, a cache file, a connection | several readers, prefetch, eviction, seeks, dispose, reconnect | one download per block, no latch without a downloader, no lost connection, nobody waits for ever | `BlockCaches` |
| privileged shell (`PrivilegedShell`, `PrivilegedFs`) | one shell process, a reader thread, an executor, one-shot processes for bytes | time limits, a session that dies in the middle of a command, close | output belongs to its command; one shell at a time; operations return | `PrivilegedShell` |
| `FileSystem` contract, `FsRegistry` | scheme to instance map; `rename`, `moveWithin`, `atomicOverwrite`, `canResumeWrites` | concurrent re-registration | the contracts the copy engine relies on | the contract in `CopyEngine` |
| local file system, S3 | kernel, SAF; multipart uploads | rename refuses an existing target; a directory moves object by object; close commits | `moveWithin` never overwrites; a half-done move can be resumed | as destinations in `CopyEngine` |
| NFS operations of libnfs, `NfsFileSystem` | mounts, path walking, the encoding of NFSv3 and v4 | reconnects | as a destination, a kind the copy engine distinguishes | the transport only |
| FTP, SFTP, WebDAV, Jellyfin | third-party clients, small pools | reconnects | the same | none |
| archives | format parsers and writers | rewriting a zip in place | the old or the new archive survives | none |
| restic, git readers | none, read-only | formats | decoding is exact | none |
| connections | scheme to configuration, instances in the registry | put, lookup, drop and register are separate steps on many threads | one live instance per configuration | none |
| compare and sync | a stream of scan events, the plan | order of events, whole directories | executing the plan makes the trees agree | none |
| playback gates | retry budget, save gate on one clock | boundary instants | budgets and positions are right at the edges | none |
| text editor save | the open document | a failed rename | the only copy is not forgotten | none |
| SQLite browser | one connection, a cancellation signal | cancel races the next query | a cancel hits the query it was meant for | none |
| Wi-Fi share | sockets, sessions | slow and broken clients | uploads never leave fragments | none |
| secrets, backup | key store, encrypted archive | formats | cryptographic, outside a state model | none |
| user interface | views | activity recreation | - | the transfer box in `Transfers` |
| zstd, FFmpeg | - | - | third-party codecs | none |

How the modelled parts meet. A screen starts a session (`Transfers.start`), the service
gives it a thread, the thread calls `CopyEngine.transfer` with the session's checkpoint, a
conflict resolver and a cancel flag; `transfer` streams every file through `pipe`, either
into a hidden temp file (resumable branch) or through `SafeWrite.replace`. When it throws, the
checkpoint keeps what is needed and the retry dialog starts a new session with it. The
streams of an SMB or NFS file are `SmbClient` over `SmbPdu`, or `nfs_jni.c` over
`RpcClient`; a player reads the same clients through `BlockCaches`. Deleting a local file goes to
`TrashStore`; what the app may not do itself on local storage goes through `PrivilegedShell`.
Each module takes the layer below it at its interface: a read that delivers, ends or throws, a
call that returns or fails, a connection that drops.

The hazards, each at its line with the property that covers it or the reason none
does, are listed in `PROJECT.json`.

## 2. Plan

Done, the parts that can destroy user data first:

1. `CopyPipe`, with its half of `Queues_proofs`;
2. `CopyEngine` (with SafeWrite, checkpoint, retries), with `CopyEngine_proofs`;
3. `Transfers`, with `Transfers_proofs`;
4. `Trash` and the abstract `TrashBin` it implements, with `Trash_proofs`;
5. `SmbClient`, with `SmbClient_proofs`, then libsmb2 below it, `SmbPdu`, with `SmbPdu_proofs`;
6. `RpcClient`, libnfs's transport, with the other half of `Queues_proofs`;
7. `BlockCaches`, with `BlockCaches_proofs`;
8. `PrivilegedShell`, with `PrivilegedShell_proofs`.

To do:

9. An abstract `FileMove` (a file is at its source, or whole at the destination, or both; an
    overwrite is approved before it happens) that `CopyEngine` implements.
10. `Connections` with `FsRegistry`; `CompareSync` as functions against a definition of
    agreeing trees; the playback gates; `SqliteSession`.

The runs are kept few, one per question; circumstances that exclude each other (kinds of
destination, settings of a library, which thread does what) are part of the initial state, so
that one run covers them all.

## 3. The modules

### CopyPipe (CE 385-435)

Two processes with program counters: the reader thread `take`, `read`, `offer` and
the calling thread `check`, `poll`, `write`, `recycle`. A chunk is its position in the source and
`held[b]` is the chunk whose bytes buffer `b` holds, so that handing a buffer out
twice shows as a wrong chunk in `out`. `Read` delivers a chunk, the end, an end too early, or an
exception (which may swallow the interrupt flag, as a blocking read does). `LeavePipe` is
leaving `pipe` through its `finally`, which interrupts the reader. The 30 s limit of
`offer` needs no action: `OfferNeverBlocks` shows the queue is never full there. The 500 ms poll is the
branch of `Poll` that finds nothing and goes back to the cancel check. The specification's names have the prefix `Pipe`
(`PipeSpec`, `PipeTypeOK`), because one module proves about this component and about `RpcClient`.

### CopyEngine (CE 93-357, 438-445, SafeWrite, TransferCheckpoint, retries of Transfers)

One batch through any number of attempts. A file is whose bytes it has, at which version, how
many blocks, and its modification time (0 for the moment of writing). There are the
destination's files `dst`, SafeWrite's `name.twigpart` (`part`) and the hidden temp files (`temp`, by
checkpoint key). `known` is `Task.listed`, and the code decides by it, not by `dst`: that
difference is the point of several properties. `pc` walks through `transfer` and `copyEntry`:
pick an entry, try `moveWithin`, enter a file or a directory, examine the name, ask, open, pump,
verify, delete the old file, rename, stamp, and delete a moved source.

The failures: `Fault` charges one backend call to the setting's budget. A delete or a rename may fail
before or after it took effect; a block may be lost without an error in a temp file; an upload that
commits on close commits what it has; clean-ups are allowed to fail too. The user may
cancel at any step of an attempt, answer a conflict in four ways, retry, retry skipping the failed entry, or
dismiss the dialog. Between attempts a source may be edited (`Touch`) and another program may replace a
destination file (`Replace`).

A *setting* fixes the batch, what stands at the destination, the budget of faults, versions and blocks, the
kind of destination and which circumstances may happen: `resumable` (local, SFTP, FTP, NFS, SMB:
`ResumableWrite`), `staged` (SAF folders, WebDAV: SafeWrite goes through `name.twigpart`), `atomic`
(`atomicOverwrite`: S3 and zip, whose upload commits on close). The settings are part of the
initial state, so one run covers them all.

At the start a file stands at a name only if the directory it is in exists (`Standing`). `EngineAssumption` says what a listing
gives: the files of one directory have different names, and what is below a directory of the batch shares its destination
with nothing else. Two plain files of one name, picked from different directories, are allowed; see `finding_twins`.

What is simplified: one level of directories; no empty files and no sources without a size; a directory's children
in any order (the code sorts by name); sources and destinations change between attempts, not during one; a
plain file in the way of `mkdir` is left out; `plan` and progress counters are left out.

### Transfers (TS, TransferBox, TransferRetry)

The main thread's steps are atomic towards each other, except `Session.cancel`, whose two lines (set the flag; answer
the pending question if there is one) are two actions because the transfer thread can run
between them. `messages` is the main Handler's queue and `startIntents` the intents on their way to the service. Each session
has a thread that runs, meets a conflict, publishes it (`Ask`: the field first), posts it (`PostConflict`),
waits (`Await`), ends (`WorkEnds`) and finishes. `slot[c]` is the one-element queue in a `Conflict`: `offer` keeps the
first answer. `attach` shows a waiting question again, so one question may have two dialogs, one of
which is answered late. `checkpoint[s]` says whose checkpoint a retried session continues.

The work itself is abstract: a thread meets conflicts and ends with success or failure, leaving partial files or
not. Left out: other kinds of work (share, delete, purge, download), notifications, progress figures, a service start that
the system refuses (the code rolls `active` back, so nothing remains). `Recreate` is the activity destroyed and made again (the
manifest declares no `configChanges`, so a rotation is enough): the box is detached, and the dialogs go with their window, without
a call to their dismiss listeners; `orphaned` remembers the sessions whose retry dialog was among them. `discardPartials` from the dialog runs on a thread of its own in the code and is one step here.

### Trash and TrashBin (TrashStore.kt, trash.c, the leaf operations of TrashMoves.kt)

`TrashStore` holds one lock through an operation, so one record `op` is the operation in progress, step by step: the
bucket and its marker, the entry directory, the record written, the record committed (synced), and the
rename of `trash.c`, which is `RENAME_NOREPLACE` where the kernel has it and otherwise a reservation (`Stub`)
that is checked, replaced, and taken back if the rename fails. Restore renames back and then drops the record; purge
deletes a payload leaf by leaf and the record last. Between any two steps another program may create or delete a file,
the process may be killed (`op` is forgotten, the volume stays), or the power may fail (what was not synced
becomes garbage). `listed` are the entries a screen still shows, which may be stale when the user restores or purges one.

`at` maps slots to nodes: names in the root, leaves of folders, and the `data` of each entry directory. `TrashBin` has one
variable, `place`, that says of every file whether it is live at a path, in the bin with the path it came from, or gone; its
actions are atomic. `ImplementsTrashBin` is `Abstract!Spec` for
`Abstract == INSTANCE TrashBin WITH place <- place`: the mapping follows the chain of slots that leads to a file.

What is assumed of the file system: directory operations persist in the order they were made, and a power loss does
not undo a rename that had returned. Left out: planning a batch over several volumes, symbolic links, the path checks of
`validOriginal`, trees deeper than two levels, browsing inside of an entry.

### SmbClient (NativeSmbClient.kt, SmbRequest.kt, samba_jni.cpp)

Callers put tasks on `queue`; `io` is the task the one io thread runs, step by step, with the reconnect and the
second sending of `smbRequest`. An address and the connection that lives there are two things: `memory[a]`
is the number of the connection at `a`, and a freed address may be given out again, which is what makes a stale
owner snapshot dangerous. `SmbFileSystem` keeps one client per share for every stream and call, and `disconnect()` closes it
beside them; only `openRandom` opens a client of its own. A team says which thread does what on one client, and the
teams are mixtures of these: streams beside calls, beside each other and beside the close, and positioned reads beside a
close. Two histories say who was in a window of the code when something happened: `freedUnder` holds a thread that had looked at
the handle and not yet used what it saw when that context was freed (`Using`), `renewedUnder` one that a new connection
overtook (`Overtaken`). `Inside` is who is in native code, on the io thread or, for `errText` after a failed write,
beside it. The network breaks a connection at any moment; a denied request is not repeated.

Left out: what `connect(c)` negotiates, the maps of clients in `SmbFileSystem` (a client that is made while `disconnect()` clears
the map is never closed), a second `close()` of one client, and `Smb1FileSystem`.

### SmbPdu (libsmb2: socket.c, pdu.c, sync.c, init.c, libsmb2.c)

One context from connect to destroy, with synchronous calls over the asynchronous engine. A PDU is `<<call, round, member>>`:
a round is a chain that is sent as one compound, and the callback of one round queues the next (connect has four rounds,
opening and listing a directory has three). `call[c]` has the callback data (`cb`), the operation data (`op`), and
whether the caller gave up. Freed objects stay in the model and every use of one is recorded in `stale`. Credits are
granted by replies, an interim reply grants its own at once, and a chain is sent whole or not. The reader reads on after
the callback that is waited for has run, so that a call ends in `Return`, or in `GiveUp` although its callback has run
(`wait_for_reply` returns -1 whenever `smb2_service` does), or in `PollFails` on a connection that is as good as before. A
file or directory that is open is `ready` in `cb_data->ptr` when the callback has put it there and `given` when the caller takes
it; one whose call gave up in between stays `ready`. `strays` are requests that were sent and whose PDU the caller
freed: the server answers them too, and `ReadUnknown` skips the answer and keeps its credits.

The server keeps to the protocol: it answers in order within a chain, once, after at most one interim reply. The
connection may be cut anywhere, also in the middle of a reply, and `poll` may fail anywhere. After the library has used a PDU its caller
had freed, what that memory holds is not followed. Left out: freeing the first PDU of an open or list while it is half-sent, connecting the socket, signing and sealing,
the encoding of each command, the server role, oplock breaks and per-PDU timeouts, which the app never sets. The assumption
`Window >= Width` matters: with fewer credits than a rename has members, the rename waits for ever.

### RpcClient (libnfs: socket.c, pdu.c, init.c)

`rpc` is what `rpc_context` holds: the out queue with `tailp`, the wait queue, both counters, which calls were written in
part, and the PDU being read with its phase. `link` is the connection with the replies the server still owes and what the
last bytes on the wire belong to; `torn` says that the rest of a half-written PDU was not what followed. A mode is
`auto_reconnect` and `retrans`: `nfs_jni.c` turns both off; the library's defaults turn them on, and these two and each
setting alone are checked.
`TimeoutScan` takes the set of calls that are late, removes them from either queue and calls back or requeues them.

Left out: TLS, Kerberos, UDP, the NFSv4 session, the service thread, and portmapper and mount, which are calls like any other.

### BlockCaches (BufferedRandomSource.kt, AudioCache.Entry)

Two caches of one shape, chosen by `kind`: a reader looks, finds the block, waits at another's latch, or registers a latch
and downloads. A latch is a member of `inflight`. `buffered` adds the LRU order, the prefetch tasks and the seek that makes
them stale; `audio` adds the file, the bitmap, the connection with its reconnects (`connect` outside the lock, `adopt` inside),
the thread that downloads everything, and `dispose`. A write to the file succeeds, throws, or comes back short, which nobody
notices; `short` has those blocks. Connection ids are used again, so closing somebody else's shows.

Left out: the order and the limits of the registry (`setMax`, `clearCache`), the passthrough source and `init`.

### PrivilegedShell (PrivilegedShell.kt, the callers in PrivilegedFs and LocalFileSystem)

`call` is the frame of whoever holds the lock: `connect` with its probe `id`, a command written with its marker, the wait
for the reader, one replacement of a session that died, and `shutdown`. `reader` is the one thread of the executor; a
`readLine` on a stream that hangs keeps it (`inside`). `shell[s]` is a process: what was written to its stdin, which
command it runs and how far it is, what it printed. Items of output carry the command they belong to, so that an answer
read by the wrong caller is `foreign`. `target` is what stands where a rename goes; another program or thread may put something
there at any time (`Appears`), also between the looks and `mv`, for which `exec` takes the lock one by one, and it may be a link to nothing,
which `[ -e ]` does not see. `unseen` has the looks that ran when nothing was to be seen. `cat` is the one-shot process of `openInput`, whose exit code is checked at the end
of the stream. A team says which thread does what: make a directory, rename, read, close.

Left out: other programs that remove the target or make the directory, commands that fail for other reasons than the state of
the two names (so a `mkdir` that says no found the directory), `openOutput`, the positioned reader, listing and stat (commands like the others), and the first connect of a user
who is asked by the root manager.

## 4. The runs

| run | question | states |
|---|---|---|
| `pipe` | 3 buffers (the code's depth), 5 chunks so each buffer is reused and the queue wraps; failures and cancel anywhere | 40 thousand |
| `copy` | a directory of two files and a plain file with one fault; one file in a directory with two faults (staged writes: three), two blocks and two versions; every kind of destination | 900 thousand |
| `transfer_sessions` | three sessions, so that a retry of a retry, a fresh start and waiting dialogs meet; one conflict, cancels | 940 thousand |
| `transfer_questions` | one session, two conflicts, so a late answer to the first meets the second; safety and liveness | 38 thousand |
| `trash` | a folder with a file, a plain file, a missing parent, another program's file, two entries, both kinds of rename | 340 thousand |
| `smb_client` | two calls, two calls and a close, two positioned reads and a close, a reader, a writer; three connections at two addresses | 65 thousand |
| `smb_pdu` | connect, two calls of any kind after it, disconnect and destroy; three-member compounds, credits from 3 to 4 | 180 thousand |
| `nfs_rpc` | three calls, one low and two high, two of them zero-copy, at most two in flight; four modes | 73 thousand |
| `block_cache` | two readers and the prefetch thread, 3 blocks in memory for one place, 2 blocks on disk, two attempts, writes that fail or come back short | 290 thousand |
| `priv_shell` | two mkdirs, a mkdir and a close, a rename whose target stands there, is hidden or appears, a read; two sessions | 100 thousand |

What they show, by property. The type invariant of a module is a conjunct of its first property.

* `NoSharedBuffer`, `OutInOrder`, `SuccessIsWhole`, `OfferNeverBlocks`: the pipe is right under every interleaving.
  `CancelReturns` assumes nothing of the source; `ReaderLeaves` assumes it answers.
* `SourceNeverLost`: a deleted source stands whole, in its current version, at the destination, unless the user approved
  overwriting that copy later, or another program's file of its size, where times cannot be recorded, was taken for the copy
  (`Mistaken`): that happens, and nothing else loses a source. `NothingReplacedUnasked`: a settled destination file changes only if the user was shown that very
  file, and a folder is never replaced by a file. `NoMixedFile`: a resumed file never has blocks of two versions; this is
  why the checkpoint key has the time in it. `NoOrphanTemp`: each temp file is listed in the checkpoint, and after
  the transfer is over none is left, except one whose own deletion failed. `OverwriteKeepsOne`: after an
  approved overwrite the old or a new whole file exists: for staged writes through any two failures, for resumable ones through any number, as
  long as the transfer can be retried and nothing was skipped.
* `OneTransfer`, `OneCheckpointHolder`, `RetryStateShown`: one session at a time, one holder of a checkpoint, and partial
  files are kept only for a session that runs or whose retry is offered, but for the three ways in which the code loses an offer: a late
  cancel, a recreated activity, and a later result over one not yet shown. `AnswerFitsQuestion`, `CancelFreesWaiting`,
  `TransferEnds`: every answer acted on is the first one given to that very question; a cancel that finds the thread
  waiting ends the transfer; with a user who comes back every session ends.
* `RecordBesidePayload`: a payload always lies beside a durable record. `NothingDestroyed`: only a purge, another program or the
  race that `trash.c` admits takes a file away. `ImplementsTrashBin`: every behaviour, crashes included, is one of the bin's.
* `SafeUse`: on a client that is shared in any way, a freed context is entered only by a write, by `errText` after one or by `close()`, and only when
  they had looked at the handle before it was freed; a file handle is used on another connection only by such a write or by a stream
  that a new connection overtook; and close is for good unless a task connected again after close had taken the handle. Nothing is
  promised once `close()` has disconnected an address twice, the second time another context's (`Undone`).
  `AnswerIsTrue`, `OpenCallsReturn`: success means the request took effect, a denial that it did not; callers are answered.
* `NothingStale`: whatever the order of cut, failed calls and destroy, no callback uses freed data and no queue leads to a
  freed PDU, but for the first PDU of an open or list that gave up and, if it gave up because `poll` failed, for what
  its late reply finds (`Excepted`). `ResultIsTrue`: a compound does not hide its first failure. `EveryoneTold`: at
  the end each operation was freed or handed over, the forgotten ones listed, among them the open file or directory whose call
  gave up after its callback. `CallsEnd`: no chain waits for credits that never come.
* `QueuesRight`: a call is in one queue once, counters are true, the limit in flight is kept, `tailp` ends the high run, only
  the head is half-written. `TornOnlyByRemoval`: requests are only mixed on the wire when a half-written one is taken out.
  `QueuedCallsEnd`: without retransmission each call ends in its callback.
* `DownloadedOnce`, `NoLeakedConnection`, `BitmapIsTrue`, `QueuedHasTask`, `WaitersWake`: one download per block and a latch
  exactly as long as its downloader; every open connection has an owner; a marked block is whole on disk unless its own write came back short; a queued block
  has a task; waiters go on.
* `OneShell`, `AnswerIsTrue`, `TargetKept`, `OperationsReturn`: one living shell and none after close; nobody gets the output of
  another command; what a rename replaces, each of its two looks either lost or could not see, so a target in sight all along
  is replaced only if both were lost; operations return.

Bounds. In `copy`, one fault with two entries lets a fault hit any call and the retry run clean; two with one file let the retry
fail as well, which is what resuming and the window between delete and rename need; three are the fewest that can cost both copies of a
staged overwrite (`FaultySettings`). `MaxBlocks` 2 distinguishes an
empty, a partial and a whole temp file; `MaxVersion` 2 is an original and an edit; `MaxAlt` 1 is one alternative
name for RENAME. `MaxStarts`, `MaxSessions`, `MaxConflicts` and `MaxDetaches` end the otherwise endless user. Two entry directories
let a stale listing name one of them while the other is in use; a bucket may be restored from and moved into again, so
`trash` has cycles and no other bound. `MaxConns` 3 is one connection and two reconnects, so a freed address is given out
again; in `smb_pdu`, `MaxCalls` 3 is a connect, a call that may give up, and a call beside what that one left behind; `MaxCharge` 4 over `Window` 3 is a read that must be clamped; `MaxOwed` 2 is a reply to a first
transmission and one to its repetition. One place in memory for three blocks evicts at every step; four connections for three threads is the least the
assumption allows. `MaxSessions` 2 is a shell and its replacement.

Deadlock. Where the bounds or the end of the work leave nothing to do, the configuration says `CHECK_DEADLOCK FALSE`: the
user has used up the sessions (Transfers), the client is closed or out of connections (SmbClient), the context is destroyed
(SmbPdu, RpcClient), the threads have finished (PrivilegedShell), and in Trash everything may have been purged and all entries
used. The others are checked for deadlock. `MCCopyEngine.View` leaves local variables out of
the fingerprint where they are dead, as every path assigns them before the next use. `MCTrash` declares entry
directories symmetric; it checks no liveness.

Fairness.

* `CopyPipe`: weak fairness of the calling thread, which runs, and whose destination answers or
  throws. `SourceAnswers`, the reader's fairness, is a premise of `ReaderLeaves` alone.
* `Transfers`: weak fairness of each transfer thread and of the second half of `cancel`, which the main thread is already
  executing, and strong fairness of the looper's handlers: Android's main queue is first come, first served, so a message is
  handled whatever the user taps meanwhile, though each tap disables it for a moment. That the user comes back and answers
  (`UserReturns`) is a premise of `TransferEnds` only.
* `SmbClient`: the io thread and the callers are scheduled, and a native call returns because the server answers or the
  connection breaks.
* `SmbPdu`: the loop runs and the server answers what it was sent. Nothing makes `poll` or the network fail or the user go on.
* `RpcClient`: a call that stays late is found by a scan; `wait_for_nfs_reply` calls `rpc_service` at least every 100 ms.
* `BlockCaches`: threads are scheduled, and a read of the network ends, in an exception at the latest.
* `PrivilegedShell`: the app's threads, the reader and the drain of stderr are scheduled. That commands end is a premise of
  `OperationsReturn`, and a needed one, see below.

### Disagreements between the code and what it says of itself

Two have a run that shows them:

* `finding_twins`: after a successful `moveWithin` the cached listing is not updated (CE 131-141). A second entry of the same
  name in the batch is then written over the first without a question.
* `finding_smb_stale`: `openInput` reads the owner snapshot after `exec` has returned (`NativeSmbClient.kt:215`). If another
  screen's call reconnects in between, the old file handle is used in the new context.

Others were met while modelling. The models contain them, and the properties are stated around them where they are
named; they have no run of their own.

* Transfers. A cancel between the engine's last look at the flag and `pendingConflict = c` (TS:453) releases nothing, and
  the thread waits for an answer for ever. Two failed sessions that finish in the background overwrite each
  other's `pendingResult` (TS:480), so the first one's partial files are neither offered for a retry nor deleted. A cancel
  between TS:408 and the finish message loses the retry of a session whose partial files were already kept. An activity recreated
  under a retry dialog takes the dialog with it, and its partial files are neither offered nor deleted, though "dismissing it
  releases its partial files" (TransferRetry.kt:8) and "retry state belongs only to the failed operation currently being
  shown" (TS:412). `RetryStateShown` names these three cases, and there are no others.
* Copy engine. SafeWrite writes straight over an entry where `atomicOverwrite()` holds (SW:62), and the streams of S3
  and zip commit on close, also when they are closed by an exception, so a fragment replaces the old file. With a
  modification time that could not be set, a completed copy is recognised by path and size alone (CE 217-220), against
  `TransferCheckpoint`'s "Never infer completion from file size". It costs a source: a move finishes a copy without its
  time, the deletion of the source fails, another program puts a file of the same size in the copy's place, and the retry takes that file for its own
  copy and deletes the source. `SourceNeverLost` names this case (`Mistaken`), and `copy` has settings that reach it. After a resumable overwrite that deleted the old file and
  could not rename, skipping the file or dismissing the dialog deletes the only whole copy (TS:419). A server that refuses the temp
  file makes SafeWrite write in place, and a plain copy of a source that ends early is accepted on purpose (CE 311-319);
  `OverwriteKeepsOne` leaves these out. A third failure can cost a staged overwrite both copies: the old file is deleted
  and the rename fails, the retry writes to the name, which is now free, and leaves a piece there, and the attempt after that replaces the
  piece by way of `name.twigpart`, truncating the only whole copy when it opens it. SafeWrite.kt says both "From here on tmp is the only complete copy:
  never delete it again" and that a leftover is truncated on open. `OverwriteKeepsOne` states the bound, `faults < 3`.
* Trash. A bucket left without its marker by a crash refuses every later move. Between `compare` and `unlink` of the plain rename another
  program may replace the reservation.
* SMB client. A close beside a call drops the tasks that are queued, and their callers wait for ever; hence `OpenCallsReturn`.
  "Every native call runs on a dedicated single-threaded executor" and "never reuse the old fh across contexts" have windows
  beside the one above, all reached by `smb_client` and named by `SafeUse`. `write` compares the owner on the caller's thread and
  submits afterwards (252, 253), so another call's reconnect in between lets it write through freed memory, or into the
  next context when that has the old one's address. After a failed write `errText` reads the error from the context on the caller's
  thread (254). A stream's `close` looks at the owner (231, 261) before its task runs, and the task uses whatever the
  handle is then. `close()` keeps the address it took (146) while a request before it in the queue reconnects: the old context
  is freed twice, or the new one is freed under the file that has it, or the new one is never freed because the pool is stopped. Between
  the check and the native call of a request `close()` may clear the handle; the native functions then get 0, which
  the comment says they never do, and refuse it themselves.
* libsmb2. An open or a list that gives up in the middle of its first reply frees the PDU that `smb2->pdu` still points
  to. `smb2_disconnect_share` never waits, because its callback data is complete before the loop begins, and the logoff of
  its second round is not sent. A call can fail after it has succeeded: `smb2_read_from_socket` reads on behind the reply, and when
  the connection is closed there, `wait_for_reply` returns -1 without looking at `is_finished` again (`sync.c:91`), and the open file or
  directory in `cb_data->ptr` is neither freed nor handed over. The `free_cb` that `smb2_open` passes is never stored in its
  PDU (`libsmb2.c:1182`), though `sync.c:252` says the PDU will free the callback data: every open leaks it. When `poll` fails, the call
  is over and the connection is not (`sync.c:76`): the reply that still comes finds callback data that `smb2_opendir` or
  `smb2_close` has freed, and a read's reply is written into, or a write's request sent from, the buffer `samba_jni.cpp` has freed.
  A read without credits asks for no bytes and reads like the end of the file. A compound that was never sent leaks its operation data at destroy. A server that leaves fewer than three
  credits makes a rename wait for ever. Without a socket a connect fails after about a second, since the timeout is 0 (`sync.c:83`).
* libnfs. A timeout frees a half-written PDU, and the next one follows the fragment on the wire. A reply that was half-read
  when the connection stalls is in no queue, so its call does not time out. A zero-copy READ answered with an RPC error gets its
  callback and is queued again. A failed attempt to reconnect makes `rpc_service` return -1 though it goes on trying.
  With reconnecting or retransmission on, each by itself, the assertion on `tailp` in `rpc_add_to_outqueue_head` can fail: calls
  of either priority are returned to the front, so the high priority run gets gaps, and the removal of its last member
  leaves `tailp` empty although others remain (`TailpEndsRun` states it for the app's mode only).
* Playback sources. `dropUpstream` closes the entry's connection whoever opened it, so a thread that failed on an old connection
  closes the fresh one of another, which then counts an attempt. `fetchBlock` ignores the count that `FileChannel.write` returns
  (`AudioCache.kt:215`), so a block of which a full disk took a part is marked as downloaded, and played as zeros from then on.
* Privileged shell. The time limit does not free the caller of a command that never ends: `shutdown` closes the reader, which
  waits for the `readLine` in progress, before it destroys the process. A lost session reads as "does not exist" in
  `PrivilegedFs.exists`, so a rename may replace a target; so it does when the target comes into being between the looks and `mv`,
  or is a link to nothing, though `LocalFileSystem.kt:228` says "never silently replace". A command that died is run again, so `mkdir` or `mv` may report
  a failure for what its first run did.
* zstd. A `.zst` file cut short ends like a whole one (`ZstdInputStream.kt:66`); not modelled.

## 5. Proofs

TLAPS checks these for every value of the constants allowed by the modules' named assumptions. All are about `Spec`
(`PipeSpec`), without fairness. The theorems are listed in `PROJECT.json`; every safety invariant and
every action property that a passing run checks is stated by one of them.

`Queues_proofs`, about `CopyPipe` (`PipeAssumption`: the depth is a positive number and the source has a natural number of chunks):
`PipeTypes`, `BuffersNeverShared`, `DestinationInOrder`, `SuccessMeansWhole`, `OfferNeverWaits`. None of these is
inductive alone. `Handshake` adds which thread owns a buffer at which program point, and that an end marker is the last
thing in the queue and the reader is gone then. `Stream` counts the chunks: what the writer has drained, plus what is
queued, plus what the reader holds, is what the source delivered, and the `i`-th queued buffer holds the `i`-th chunk
after the drained ones. A shared buffer would break `Stream`, an early end `Handshake`. `OfferNeverWaits` is a counting
argument: the queued buffers are distinct from each other and from the reader's, so there are fewer than the depth of
them.

`Queues_proofs`, about `RpcClient` (`RpcAssumption`: the special calls are calls, the settings are numbers, `None` is no call):
`RpcInvariant`, `QueuesStayRight`, `OnlyRemovalTears`, for any number of calls, any limit in flight and every mode.
The invariant has three parts. `QueuesOK`: each queue holds a call once, the queues and the reader's call are apart, counters and
`tailp` are true, what is half-written is the head, and in the app's mode the high priority calls behind the head are one
`Run` that `tailp` ends. (`TailpEndsRun` alone is not inductive: it looks at the last call only, and a removal makes another one the last.)
`Accounts`: a call that was queued and has no place was called back, once, and one that has a place was not. `CutOK`: the call
of which a part is on the wire is not waiting, and while it is in the out queue it counts as begun, so `AddHead` does not displace it; this is
what `OnlyRemovalTears` needs. Below it are lemmas on what inserting behind the `i`-th call and removing the `i`-th call do to
a sequence, its members and a run.

`ReturnAll`, `ScanOut` and `ScanWait` walk a queue with a recursive function, and each has a loop invariant: what the calls passed so far
have become. The induction theorems of the library cannot be used, since they take a predicate as a parameter, but the
well-foundedness of the natural numbers can (`WFMin`): `LeastMember` gives the least index a loop
invariant would fail at, and `UpTo` states induction for the *set* of indices it holds at. That the function exists at all
(`ReturnFcnExists` and its like) is proved the same way.

The proof changed the model's property: `TailpEndsRun` used to be stated for every mode without reconnecting, and its proof
did not go through a retransmission. TLC then found the counterexample, with `auto` 0 and `retrans` 2, a mode the run had not
explored; it does now, and the property names both settings.

`Transfers_proofs` (`TransfersAssumption`: the bounds are natural numbers and the decisions are distinct from the two
markers "null" and "none"): `SessionTypes`, `OneTransferAtATime`, `AnswersFitQuestions`, `CheckpointHasOneHolder`,
`PartialsAreOffered`. The invariant is `TypeOK`, the four properties, and four parts. `Lifecycle`: a session without a
checkpoint was never started; a started session without a thread is the active one. `Finishing`: at most one finish
message is queued, it names the active session, and that session's thread is gone; this is why `OnFinish` may clear
`active` without looking at whose message it handles. `Questions`: the question being asked or awaited has not been
acted on, and until it is, its queue holds exactly its first answer. `Holding`: the checkpoint of a session is that of
the first session of its chain of retries, never that of a session in between; a session in a retry dialog or in
`pendingResult` has no thread and is not the active one, and a success leaves no partial files. `PartialsAreOffered` holds for any
number of chains of retries side by side. With `Holding` a new start, a
retry and a dismissal each move a checkpoint from one holder to one other. Type correctness itself needs `Finishing` (a
finish message names a session, a conflict message a question) and `Questions` (the published question is a real one).

`Trash_proofs` (`TrashAssumption`: the kinds of slots and of nodes are disjoint, and entry directories are empty at the
start; `TreeAssumption`: the volume at the start is a tree of two levels): `RecordSafe`, `NothingLost`, `Implements`.
The invariant is `TypeOK`, `Tree` (a thing is in one slot, folders are in roots, nothing is inside of a folder that is
nowhere), `Records` (a payload lies in a made entry beside a durable record, and no record is in a state a power loss
could spoil once a payload depends on it), and `UnderWay`: for each kind of operation what it may rely on at each of its
steps whatever other programs do in between, for example that the record of a move in `RenameSteps` is durable and names
where the payload comes from, and that a reservation, until it was raced for, is still the stub it made. `Implements` is
the refinement, `Spec => Abstract!Spec`. Under `Tree` a file is at the end of one chain at most (`OneChain`), so `place`
has no real choice in it, and a step that moves a node moves the files inside of it and no others (`MoveNodePlaces`).
Each action is then one step of the bin, or a stutter: the record is written before and dropped after the step that
counts.

`BlockCaches_proofs` (`CachesAssumption`: finite sets of readers and connections, and more connections than threads):
`OneDownload`, `ConnectionsKept`, `BitmapTrue`, `QueuedTask`. The invariant is `Types` (where each thread can be and how
far its counter is), `Downloads` (the four facts of `DownloadedOnce`), `Connected` (a connection just opened is nobody
else's), `Written` (a block that somebody has just got is marked,
and what is marked is in the file or was written short, not both, for which `Downloads` is needed: nobody writes a marked block), and `Tasked` (a queued block has one task, not two;
without that, unmarking it would leave the other task's block unmarked). `FreeConn` is a pigeonhole argument: the
model's ids are used again, and there is always one left for `connect`, so a full set of ids never stands for a
connection that could not be made.

`PrivilegedShell_proofs` (`ShellAssumption`: a team gives each thread one of the jobs, the bounds are natural numbers,
and `Nobody` is no thread): `OneShellAlive`, `RenameLooks`, `AnswersAreTrue`. The first invariant is `Types` with three
parts. `Calling` is what the holder of the lock may rely on at each step: whether the shell in `proc` is set, and that a
closed pool admits only the probe of a connect and the shutdown. `OneAlive` says that a living shell is the one in
`proc`, so that `open` never starts a second one; it needs `Calling`, because what keeps a shell from surviving `close`
is that nothing opens one after it. `TargetKept` is about a `mv` that goes ahead because a look answered "no": `Telling`
in it says that no look is answered "no", by any run, queue or output, unless it has run when nothing was to be seen, and
`PassedBy` that a thread has come to its next command only past a look that was lost or saw nothing; since looks are only added to
`unseen`, this survives whatever appears at the target. `Growth` shows that as threads go on nothing more is forbidden,
which disposes of the steps that only move a thread along. `AnswersAreTrue` has an invariant of its own over the first,
`Honest`. `Exchange`: in the session of a call there is nothing but that call's command or its output (`Holds`), in one
place of stdin, process, stdout, although runs that were given up live on in dead sessions and in the reader; no run is
started twice (`Past`), so a late output names a run that is over. `Truth`: each exit status on its way, wherever it is,
says what is so of the files (`Supports`), and as files only go forward it stays so. `Whole`: the one-shot process of a
read says "ok" after its last block only.

`SmbClient_proofs` (`SmbAssumption`): `Invariant`, `ConnectionsUsedSafely`, `AnswersAreTrue`, for every team, any number
of connections and addresses. The invariant is in two layers. `Types`, `Queued` (a thread has one task at most, and
waits for it), `Serving` (how far the io thread is, and how often it has sent) and `Told` (a request has taken effect at
most as often as it was sent) give `AnswerIsTrue`: a request that is denied the first time had no effect, as only a lost
connection is tried again. `Closings` (what is allocated is the handle, or about to be freed, or what `close()` took, until a new connection
overtakes it) and `Positioned` (a dedicated client makes no second connection) are needed for `close()` and `pread`. These
hold always. Three more hold until `close()` disconnects an address twice: `InUse` (the handle is the address of a live
connection, and whatever is entered or freed is live or was looked at before it was freed), `Looks` (whoever holds an
address that is free now was in a window when it was freed) and `Streams` (a stream that no new connection overtook has at its owner's
address its own connection or none). They lean on each other: `InUse` says that what close took is not the handle any more, else a
connect has put a context at that address, and then `Looks` says that close held it when it was freed, which is
`Undone`. `SafeUse` follows from these without more.

`CopyEngine_proofs` (`EngineAssumption`): for every batch, kind of destination, set of circumstances and budget of
failures.

* Without further premises: `Invariant`, `VersionsNeverMix`, `TempFilesAreKnown`. The invariant is `TypeOK`,
  `NoOrphanTemp` and four parts. `Locals` says which locals of `copyEntry` are in use where, `Named` that a file is
  written under its own name only, `Growing` that what is being written has blocks of the current version only, and
  `Clean` that no file is mixed and that a partial is of the version its key names, or of a newer one under the key of a
  first attempt that is never asked for again. The last exception is real: a source edited after its first attempt began
  keeps a temp file under the old key.
* With `Apart`, no two files of the batch go to one name: `FinishedFilesAreKept`. `finding_twins` is what happens
  without it. `Knows` says what the transfer knows of the destination: `Walk` (each file is visited once in an attempt),
  `Homes` (a file of the batch stands under its own name only), `Staged` (what a write has finished is whole before the
  old file is deleted), `Listing` (the cached listing is right about each name that is still ahead, though it is not
  about those behind), `Approved` (what is about to be replaced was shown, and so was what a partial replaces),
  `Stocked` (a modification time tells the contents of a name apart) and `Recorded` (what the checkpoint says of each
  version of a file).
* With `Apart`: `MovesLoseNothing`. A moved source is deleted after its directory is complete, so
  `Complete` carries "each of its files is delivered" through the recursion, and `Undated` says that an output whose
  time could not be set stands as it was left, or a stranger's file stands there. The second is what the engine cannot tell
  from the first; that it is the only thing it can be wrong about is the proof that `Mistaken` is the only exception.
* With `Apart`: `OneOfTwoSurvives`. `Choice` and `Manner` say how a name and a way of writing are chosen, `Foreign` that
  what the transfer did not write is whole. `ResumedKept` is for resumable writes: a name approved for overwriting, or a
  partial that the checkpoint has for it, is whole. `PlainKept` is for staged ones: the temp file is whole while the
  name has nothing whole, which takes a failure; and a piece stands at the name only when the transfer is cancelled and
  does not come back to it. A failure brings the first of these about, a second the piece; truncating the temp file
  would take a third.

`SmbPdu_proofs` (`SmbPduAssumption`; of the window of credits only that it is a natural number): `Invariant`,
`NothingFreedIsUsed`, `ResultsAreTrue`, `OperationsAccounted`, for any number of calls and compounds of any width. The
invariant speaks of the PDUs that are `Outstanding`: in the out queue, in the wait queue, or in `smb2->pdu`. `Queues`:
the unsent chains belong to different calls, none of which has anything sent, and of a call's PDUs the reader has the
first and the others wait in order. `Rest`: what is outstanding of a call is the tail of one round, so the last member,
whose callback ends the operation, comes last, and exactly once. `Owned`: whatever is outstanding will find its
operation's data, and its callback's data too unless the callback will not look at it; the exception `NothingStale`
makes is in it. `Awaiting`: what is outstanding belongs to the call in progress, to one that gave up after the line was
away, or to the farewell. `GivenUp`: who gave up has a result that says so. `Owned` holds for the half-read PDU that its caller freed as
well, and says that nothing stale was used but what `Excepted` names; `LateUse` and `AfterCurrent` show that the late replies
keep to it. `Ready`: what is ready and belongs to a call in progress will be taken, and what a call left ready was an open or a list that gave up.
`Counted`: the status recorded so far against the replies counted so far, for the first PDU
outstanding, which gives `ResultIsTrue` at the last. `Heard`: an operation that is still there has a PDU outstanding or
is one of those the code forgets. The callbacks of the destroy are one lemma, `ShuttingDown`, used for each of its three
parts; those of a running call are `NextRound` and `ReplyHandled`.

Only model-checked: liveness (`CancelReturns`, `ReaderLeaves`, `CancelFreesWaiting`, `TransferEnds`, `OpenCallsReturn`, `CallsEnd`,
`QueuedCallsEnd`, `WaitersWake`, `OperationsReturn`), since temporal reasoning with fairness and ENABLED is beyond the prover,
and the two runs that end in a finding.

## 6. Not modelled

By lines most of this repository is vendored C: libnfs, libsmb2 and zstd. The models cover its control: the request
engines, the queues, timeouts, credits, callbacks, who frees what. What is left of it is data. The encoders
and decoders of NFSv3, NFSv4 and XDR (`libnfs-raw-*.c`, `nfs4/`) are generated code without state; `nfs_v3.c` and
`nfs_v4.c` are one continuation per remote procedure that fills in arguments and picks out results, over the transport of
`RpcClient`; `libnfs-sync.c` is one wrapper per operation around the loop that `RpcClient` models; the `smb2-cmd-*.c` files, the
signing and the NTLM code of libsmb2 are byte formats and cryptography, and zstd is a codec. What can go wrong there is arithmetic on
bytes, which a state model of manageable size would only restate.

In this project's own code: archives, restic and git are formats; secrets and backup are cryptography; the user
interface and the text editor are views around operations that are modelled; FTP, SFTP, WebDAV and Jellyfin are glue around third-party
clients, and as destinations they are the kinds `CopyEngine` distinguishes. `Connections`, compare and sync, the
playback gates and the SQLite browser are open, see the plan. What each modelled part leaves out is said in section 3.

## 7. Running it

    tlc -config MCCopyPipe.cfg MCCopyPipe
    tlc -config MCCopyEngine.cfg MCCopyEngine
    tlc -config MCTransfersQuestions.cfg MCTransfers
    tlapm Trash_proofs.tla
    tlapm Queues_proofs.tla

`PROJECT.json` lists every run with its configuration, a mutation of the model for each property that makes the
run fail (the operators marked "Variant" or "As ..., ..."), and for each definition the source lines it models.
