----------------------------- MODULE BlockCaches -----------------------------
(***************************************************************************)
(* The two block caches between a player and a slow file.                  *)
(*   "buffered"  BufferedRandomSource: blocks in memory, the least recently *)
(*               used goes, and a thread that prefetches what comes next    *)
(*   "audio"     AudioCache.Entry: blocks in a file, a connection that is   *)
(*               reopened when it breaks, a thread that downloads it all,   *)
(*               and the registry that disposes of the entry at any time    *)
(* Both let one thread download a block while the others wait at a latch.  *)
(* A latch is a member of inflight; counting it down wakes who waits there.*)
(***************************************************************************)
EXTENDS Integers, Sequences, FiniteSets

CONSTANTS
  Kinds,        \* which of the two, a subset of {"buffered", "audio"}
  Readers,      \* threads that call readAt
  Prefetcher,   \* the prefetch thread
  NBlocks,      \* blocks of the file, for each kind
  MaxBlocks, Ahead,   \* maxBlocks and ahead of BufferedRandomSource
  MaxAttempts,  \* MAX_ATTEMPTS of AudioCache
  Conns, None   \* connections; ids are used again

ASSUME CachesAssumption ==
  /\ Kinds \subseteq {"buffered", "audio"}
  /\ Prefetcher \notin Readers
  /\ NBlocks \in [Kinds -> Nat \ {0}]
  /\ {MaxBlocks, MaxAttempts} \subseteq Nat \ {0} /\ Ahead \in Nat
  /\ IsFiniteSet(Readers) /\ IsFiniteSet(Conns) /\ Cardinality(Conns) > Cardinality(Readers) + 1
  /\ None \notin Conns

Threads == Readers \cup {Prefetcher}
VARIABLES
  kind,
  th,          \* th[t]: where a thread is, its block, its connection, a counter
  inflight,    \* blocks with a latch
  cache,       \* buffered: cached blocks, the least recently used first
  tasks,       \* buffered: prefetch tasks; fresh while no seek came after them
  queued,      \* buffered: blocks queued for prefetch
  lastBi,      \* buffered: the block read last, -1 for none
  downloaded,  \* audio: the bitmap of downloaded blocks
  disk,        \* audio: blocks whose bytes are in the cache file
  short,       \* audio: blocks of which the file system took a part only
  upstream,    \* audio: the connection in use
  open,        \* audio: connections that nobody has closed
  done,        \* audio: downloadAllDone
  over         \* close() or dispose()

bufferedVars == <<cache, tasks, queued, lastBi>>
connVars == <<upstream, open>>
fileVars == <<downloaded, disk, short>>
audioVars == <<fileVars, connVars, done>>
vars == <<kind, th, inflight, bufferedVars, audioVars, over>>

Blocks == 0..(NBlocks[kind] - 1)
AtRest == [pc |-> "idle", bi |-> 0, up |-> None, n |-> 0]

Init ==
  /\ kind \in Kinds
  /\ th = [t \in Threads |-> AtRest]
  /\ inflight = {}
  /\ cache = <<>> /\ tasks = <<>> /\ queued = {} /\ lastBi = -1
  /\ downloaded = {} /\ disk = {} /\ short = {} /\ upstream = None /\ open = {} /\ done = FALSE
  /\ over = FALSE

Elements(s) == {s[i] : i \in 1..Len(s)}
(* A cached block is at one place, so there is one to take out.            *)
Without(s, x) ==
  IF x \notin Elements(s) THEN s
  ELSE LET i == CHOOSE i \in 1..Len(s) : s[i] = x IN
       [j \in 1..(Len(s) - 1) |-> s[IF j < i THEN j ELSE j + 1]]
At(t, pc) == th[t].pc = pc
Goto(t, pc) == th' = [th EXCEPT ![t].pc = pc]
Rest(t) == th' = [th EXCEPT ![t] = AtRest]

------------------------------------------------------------------------------
(* readAt, blockOf and ensureBlock.                                        *)

(* A seek makes the prefetches that are still queued stale.                *)
Seek(b) == lastBi >= 0 /\ b \notin (lastBi - 1)..(lastBi + Ahead)

ReadAt(t, b) ==
  /\ t \in Readers /\ At(t, "idle")
  /\ th' = [th EXCEPT ![t].pc = "look", ![t].bi = b]
  /\ IF kind = "buffered"
       THEN /\ tasks' = IF Seek(b) THEN [i \in 1..Len(tasks) |-> [tasks[i] EXCEPT !.fresh = FALSE]] ELSE tasks
            /\ lastBi' = b
       ELSE UNCHANGED <<tasks, lastBi>>
  /\ UNCHANGED <<kind, inflight, cache, queued, audioVars, over>>

Has(b) == IF kind = "buffered" THEN b \in Elements(cache) ELSE b \in downloaded

(* Where a thread goes with the block, or without it.                      *)
Continue(t, ok) ==
  IF t = Prefetcher
    THEN IF kind = "buffered" THEN [th[t] EXCEPT !.pc = "unqueue", !.up = None, !.n = 0]
         ELSE IF ~ok THEN AtRest
         ELSE [AtRest EXCEPT !.pc = IF th[t].bi + 1 \in Blocks THEN "next" ELSE "finish",
                             !.bi = IF th[t].bi + 1 \in Blocks THEN th[t].bi + 1 ELSE 0]
    ELSE IF ~ok THEN AtRest
    ELSE [AtRest EXCEPT !.pc = IF kind = "buffered" THEN "ahead" ELSE "channel", !.bi = th[t].bi]

(* Mutants stand before the definition they alter: a defect a maintainer   *)
(* could introduce, against which a property is tested.                    *)

(* As Look, without waiting for a download that is under way. *)
LookAndFetch(t) ==
  /\ At(t, "look")
  /\ LET b == th[t].bi IN
     \/ /\ Has(b) \/ (kind = "audio" /\ over)
        /\ th' = [th EXCEPT ![t] = Continue(t, Has(b))]
        /\ UNCHANGED inflight
     \/ ~Has(b) /\ Goto(t, "fetch") /\ inflight' = inflight \cup {b}
  /\ UNCHANGED <<kind, bufferedVars, audioVars, over>>

Look(t) ==
  /\ At(t, "look")
  /\ LET b == th[t].bi IN
     \/ /\ kind = "audio" /\ over
        /\ th' = [th EXCEPT ![t] = Continue(t, FALSE)] /\ UNCHANGED <<inflight, cache>>
     \/ /\ ~(kind = "audio" /\ over) /\ Has(b)
        /\ th' = [th EXCEPT ![t] = Continue(t, TRUE)]
        /\ cache' = IF kind = "buffered" THEN Append(Without(cache, b), b) ELSE cache
        /\ UNCHANGED inflight
     \/ /\ ~(kind = "audio" /\ over) /\ ~Has(b)
        /\ IF b \in inflight THEN Goto(t, "wait") /\ UNCHANGED inflight
                             ELSE Goto(t, "fetch") /\ inflight' = inflight \cup {b}
        /\ UNCHANGED cache
  /\ UNCHANGED <<kind, tasks, queued, lastBi, audioVars, over>>

(* ensureBlock looks at the bitmap before it looks at disposed.            *)
Recheck(t) ==
  /\ At(t, "recheck")
  /\ th' = [th EXCEPT ![t] = IF Has(@.bi) THEN Continue(t, TRUE)
                             ELSE IF over THEN Continue(t, FALSE)
                             ELSE [@ EXCEPT !.pc = "look"]]
  /\ UNCHANGED <<kind, inflight, bufferedVars, audioVars, over>>

(* As Release, that wakes only when the block has come. *)
ReleaseOnSuccess(t) ==
  /\ th[t].pc \in {"got", "lost"}
  /\ inflight' = IF At(t, "got") THEN inflight \ {th[t].bi} ELSE inflight
  /\ th' = [u \in Threads |->
       IF u = t THEN Continue(t, At(t, "got"))
       ELSE IF At(u, "wait") /\ th[u].bi = th[t].bi /\ At(t, "got")
         THEN [th[u] EXCEPT !.pc = IF kind = "buffered" THEN "look" ELSE "recheck"]
         ELSE th[u]]
  /\ UNCHANGED <<kind, bufferedVars, audioVars, over>>

(* The finally of fetch and fetchBlock: count the latch down.              *)
Release(t) ==
  /\ th[t].pc \in {"got", "lost"}
  /\ inflight' = inflight \ {th[t].bi}
  /\ th' = [u \in Threads |->
       IF u = t THEN Continue(t, At(t, "got"))
       ELSE IF At(u, "wait") /\ th[u].bi = th[t].bi
         THEN [th[u] EXCEPT !.pc = IF kind = "buffered" THEN "look" ELSE "recheck"]
         ELSE th[u]]
  /\ UNCHANGED <<kind, bufferedVars, audioVars, over>>

------------------------------------------------------------------------------
(* BufferedRandomSource.                                                   *)

Fetch(t) ==
  /\ kind = "buffered" /\ At(t, "fetch")
  /\ \/ ~over /\ Goto(t, "put")
     \/ Goto(t, "lost")
  /\ UNCHANGED <<kind, inflight, bufferedVars, audioVars, over>>

Put(t) ==
  /\ At(t, "put")
  /\ LET s == Append(Without(cache, th[t].bi), th[t].bi) IN
     cache' = IF Len(s) > MaxBlocks THEN Tail(s) ELSE s
  /\ Goto(t, "got")
  /\ UNCHANGED <<kind, inflight, tasks, queued, lastBi, audioVars, over>>

(* for (k in 1..ahead) prefetch(bi + k): look, then execute.               *)
PrefetchAhead(t) ==
  /\ At(t, "ahead")
  /\ LET b == th[t].bi + th[t].n + 1 IN
     IF th[t].n = Ahead THEN Rest(t) /\ UNCHANGED queued
     ELSE IF b \notin Blocks \/ Has(b) \/ b \in inflight \/ b \in queued
       THEN th' = [th EXCEPT ![t].n = @ + 1] /\ UNCHANGED queued
       ELSE Goto(t, "submit") /\ queued' = queued \cup {b}
  /\ UNCHANGED <<kind, inflight, cache, tasks, lastBi, audioVars, over>>

Submitting(t) == th[t].bi + th[t].n + 1

Submit(t) ==
  /\ At(t, "submit")
  /\ IF over
       THEN Rest(t) /\ UNCHANGED tasks
       ELSE /\ tasks' = Append(tasks, [bi |-> Submitting(t), fresh |-> TRUE])
            /\ th' = [th EXCEPT ![t] = [@ EXCEPT !.pc = "ahead", !.n = th[t].n + 1]]
  /\ UNCHANGED <<kind, inflight, cache, queued, lastBi, audioVars, over>>

(* As TakeTask, where a stale task returns without unmarking its block. *)
DropStaleTask ==
  /\ tasks # <<>> /\ At(Prefetcher, "idle")
  /\ tasks' = Tail(tasks)
  /\ IF Head(tasks).fresh
       THEN th' = [th EXCEPT ![Prefetcher].bi = Head(tasks).bi, ![Prefetcher].pc = "look"]
       ELSE UNCHANGED th
  /\ UNCHANGED <<kind, inflight, cache, queued, lastBi, audioVars, over>>

TakeTask ==
  /\ tasks # <<>> /\ At(Prefetcher, "idle")
  /\ tasks' = Tail(tasks)
  /\ th' = [th EXCEPT ![Prefetcher].bi = Head(tasks).bi,
                      ![Prefetcher].pc = IF Head(tasks).fresh THEN "look" ELSE "unqueue"]
  /\ UNCHANGED <<kind, inflight, cache, queued, lastBi, audioVars, over>>

Unqueue ==
  /\ At(Prefetcher, "unqueue")
  /\ queued' = queued \ {th[Prefetcher].bi}
  /\ Rest(Prefetcher)
  /\ UNCHANGED <<kind, inflight, cache, tasks, lastBi, audioVars, over>>

(* close: shutdownNow drops the tasks and interrupts the prefetch thread,  *)
(* whose await throws; reads of the closed source throw.                   *)
Close ==
  /\ kind = "buffered" /\ ~over
  /\ over' = TRUE /\ tasks' = <<>>
  /\ th' = IF At(Prefetcher, "wait") THEN [th EXCEPT ![Prefetcher].pc = "unqueue"] ELSE th
  /\ UNCHANGED <<kind, inflight, cache, queued, lastBi, audioVars>>

------------------------------------------------------------------------------
(* AudioCache.Entry: fetchBlock and ensureOpen.                            *)

Attempt(t) ==
  /\ kind = "audio" /\ At(t, "fetch")
  /\ Goto(t, IF over THEN "lost" ELSE "open")
  /\ UNCHANGED <<kind, inflight, bufferedVars, audioVars, over>>

EnsureOpen(t) ==
  /\ At(t, "open")
  /\ th' = [th EXCEPT ![t].pc = IF over THEN "failed" ELSE IF upstream = None THEN "connect" ELSE "read",
                      ![t].up = IF over THEN None ELSE upstream]
  /\ UNCHANGED <<kind, inflight, bufferedVars, audioVars, over>>

UnusedConn == CHOOSE c \in Conns : c \notin open /\ \A u \in Threads : th[u].up # c

(* openRandom, outside the lock.                                           *)
Connect(t) ==
  /\ At(t, "connect")
  /\ \/ /\ open' = open \cup {UnusedConn}
        /\ th' = [th EXCEPT ![t].pc = "adopt", ![t].up = UnusedConn]
     \/ Goto(t, "failed") /\ UNCHANGED open
  /\ UNCHANGED <<kind, inflight, bufferedVars, fileVars, upstream, done, over>>

(* As Adopt, without looking at disposed again. *)
AdoptAlways(t) ==
  /\ At(t, "adopt")
  /\ \/ /\ upstream # None
        /\ open' = open \ {th[t].up}
        /\ th' = [th EXCEPT ![t].pc = "read", ![t].up = upstream] /\ UNCHANGED upstream
     \/ /\ upstream = None
        /\ upstream' = th[t].up
        /\ Goto(t, "read") /\ UNCHANGED open
  /\ UNCHANGED <<kind, inflight, bufferedVars, fileVars, done, over>>

Adopt(t) ==
  /\ At(t, "adopt")
  /\ \/ /\ over
        /\ open' = open \ {th[t].up}
        /\ th' = [th EXCEPT ![t].pc = "failed", ![t].up = None] /\ UNCHANGED upstream
     \/ /\ ~over /\ upstream # None
        /\ open' = open \ {th[t].up}
        /\ th' = [th EXCEPT ![t].pc = "read", ![t].up = upstream] /\ UNCHANGED upstream
     \/ /\ ~over /\ upstream = None
        /\ upstream' = th[t].up
        /\ Goto(t, "read") /\ UNCHANGED open
  /\ UNCHANGED <<kind, inflight, bufferedVars, fileVars, done, over>>

(* A read fails when the network does, or when somebody has closed the     *)
(* connection meanwhile.                                                   *)
Download(t) ==
  /\ At(t, "read")
  /\ \/ th[t].up \in open /\ Goto(t, "write")
     \/ Goto(t, "failed")
  /\ UNCHANGED <<kind, inflight, bufferedVars, audioVars, over>>

(* As WriteBlock, with the bit set although the write failed. *)
MarkAnyway(t) ==
  /\ At(t, "write")
  /\ \/ disk' = IF over THEN disk ELSE disk \cup {th[t].bi}
     \/ UNCHANGED disk
  /\ downloaded' = downloaded \cup {th[t].bi}
  /\ th' = [th EXCEPT ![t].pc = "got", ![t].up = None]
  /\ UNCHANGED <<kind, inflight, bufferedVars, short, connVars, done, over>>

(* The channel is null once the entry is disposed.  A write may fail, and  *)
(* it may come back short, on a full disk: nobody looks at its count.      *)
WriteBlock(t) ==
  /\ At(t, "write")
  /\ LET b == th[t].bi IN
     \/ /\ disk' = IF over THEN disk ELSE disk \cup {b}
        /\ downloaded' = downloaded \cup {b}
        /\ th' = [th EXCEPT ![t].pc = "got", ![t].up = None]
        /\ UNCHANGED short
     \/ /\ ~over
        /\ short' = short \cup {b}
        /\ downloaded' = downloaded \cup {b}
        /\ th' = [th EXCEPT ![t].pc = "got", ![t].up = None]
        /\ UNCHANGED disk
     \/ /\ ~over
        /\ th' = [th EXCEPT ![t].pc = "lost", ![t].up = None]
        /\ UNCHANGED fileVars
  /\ UNCHANGED <<kind, inflight, bufferedVars, connVars, done, over>>

(* dropUpstream closes whatever the connection is by now.                  *)
DropUpstream(t) ==
  /\ At(t, "failed")
  /\ open' = open \ {upstream} /\ upstream' = None
  /\ th' = [th EXCEPT ![t] = [@ EXCEPT !.pc = IF th[t].n + 1 < MaxAttempts THEN "fetch" ELSE "lost",
                                       !.n = th[t].n + 1, !.up = None]]
  /\ UNCHANGED <<kind, inflight, bufferedVars, fileVars, done, over>>

(* readAt's last part: the channel is taken under the lock and read after. *)
TakeChannel(t) ==
  /\ At(t, "channel")
  /\ IF over THEN Rest(t) ELSE Goto(t, "disk")
  /\ UNCHANGED <<kind, inflight, bufferedVars, audioVars, over>>

ReadDisk(t) ==
  /\ At(t, "disk") /\ Rest(t)
  /\ UNCHANGED <<kind, inflight, bufferedVars, audioVars, over>>

------------------------------------------------------------------------------
(* AudioCache.Entry: downloadAll and dispose.                              *)

DownloadAll ==
  /\ kind = "audio" /\ At(Prefetcher, "idle") /\ ~done
  /\ Goto(Prefetcher, "next")
  /\ UNCHANGED <<kind, inflight, bufferedVars, audioVars, over>>

NextBlock ==
  /\ At(Prefetcher, "next")
  /\ IF over THEN Rest(Prefetcher) ELSE Goto(Prefetcher, "look")
  /\ UNCHANGED <<kind, inflight, bufferedVars, audioVars, over>>

FinishAll ==
  /\ At(Prefetcher, "finish")
  /\ done' = TRUE
  /\ IF downloaded = Blocks
       THEN open' = open \ {upstream} /\ upstream' = None
       ELSE UNCHANGED connVars
  /\ Rest(Prefetcher)
  /\ UNCHANGED <<kind, inflight, bufferedVars, fileVars, over>>

(* Evicted, cleared or released by the registry: the connection and the    *)
(* channel are closed, the cache file is deleted.                          *)
Dispose ==
  /\ kind = "audio" /\ ~over
  /\ over' = TRUE
  /\ open' = open \ {upstream} /\ upstream' = None
  /\ UNCHANGED <<kind, th, inflight, bufferedVars, fileVars, done>>

------------------------------------------------------------------------------

(* What a thread does by itself, once it is asked for a block.             *)
Step(t) ==
  \/ Look(t) \/ Recheck(t) \/ Release(t)
  \/ Fetch(t) \/ Put(t) \/ PrefetchAhead(t) \/ Submit(t)
  \/ Attempt(t) \/ EnsureOpen(t) \/ Connect(t) \/ Adopt(t) \/ Download(t) \/ WriteBlock(t)
  \/ DropUpstream(t) \/ TakeChannel(t) \/ ReadDisk(t)
  \/ t = Prefetcher /\ (TakeTask \/ Unqueue \/ NextBlock \/ FinishAll)

Next ==
  \/ \E t \in Threads : Step(t) \/ \E b \in Blocks : ReadAt(t, b)
  \/ Close \/ DownloadAll \/ Dispose

Spec == Init /\ [][Next]_vars

(* Threads are scheduled, and reads of the network end, in an exception at *)
(* the latest.  Nobody has to ask for a block.                             *)
FairSpec == Spec /\ \A t \in Threads : WF_vars(Step(t))

------------------------------------------------------------------------------
(* Properties.                                                             *)

Fetching == {t \in Threads :
  th[t].pc \in {"fetch", "put", "open", "connect", "adopt", "read", "write", "failed", "got", "lost"}}

TypeOK ==
  /\ kind \in Kinds /\ over \in BOOLEAN /\ done \in BOOLEAN
  /\ \A t \in Threads : th[t].bi \in Blocks /\ th[t].up \in Conns \cup {None}
                        /\ th[t].n \in 0..(IF kind = "audio" THEN MaxAttempts ELSE Ahead)
  /\ inflight \subseteq Blocks /\ queued \subseteq Blocks
  /\ cache \in Seq(Blocks) /\ Len(cache) <= MaxBlocks
  /\ \A i \in 1..Len(tasks) : tasks[i] \in [bi : Blocks, fresh : BOOLEAN]
  /\ lastBi \in Blocks \cup {-1}
  /\ downloaded \subseteq Blocks /\ disk \subseteq Blocks /\ short \subseteq Blocks
  /\ upstream \in Conns \cup {None} /\ open \subseteq Conns

(* "Only one thread is allowed to actually download a given block", and    *)
(* "whoever asks first downloads the block, the other side hits directly": *)
(* no block is downloaded by two threads, nor while it is in the cache.  A *)
(* latch is there exactly as long as the thread that will count it down,   *)
(* so nobody waits for a download that has failed or ended.                *)
DownloadedOnce ==
  /\ TypeOK
  /\ \A t, u \in Fetching : t # u => th[t].bi # th[u].bi
  /\ \A t \in Fetching : th[t].pc # "got" => ~Has(th[t].bi)
  /\ inflight = {th[t].bi : t \in Fetching}
  /\ \A t \in Threads : At(t, "wait") => th[t].bi \in inflight

(* No connection is lost: it is the entry's, or a thread that has just     *)
(* opened it is about to hand it over or close it, and after dispose only  *)
(* the latter, though threads connect outside the lock.                    *)
NoLeakedConnection ==
  /\ open = ({upstream} \ {None}) \cup {th[t].up : t \in {u \in Threads : At(u, "adopt")}}
  /\ over => upstream = None

(* Until the entry is disposed, the bitmap lies about nothing but a short   *)
(* write: a block that is marked, or that a reader is about to read from   *)
(* disk, is whole in the file unless its own write came back short, though *)
(* downloads fail, and connections break, around it; what is in the file   *)
(* is marked, so that it is not downloaded again.                          *)
BitmapIsTrue ==
  kind = "audio" /\ ~over =>
    /\ downloaded = disk \cup short
    /\ disk \cap short = {}
    /\ \A t \in Readers : th[t].pc \in {"channel", "disk"} => th[t].bi \in disk \cup short

(* A block marked as queued has a task that will unmark it; otherwise it   *)
(* would never be prefetched again.                                        *)
QueuedHasTask ==
  kind = "buffered" /\ ~over =>
    queued = {tasks[i].bi : i \in 1..Len(tasks)}
             \cup {Submitting(t) : t \in {u \in Readers : At(u, "submit")}}
             \cup (IF At(Prefetcher, "idle") THEN {} ELSE {th[Prefetcher].bi})

(* Whoever waits for another thread's download goes on, whether that ends  *)
(* in a block, in an error, after a reconnect, or in dispose or close.     *)
WaitersWake == \A t \in Threads : At(t, "wait") ~> ~At(t, "wait")
==============================================================================
