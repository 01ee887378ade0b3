---------------------------- MODULE PrivilegedShell ----------------------------
(***************************************************************************)
(* PrivilegedShell and the file operations built on it: one long-lived     *)
(* root shell, shared by the app's threads under one lock.  A command is   *)
(* written with an echo of a marker behind it; the thread "twig-priv-read" *)
(* collects lines until it meets the marker.  A session that dies in the   *)
(* middle is replaced once and the command written again; a command that   *)
(* takes too long costs the session, whose stream can no longer be told    *)
(* apart.  A file's bytes go through a process of their own.               *)
(*                                                                         *)
(* What a thread does is its job: "mkdir" and "rename" are the operations  *)
(* of LocalFileSystem that fall back on the shell, "read" is openInput,    *)
(* "close" is close().  A run is one command written to one session; what  *)
(* it prints, its marker included, is one item of the session's output.    *)
(***************************************************************************)
EXTENDS Naturals, Sequences

CONSTANTS
  Threads,
  Teams,         \* the assignments of jobs to threads that are explored
  Nobody,
  MaxSessions,   \* bound on the shells that can be started
  Size           \* blocks of the file a "read" job reads

Sessions == 1..MaxSessions
NoSession == 0

ASSUME ShellAssumption ==
  /\ Teams \subseteq [Threads -> {"mkdir", "rename", "read", "close", "none"}]
  /\ MaxSessions \in Nat /\ Size \in Nat
  /\ Nobody \notin Threads

VARIABLES
  job,
  th,               \* the threads: where they are, at which command, its answer
  lock,             \* who holds PrivilegedShell.lock
  call,             \* the locals of exec, connect, run and shutdown of the holder
  proc,             \* the session in proc, sink and source
  pool,             \* the executor "reads" has not been shut down
  reader,           \* its one thread
  shell,            \* the shell processes
  dir,              \* the directory mkdir makes is there
  source, target,   \* rename: the source is there; what is at the target, where
                    \* "hidden" is a link to nothing, which [ -e ] does not see
  unseen,           \* the looks that ran when nothing was to be seen at the target
  cat               \* the one-shot process

world == <<dir, source, target, unseen>>
vars == <<job, th, lock, call, proc, pool, reader, shell, world, cat>>

NoRun == [who |-> Nobody, k |-> 0, phase |-> "none"]
NotStarted == [born |-> FALSE, up |-> FALSE, sink |-> FALSE, source |-> FALSE, stdin |-> <<>>,
               run |-> NoRun, stage |-> "none", code |-> "none", out |-> <<>>]
Started == [NotStarted EXCEPT !.born = TRUE, !.up = TRUE, !.sink = TRUE, !.source = TRUE]
NoCall == [step |-> "none", phase |-> "none"]
Resting == [at |-> "idle", run |-> NoRun, session |-> NoSession, foreign |-> FALSE, got |-> "none"]

Doing(j) == {t \in Threads : job[t] = j}

Init ==
  /\ job \in Teams
  /\ th = [t \in Threads |-> [pc |-> "start", k |-> 1, lost |-> {}, answer |-> "none", foreign |-> FALSE, got |-> 0]]
  /\ lock = Nobody /\ call = NoCall /\ proc = NoSession /\ pool = TRUE /\ reader = Resting
  /\ shell = [s \in Sessions |-> NotStarted]
  /\ dir = FALSE /\ source = TRUE /\ unseen = {}
  /\ target \in {"none"} \cup (IF Doing("rename") = {} THEN {} ELSE {"there", "hidden"})
  /\ cat = [up |-> FALSE, sent |-> 0, code |-> "none"]

\* Variant: rename relies on mv alone.
ProgramUnlooking(j) == CASE j = "mkdir" -> <<"mkdir">> [] j = "rename" -> <<"mv">>
\* The commands of an operation: rename looks twice, in LocalFileSystem and in PrivilegedFs.
Program(j) == CASE j = "mkdir" -> <<"mkdir">> [] j = "rename" -> <<"test", "test", "mv">>
Command(r) == IF r.phase \in {"id1", "id2"} THEN "id" ELSE Program(job[r.who])[r.k]

-----------------------------------------------------------------------------
(* The shell processes *)

Shell(s, r) == shell' = [shell EXCEPT ![s] = r]
ShellOnly == UNCHANGED <<job, th, lock, call, proc, pool, reader, cat>>

\* The exit status a command reports, and what it does to the files.  mkdir fails
\* on what exists, mv on a source that has gone; other failures are left out.
Visible == target \notin {"none", "hidden"}
Status(cmd) ==
  CASE cmd = "mkdir" -> IF dir THEN "no" ELSE "yes"
    [] cmd = "test" -> IF Visible THEN "yes" ELSE "no"
    [] cmd = "mv" -> IF source THEN "yes" ELSE "no"
    [] cmd = "id" -> "yes"
Acts(r) ==
  LET cmd == Command(r) IN
  /\ dir' = (dir \/ cmd = "mkdir")
  /\ source' = (source /\ cmd # "mv")
  /\ target' = IF cmd = "mv" /\ source THEN IF target \in {"there", "hidden"} THEN "replaced" ELSE "moved" ELSE target
  /\ unseen' = unseen \cup (IF cmd = "test" /\ ~Visible THEN {<<r.who, r.k>>} ELSE {})

\* Another program, or another thread of the app, puts something where the rename is
\* to go, at any time: nothing keeps it off between the looks and mv, each of which
\* takes the lock for itself.
Appears ==
  /\ target = "none" /\ Doing("rename") # {}
  /\ target' \in {"there", "hidden"}
  /\ UNCHANGED <<job, th, lock, call, proc, pool, reader, shell, dir, source, unseen, cat>>

Begins(s) ==
  /\ shell[s].up /\ shell[s].run = NoRun /\ shell[s].stdin # <<>>
  /\ Shell(s, [shell[s] EXCEPT !.run = Head(shell[s].stdin), !.stdin = Tail(@), !.stage = "begun"])
  /\ ShellOnly /\ UNCHANGED world

\* The command takes effect, and may fill the pipe of stderr before it can end.
TakesEffect(s) ==
  /\ shell[s].stage = "begun"
  /\ \E stage \in {"noisy", "ended"} :
       Shell(s, [shell[s] EXCEPT !.stage = stage, !.code = Status(Command(shell[s].run))])
  /\ Acts(shell[s].run)
  /\ ShellOnly

\* Its output arrives, with the marker if the shell still lives to echo it; nobody
\* reads what a pipe with a closed end is given.
Prints(s) ==
  LET item == [run |-> shell[s].run, code |-> IF shell[s].up THEN shell[s].code ELSE "none"] IN
  /\ shell[s].stage = "ended"
  /\ Shell(s, [shell[s] EXCEPT !.out = IF shell[s].source THEN Append(@, item) ELSE @,
                               !.run = NoRun, !.stage = "none", !.code = "none"])
  /\ ShellOnly /\ UNCHANGED world

\* End of input: the shell leaves.
Exits(s) ==
  /\ shell[s].up /\ ~shell[s].sink /\ shell[s].run = NoRun /\ shell[s].stdin = <<>>
  /\ Shell(s, [shell[s] EXCEPT !.up = FALSE])
  /\ ShellOnly /\ UNCHANGED world

\* A process that is killed: the command at work dies with its shell or goes on alone.
Killed(r) ==
  IF ~r.up THEN {r}
  ELSE LET alone == [r EXCEPT !.up = FALSE, !.stdin = <<>>] IN
       {alone, [alone EXCEPT !.run = NoRun, !.stage = "none", !.code = "none"]}

\* The grant is revoked, or the Shizuku service stops.
Dies(s) ==
  /\ shell[s].up
  /\ \E r \in Killed(shell[s]) : Shell(s, r)
  /\ ShellOnly /\ UNCHANGED world

\* The drain thread reads stderr, under errLock and never under lock.
DrainUnderLock(s) ==    \* Variant
  /\ shell[s].stage = "noisy" /\ lock = Nobody
  /\ Shell(s, [shell[s] EXCEPT !.stage = "ended"])
  /\ ShellOnly /\ UNCHANGED world

Drain(s) ==
  /\ shell[s].stage = "noisy"
  /\ Shell(s, [shell[s] EXCEPT !.stage = "ended"])
  /\ ShellOnly /\ UNCHANGED world

-----------------------------------------------------------------------------
(* The thread "twig-priv-read" *)

ReaderOnly == UNCHANGED <<job, th, lock, call, proc, pool, world, cat>>
ThisRun == [who |-> lock, k |-> th[lock].k, phase |-> call.phase]

\* The task ends; nobody asks for the result of one that timed out.
Gives(result) ==
  IF call.step = "wait" /\ reader.run = ThisRun THEN [reader EXCEPT !.at = "idle", !.got = result] ELSE Resting

TakeTask ==
  /\ call.step = "wait" /\ reader.at = "idle" /\ reader.run # ThisRun
  /\ reader' = [Resting EXCEPT !.at = "read", !.run = ThisRun, !.session = proc]
  /\ ReaderOnly /\ UNCHANGED shell

\* readLine: it keeps the reader's monitor while it waits for a line.
EnterReadLine ==
  /\ reader.at = "read"
  /\ reader' = IF shell[reader.session].source THEN [reader EXCEPT !.at = "inside"]
                                               ELSE Gives("closed")
  /\ ReaderOnly /\ UNCHANGED shell

ReadLine ==
  /\ reader.at = "inside"
  /\ LET s == shell[reader.session] IN
     \/ /\ s.out # <<>>
        /\ Shell(reader.session, [s EXCEPT !.out = Tail(@)])
        /\ LET item == Head(s.out)
               mine == item.run = reader.run IN
           reader' = IF mine /\ item.code # "none"
                     THEN Gives(item.code)
                     ELSE [reader EXCEPT !.at = "read", !.foreign = @ \/ ~mine]
     \/ /\ s.out = <<>> /\ ~s.up /\ s.run = NoRun
        /\ reader' = Gives("closed")
        /\ UNCHANGED shell
  /\ ReaderOnly

-----------------------------------------------------------------------------
(* exec, connect, run and shutdown, by the holder of the lock *)

Goto(step) == call' = [call EXCEPT !.step = step]
HolderOnly == UNCHANGED <<job, world, cat, lock, th>>

Alive == proc # NoSession
\* connect is entered only where alive() is false, so its own shutdown finds nothing.
Enter(t) ==
  /\ lock = Nobody /\ th[t].pc = "start" /\ job[t] \in {"mkdir", "rename", "close"}
  /\ lock' = t
  /\ call' = CASE job[t] = "close" -> [step |-> "sink", phase |-> "close"]
               [] job[t] # "close" /\ Alive -> [step |-> "write", phase |-> "try1"]
               [] OTHER -> [step |-> "spawn", phase |-> "id1"]
  /\ UNCHANGED <<job, th, proc, pool, reader, shell, world, cat>>

\* exec returns; a rename goes on or stops.
Answered(t, a, f) ==
  LET me == [th[t] EXCEPT !.answer = a, !.foreign = @ \/ f]
      check == Program(job[t])[me.k] = "test" IN
  /\ th' = [th EXCEPT ![t] =
       CASE check /\ a # "yes" -> [me EXCEPT !.k = @ + 1, !.lost = @ \cup IF a = "lost" THEN {me.k} ELSE {}]
         [] check /\ a = "yes" -> [me EXCEPT !.pc = "done", !.answer = "refused"]
         [] OTHER -> [me EXCEPT !.pc = "done"]]
  /\ lock' = Nobody /\ call' = NoCall

\* launcher.start: the next process, or an exception.
Spawn ==
  /\ call.step = "spawn"
  /\ \/ \E s \in Sessions :
          /\ ~shell[s].born /\ \A r \in 1..(s - 1) : shell[r].born
          /\ Shell(s, Started) /\ proc' = s
          /\ Goto("write") /\ UNCHANGED <<th, lock>>
     \/ UNCHANGED <<shell, proc>> /\ Answered(lock, "lost", FALSE)
  /\ UNCHANGED <<job, pool, reader, world, cat>>

\* The command goes to stdin, then the task to the pool; either may throw.
Write ==
  /\ call.step = "write"
  /\ IF shell[proc].up
       THEN /\ Shell(proc, [shell[proc] EXCEPT !.stdin = Append(@, ThisRun)])
            /\ Goto(IF pool THEN "wait" ELSE "failed")
       ELSE UNCHANGED shell /\ Goto("failed")
  /\ UNCHANGED <<proc, pool, reader>> /\ HolderOnly

\* As TimesOut, without giving up the session.
TimesOutOnly ==
  /\ call.step = "wait" /\ reader.got = "none"
  /\ reader' = Resting
  /\ Goto("failed")
  /\ UNCHANGED <<proc, pool, shell>> /\ HolderOnly

\* task.get gives up at any time.  cancel(true) keeps a task that has not begun from
\* ever beginning; it does not wake a reader that waits inside readLine.
TimesOut ==
  /\ call.step = "wait" /\ (reader.run = ThisRun => reader.got = "none")
  /\ Goto("sink")
  /\ UNCHANGED <<proc, pool, reader, shell>> /\ HolderOnly

\* task.get returns: the marker was found, or readLine has thrown.  What answers id may
\* be no privileged shell: a decoy su, a Shizuku service without authority.
Judge ==
  /\ call.step = "wait" /\ reader.run = ThisRun /\ reader.got # "none"
  /\ reader' = Resting
  /\ IF call.phase \in {"try1", "try2"} /\ reader.got # "closed"
       THEN Answered(lock, reader.got, reader.foreign)
       ELSE /\ \/ reader.got # "closed" /\ call' = [step |-> "write", phase |-> IF call.phase = "id1" THEN "try1" ELSE "try2"]
               \/ reader.got # "closed" /\ Goto("sink")
               \/ reader.got = "closed" /\ Goto("failed")
            /\ UNCHANGED <<th, lock>>
  /\ UNCHANGED <<job, proc, pool, shell, world, cat>>

\* Variant: connect does not clean up after a failed id.
OnlyExecCleansUp == {"try1"}
CleansUp == {"try1", "id1", "id2"}
\* run has thrown.  The first failure of a command is followed by shutdown and
\* connect, the second is the answer; a failed id ends in shutdown.
Failed ==
  /\ call.step = "failed"
  /\ IF call.phase \in CleansUp
       THEN Goto("sink") /\ UNCHANGED <<th, lock>>
       ELSE Answered(lock, "lost", FALSE)
  /\ UNCHANGED <<job, proc, pool, reader, shell, world, cat>>

\* shutdown closes stdin, then the buffered reader, then destroys the process.
CloseSink ==
  /\ call.step = "sink"
  /\ shell' = IF proc = NoSession THEN shell ELSE [shell EXCEPT ![proc].sink = FALSE]
  /\ Goto("source")
  /\ UNCHANGED <<proc, pool, reader>> /\ HolderOnly

\* BufferedReader.close waits for the monitor readLine holds.
CloseSource ==
  /\ call.step = "source" /\ ~(reader.at = "inside" /\ reader.session = proc)
  /\ shell' = IF proc = NoSession THEN shell ELSE [shell EXCEPT ![proc].source = FALSE, ![proc].out = <<>>]
  /\ Goto("destroy")
  /\ UNCHANGED <<proc, pool, reader>> /\ HolderOnly

\* What follows depends on who called shutdown: run after a timeout, or exec, connect, close.
Destroy ==
  /\ call.step = "destroy"
  /\ IF proc = NoSession THEN UNCHANGED shell ELSE \E r \in Killed(shell[proc]) : Shell(proc, r)
  /\ proc' = NoSession
  /\ CASE call.phase = "close" -> pool' = FALSE /\ lock' = Nobody /\ call' = NoCall
                                  /\ th' = [th EXCEPT ![lock].pc = "done"]
       [] call.phase = "try1"  -> call' = [step |-> "spawn", phase |-> "id2"] /\ UNCHANGED <<pool, lock, th>>
       [] OTHER                -> Answered(lock, "lost", FALSE) /\ UNCHANGED pool
  /\ UNCHANGED <<job, reader, world, cat>>

-----------------------------------------------------------------------------
(* openInput: a process of its own, whose end of output ends the data *)

CatOnly == UNCHANGED <<job, lock, call, proc, pool, reader, shell, world>>

StartCat(t) ==
  /\ job[t] = "read" /\ th[t].pc = "start" /\ cat.code = "none"
  /\ cat' = [cat EXCEPT !.up = TRUE]
  /\ th' = [th EXCEPT ![t].pc = "reading"]
  /\ CatOnly

CatWrites ==
  /\ cat.up /\ cat.sent < Size
  /\ cat' = [cat EXCEPT !.sent = @ + 1]
  /\ CatOnly /\ UNCHANGED th

\* cat ends when it has written all, or anywhere with an error.
CatEnds ==
  /\ cat.up
  /\ \E code \in {"bad"} \cup (IF cat.sent = Size THEN {"ok"} ELSE {}) : cat' = [cat EXCEPT !.up = FALSE, !.code = code]
  /\ CatOnly /\ UNCHANGED th

ReadBlock(t) ==
  /\ th[t].pc = "reading" /\ th[t].got < cat.sent
  /\ th' = [th EXCEPT ![t].got = @ + 1]
  /\ CatOnly /\ UNCHANGED cat

CheckExit(t) ==
  /\ th[t].pc = "reading" /\ th[t].got = cat.sent /\ ~cat.up
  /\ th' = [th EXCEPT ![t].pc = "done", ![t].answer = IF cat.code = "ok" THEN "yes" ELSE "lost"]
  /\ CatOnly /\ UNCHANGED cat

-----------------------------------------------------------------------------

HolderStep == Spawn \/ Write \/ Judge \/ Failed \/ CloseSink \/ CloseSource \/ Destroy
ReaderStep == TakeTask \/ EnterReadLine \/ ReadLine
ThreadStep(t) == Enter(t) \/ StartCat(t) \/ ReadBlock(t) \/ CheckExit(t)
ShellStep(s) == Begins(s) \/ TakesEffect(s) \/ Prints(s) \/ Exits(s)

Next ==
  \/ HolderStep \/ TimesOut \/ ReaderStep \/ CatWrites \/ CatEnds \/ Appears
  \/ \E t \in Threads : ThreadStep(t)
  \/ \E s \in Sessions : ShellStep(s) \/ Dies(s) \/ Drain(s)

Spec == Init /\ [][Next]_vars

\* The app's threads, the reader and the drain thread are scheduled, and cat gets on.
FairSpec ==
  /\ Spec /\ WF_vars(HolderStep) /\ WF_vars(ReaderStep) /\ WF_vars(CatWrites \/ CatEnds)
  /\ \A t \in Threads : WF_vars(ThreadStep(t))
  /\ \A s \in Sessions : WF_vars(Drain(s))

-----------------------------------------------------------------------------
(* Properties *)

Runs == [who : Threads, k : 1..3, phase : {"id1", "id2", "try1", "try2"}]
Items == [run : Runs, code : {"yes", "no", "none"}]

TypeOK ==
  /\ job \in Teams
  /\ \A t \in Threads : th[t].pc \in {"start", "reading", "done"} /\ th[t].k \in 1..3
                        /\ th[t].lost \subseteq 1..2 /\ th[t].got \in 0..cat.sent
  /\ lock \in Threads \cup {Nobody} /\ (lock = Nobody) = (call = NoCall)
  /\ proc \in Sessions \cup {NoSession} /\ pool \in BOOLEAN
  /\ call.step \in {"write", "wait"} => proc # NoSession
  /\ reader.at \in {"idle", "read", "inside"} /\ (reader.at # "idle" => reader.session \in Sessions)
  /\ \A s \in Sessions :
       /\ shell[s].stdin \in Seq(Runs) /\ shell[s].out \in Seq(Items)
       /\ shell[s].run \in Runs \cup {NoRun} /\ (shell[s].run = NoRun) = (shell[s].stage = "none")

(* A caller never gets the output of a command that is not its own: after a      *)
(* timeout the rest of the old output must not be read as the next answer (run,   *)
(* the catch of TimeoutException).                                                 *)
OwnAnswer == \A t \in Threads : ~th[t].foreign

(* Two root shells are never alive side by side, so a command that is sent again   *)
(* is sent to a shell that replaces the one it was sent to (exec, connect), and     *)
(* nothing is left of a closed shell, even when a call that came later has started  *)
(* a process before it found the pool shut down (close, connect).                   *)
OneShell ==
  /\ TypeOK
  /\ \A r, s \in Sessions : shell[r].up /\ shell[s].up => r = s
  /\ ~pool /\ lock = Nobody => \A s \in Sessions : ~shell[s].up

(* The end of a stream is the end of the file: a cat that fails is an exception    *)
(* and not a short file (openInput.checkExit).                                      *)
EofIsWhole ==
  \A t \in Doing("read") : th[t].answer = "yes" => th[t].got = Size

(* The answer of an operation is its own, and it is so: a directory reported as    *)
(* made is there, and mkdir reports one that exists only if another thread or its   *)
(* own first run made it; a rename that was refused found a target; a file read to  *)
(* its end was read whole.                                                          *)
AnswerIsTrue ==
  /\ OwnAnswer /\ EofIsWhole
  /\ \A t \in Threads :
       th[t].pc = "done" =>
         /\ job[t] = "mkdir" /\ th[t].answer \in {"yes", "no"} => dir
         /\ job[t] = "rename" /\ th[t].answer = "yes" => ~source /\ target \in {"moved", "replaced"}
         /\ job[t] = "rename" /\ th[t].answer = "refused" => target # "none"

(* What rename replaces, neither of its looks could see: each of the two went      *)
(* unanswered, as exec's -1 for a lost shell reads as "it does not exist"           *)
(* (PrivilegedFs.exists), or ran when nothing was to be seen, before the target      *)
(* came into being or because it is a link to nothing.  So a target that is in      *)
(* sight all along is replaced only when both looks were lost, however sessions     *)
(* die and commands are sent again.                                                 *)
TargetKept ==
  target = "replaced" =>
    \E t \in Doing("rename") : \A k \in 1..2 : k \in th[t].lost \/ <<t, k>> \in unseen

\* Commands come to an end, and so do the shells whose input has ended.
CommandsEnd == \A s \in Sessions : WF_vars(ShellStep(s))

(* Every operation returns, however sessions die and whatever a command prints to   *)
(* stderr, if no command runs for ever.  The time limit does not help one that      *)
(* does: shutdown closes the reader before it destroys the process, and close waits *)
(* for the readLine the hung command keeps waiting (run 196-200, shutdown).          *)
OperationsReturn == CommandsEnd => \A t \in Threads : <>(job[t] # "none" => th[t].pc = "done")

=============================================================================
