----------------------------- MODULE SmbClient -----------------------------
(***************************************************************************)
(* NativeSmbClient: one libsmb2 connection shared by the threads of the    *)
(* app.  A call is queued on the single thread "smb-io" and the caller     *)
(* waits for it; a request that fails without having been denied drops the *)
(* connection, connects again and is sent a second time (smbRequest).      *)
(*                                                                         *)
(* The client knows a connection by the address of its smb2_context.  A    *)
(* freed address may be given to the next context, so an address and the   *)
(* connection that lives at it are two things here: memory[a] is the       *)
(* number of the connection at address a, NoConn when a is free.  A file   *)
(* handle belongs to the connection it was opened on.                      *)
(*                                                                         *)
(* What a thread does with the client is its job: "call" is mkdir, delete  *)
(* or rename, "reader" and "writer" are the streams of openInput and       *)
(* openOutput, "pread" reads through a handle that is open already on a    *)
(* dedicated client, "close" is close() or closeHard().                    *)
(*                                                                         *)
(* SmbFileSystem keeps one client per share for every stream and call, and *)
(* disconnect() closes it beside them: only openRandom's client is         *)
(* dedicated.  A file system is taken out of the registry before it is     *)
(* disconnected, so that one thread closes a client.                       *)
(***************************************************************************)
EXTENDS Naturals, Sequences

CONSTANTS
  Threads,
  Teams,       \* the assignments of jobs to threads that are explored
  Addresses,   \* where the allocator can put a context
  Null,        \* handle 0
  MaxConns     \* bound on the connections made

NoConn == 0
Conns == 1..MaxConns
Jobs == {"call", "reader", "writer", "pread", "close", "none"}

ASSUME SmbAssumption ==
  /\ Teams \subseteq [Threads -> Jobs]
  /\ \A team \in Teams : \A t, u \in Threads :
       /\ team[t] = "close" /\ team[u] = "close" => t = u
       /\ team[t] = "pread" => team[u] \in {"pread", "close", "none"}
  /\ Null \notin Addresses /\ Addresses # {}
  /\ MaxConns \in Nat \ {0}

VARIABLES
  job,       \* the team at work
  memory,    \* the connection at each address
  dropped,   \* connections the server or the network has broken
  made,      \* connections made so far
  handle,    \* NativeSmbClient.handle
  queue,     \* tasks submitted to the io thread
  io,        \* the task it runs
  shut,      \* io.shutdownNow() was called
  th,        \* the threads
  freedUnder,    \* history: threads that had looked at the handle, and had yet to use
                 \* or to leave what they saw, when that context was freed
  renewedUnder   \* history: threads that a new connection overtook

network == <<memory, dropped, made>>
history == <<freedUnder, renewedUnder>>
vars == <<job, history, network, handle, queue, io, shut, th>>

Idle == [step |-> "idle"]
Task(t, k) == [who |-> t, kind |-> k]
Requests == {"call", "open"}
Kinds == Requests \cup {"read", "write", "pread", "closefh", "disconnect"}
NewThread(fh) == [pc |-> "start", fh |-> fh, owner |-> Null, in |-> Null,
                  effects |-> 0, result |-> "none"]

(* connect has succeeded; a dedicated client has opened its file.          *)
Init ==
  /\ job \in Teams
  /\ \E a \in Addresses :
       /\ memory = [b \in Addresses |-> IF b = a THEN 1 ELSE NoConn]
       /\ handle = a
  /\ dropped = {} /\ made = 1
  /\ queue = <<>> /\ io = Idle /\ shut = FALSE
  /\ th = [t \in Threads |-> NewThread(IF job[t] = "pread" THEN 1 ELSE NoConn)]
  /\ freedUnder = {} /\ renewedUnder = {}

Live(a) == a # Null /\ memory[a] # NoConn /\ memory[a] \notin dropped

------------------------------------------------------------------------------
(* The callers.  exec: submit and wait; a pool that was shut down throws.  *)

Exec(t, kind) ==
  IF shut
    THEN th' = [th EXCEPT ![t].pc = "done", ![t].result = "rejected"] /\ UNCHANGED queue
    ELSE th' = [th EXCEPT ![t].pc = "wait"] /\ queue' = Append(queue, Task(t, kind))

Start(t) ==
  /\ th[t].pc = "start"
  /\ \/ job[t] = "call" /\ Exec(t, "call")
     \/ job[t] \in {"reader", "writer"} /\ Exec(t, "open")
     \/ job[t] = "pread" /\ Exec(t, "pread")
     \/ job[t] = "pread" /\ th' = [th EXCEPT ![t].pc = "done"] /\ UNCHANGED queue
  /\ UNCHANGED <<job, history, network, handle, io, shut>>

(* openInput, openOutput: the owner is read after the open has returned.   *)
TakeOwner(t) ==
  /\ th[t].pc = "opened"
  /\ th' = [th EXCEPT ![t].pc = "stream", ![t].owner = handle]
  /\ UNCHANGED <<job, history, network, handle, queue, io, shut>>

Read(t) ==
  /\ th[t].pc = "stream" /\ job[t] = "reader"
  /\ Exec(t, "read")
  /\ UNCHANGED <<job, history, network, handle, io, shut>>

(* write compares the owner on the caller's thread, then submits.          *)
CheckOwner(t) ==
  /\ th[t].pc = "stream" /\ job[t] = "writer"
  /\ th' = [th EXCEPT ![t].pc = IF handle = th[t].owner THEN "checked" ELSE "finish"]
  /\ UNCHANGED <<job, history, network, handle, queue, io, shut>>

Write(t) ==
  /\ th[t].pc = "checked"
  /\ Exec(t, "write")
  /\ UNCHANGED <<job, history, network, handle, io, shut>>

(* A write that failed reads the last error on the caller's thread.        *)
ReadError(t) ==
  /\ th[t].pc = "error"
  /\ th' = [th EXCEPT ![t].pc = IF handle = Null THEN "finish" ELSE "inside", ![t].in = handle]
  /\ UNCHANGED <<job, history, network, handle, queue, io, shut>>

LeaveError(t) ==
  /\ th[t].pc = "inside"
  /\ th' = [th EXCEPT ![t].pc = "finish", ![t].in = Null]
  /\ UNCHANGED <<job, history, network, handle, queue, io, shut>>

(* A stream's close(): the native close is skipped for another context.    *)
CloseStream(t) ==
  /\ th[t].pc \in {"stream", "finish"}
  /\ IF handle = th[t].owner
       THEN Exec(t, "closefh")
       ELSE th' = [th EXCEPT ![t].pc = "done"] /\ UNCHANGED queue
  /\ UNCHANGED <<job, history, network, handle, io, shut>>

(* close, closeHard: take the handle, clear it, disconnect on the io       *)
(* thread, stop the pool.  Tasks still queued are dropped.                 *)
CloseTake(t) ==
  /\ th[t].pc = "start" /\ job[t] = "close"
  /\ th' = [th EXCEPT ![t].pc = "taken", ![t].owner = handle]
  /\ UNCHANGED <<job, history, network, handle, queue, io, shut>>

CloseClear(t) ==
  /\ th[t].pc = "taken"
  /\ handle' = Null
  /\ IF th[t].owner = Null
       THEN th' = [th EXCEPT ![t].pc = "shutdown"] /\ UNCHANGED queue
       ELSE Exec(t, "disconnect")
  /\ UNCHANGED <<job, history, network, io, shut>>

Shutdown(t) ==
  /\ th[t].pc = "shutdown"
  /\ shut' = TRUE /\ queue' = <<>>
  /\ th' = [th EXCEPT ![t].pc = "done"]
  /\ UNCHANGED <<job, history, network, handle, io>>

------------------------------------------------------------------------------
(* The io thread.  io.at is the context it is inside of, io.sent counts    *)
(* how often the request went out.                                         *)

Among(q, t, kinds) == \E i \in DOMAIN q : q[i].who = t /\ q[i].kind \in kinds
Awaits(t, kinds) == Among(queue, t, kinds)

(* Who is between a look at the handle, which was a, and its use: after    *)
(* write's owner check, in close(), or reading the error text.             *)
Using(a) ==
  {t \in Threads :
     \/ th[t].owner = a /\ (th[t].pc \in {"checked", "taken"} \/ Awaits(t, {"write", "disconnect"}))
     \/ th[t].pc = "inside" /\ th[t].in = a}

(* Whom a new context at a overtakes: a stream between its open and its    *)
(* owner snapshot, or after close()'s owner check; whoever remembers that  *)
(* address from an older context; and a close() that took the handle.      *)
Overtaken(a) ==
  {t \in Threads :
     \/ th[t].pc = "opened" \/ Awaits(t, {"closefh"}) \/ th[t].owner = a
     \/ job[t] = "close" /\ th[t].pc # "start"}

Me == io.who
Goto(step) == io' = [io EXCEPT !.step = step]
Enter(step, a) == io' = [io EXCEPT !.step = step, !.at = a]

After(kind, r) ==
  CASE kind = "open" -> IF r = "ok" THEN "opened" ELSE "done"
    [] kind = "read" -> IF r = "ok" THEN "stream" ELSE "finish"
    [] kind = "write" -> IF r = "ok" THEN "stream" ELSE "error"
    [] kind = "pread" -> "start"
    [] kind = "disconnect" -> "shutdown"
    [] OTHER -> "done"

Return(r) ==
  /\ io' = Idle
  /\ th' = [th EXCEPT ![Me].result = r, ![Me].pc = After(io.kind, r),
                      ![Me].fh = IF io.kind = "open" /\ r = "ok" THEN memory[io.at] ELSE @]

Take ==
  /\ io = Idle /\ queue # <<>>
  /\ queue' = Tail(queue)
  /\ LET t == Head(queue) IN
     io' = [step |-> IF t.kind = "disconnect" THEN "free" ELSE t.kind, kind |-> t.kind, who |-> t.who,
            at |-> IF t.kind = "disconnect" THEN th[t.who].owner ELSE Null, sent |-> 0, out |-> "none"]
  /\ UNCHANGED <<job, history, network, handle, shut, th>>

EnsureConnected ==
  /\ io.step \in Requests
  /\ Goto(IF handle = Null THEN "drop" ELSE "send")
  /\ UNCHANGED <<job, history, network, handle, queue, shut, th>>

(* The request goes out through whatever the handle is now.                *)
Send ==
  /\ io.step = "send"
  /\ io' = [io EXCEPT !.step = "native", !.at = handle, !.sent = @ + 1]
  /\ UNCHANGED <<job, history, network, handle, queue, shut, th>>

(* As EnterStream, with read's owner checked on the caller's thread only. *)
EnterUnchecked ==
  /\ io.step \in {"read", "write"} /\ Enter("native", th[Me].owner)
  /\ UNCHANGED <<job, history, network, handle, queue, shut, th>>

(* read compares the owner here, on the io thread; write does not.         *)
EnterStream ==
  /\ \/ io.step = "read" /\ handle = th[Me].owner /\ Enter("native", th[Me].owner) /\ UNCHANGED th
     \/ io.step = "read" /\ handle # th[Me].owner /\ Return("failed")
     \/ io.step = "write" /\ Enter("native", th[Me].owner) /\ UNCHANGED th
  /\ UNCHANGED <<job, history, network, handle, queue, shut>>

(* pread and closeHandle look at the handle and never reconnect.           *)
EnterHandle ==
  /\ io.step \in {"pread", "closefh"}
  /\ \/ handle # Null /\ Goto("send") /\ UNCHANGED th
     \/ handle = Null /\ Return("failed")
  /\ UNCHANGED <<job, history, network, handle, queue, shut>>

(* A live server answers or denies, or the connection breaks before or     *)
(* after the request took effect; a dead context and handle 0 fail.        *)
NativeReturns ==
  /\ io.step = "native"
  /\ \/ /\ Live(io.at)
        /\ \E out \in {"ok", "denied", "failed"}, e \in {0, 1} :
             /\ out = "ok" => e = 1
             /\ out = "denied" => e = 0
             /\ io' = [io EXCEPT !.step = "judge", !.out = out]
             /\ th' = IF io.kind = "call" THEN [th EXCEPT ![Me].effects = @ + e] ELSE th
             /\ dropped' = IF out = "failed" THEN dropped \cup {memory[io.at]} ELSE dropped
     \/ /\ ~Live(io.at)
        /\ io' = [io EXCEPT !.step = "judge", !.out = "failed"]
        /\ UNCHANGED <<th, dropped>>
  /\ UNCHANGED <<job, history, memory, made, handle, queue, shut>>

(* As Judge, with a denied retry reported as a denial. *)
JudgeLateDenial ==
  /\ io.step = "judge"
  /\ \/ io.out = "ok" /\ Return("ok")
     \/ io.out = "denied" /\ handle # Null /\ Return("denied")
     \/ io.out # "ok" /\ (io.kind \notin Requests \/ io.sent = 2) /\ Return("failed")
     \/ io.out = "failed" /\ io.kind \in Requests /\ io.sent = 1 /\ Goto("drop") /\ UNCHANGED th
  /\ UNCHANGED <<job, history, network, handle, queue, shut>>

(* smbRequest: a failure that was not a denial is tried once more.         *)
Judge ==
  /\ io.step = "judge"
  /\ \/ io.out = "ok" /\ Return("ok")
     \/ io.out # "ok" /\ (io.kind \notin Requests \/ io.sent = 2) /\ Return("failed")
     \/ /\ io.out # "ok" /\ io.kind \in Requests /\ io.sent = 1
        /\ IF io.out = "denied" /\ handle # Null
             THEN Return("denied")
             ELSE Goto("drop") /\ UNCHANGED th
  /\ UNCHANGED <<job, history, network, handle, queue, shut>>

(* reconnect: forget the handle, disconnect the old context, connect.      *)
Drop ==
  /\ io.step = "drop"
  /\ handle' = Null
  /\ Enter(IF handle = Null THEN "connect" ELSE "free", handle)
  /\ UNCHANGED <<job, history, network, queue, shut, th>>

Free ==
  /\ io.step = "free"
  /\ memory' = [memory EXCEPT ![io.at] = NoConn]
  /\ IF io.kind = "disconnect" THEN Return("ok") ELSE Goto("connect") /\ UNCHANGED th
  /\ freedUnder' = freedUnder \cup Using(io.at)
  /\ UNCHANGED <<job, renewedUnder, dropped, made, handle, queue, shut>>

(* As Connect, stopping the pool when no connection is made. *)
ConnectGivesUp ==
  /\ io.step = "connect"
  /\ \/ \E a \in Addresses :
          /\ memory[a] = NoConn /\ made < MaxConns
          /\ memory' = [memory EXCEPT ![a] = made + 1]
          /\ made' = made + 1
          /\ handle' = a
          /\ renewedUnder' = renewedUnder \cup Overtaken(a)
          /\ Goto("send") /\ UNCHANGED <<queue, th>>
     \/ handle' = Null /\ queue' = <<>> /\ UNCHANGED <<renewedUnder, memory, made>> /\ Return("failed")
  /\ UNCHANGED <<job, freedUnder, dropped, shut>>

Connect ==
  /\ io.step = "connect"
  /\ \/ \E a \in Addresses :
          /\ memory[a] = NoConn /\ made < MaxConns
          /\ memory' = [memory EXCEPT ![a] = made + 1]
          /\ made' = made + 1
          /\ handle' = a
          /\ renewedUnder' = renewedUnder \cup Overtaken(a)
          /\ Goto("send") /\ UNCHANGED th
     \/ handle' = Null /\ UNCHANGED <<renewedUnder, memory, made>> /\ Return("failed")
  /\ UNCHANGED <<job, freedUnder, dropped, queue, shut>>

(* The link breaks while nothing is said on it (POLLHUP on screen-off).    *)
LinkBreaks ==
  /\ \E c \in Conns \ dropped : c <= made /\ dropped' = dropped \cup {c}
  /\ UNCHANGED <<job, history, memory, made, handle, queue, io, shut, th>>

------------------------------------------------------------------------------

IoStep ==
  \/ Take \/ EnsureConnected \/ Send \/ EnterStream \/ EnterHandle \/ NativeReturns
  \/ Judge \/ Drop \/ Free \/ Connect

ThreadStep(t) ==
  \/ Start(t) \/ TakeOwner(t) \/ Read(t) \/ CheckOwner(t) \/ Write(t) \/ ReadError(t)
  \/ LeaveError(t) \/ CloseStream(t) \/ CloseTake(t) \/ CloseClear(t) \/ Shutdown(t)

Next == IoStep \/ LinkBreaks \/ \E t \in Threads : ThreadStep(t)

Spec == Init /\ [][Next]_vars

(* The io thread and the callers are scheduled; a native call returns,     *)
(* because the server answers or the connection breaks.                    *)
FairSpec == Spec /\ WF_vars(IoStep) /\ \A t \in Threads : WF_vars(ThreadStep(t))

------------------------------------------------------------------------------
(* Properties.                                                             *)

Doing(k) == {t \in Threads : job[t] \in k}
Closing == Doing({"close"})

TypeOK ==
  /\ job \in Teams
  /\ memory \in [Addresses -> {NoConn} \cup Conns]
  /\ dropped \subseteq 1..made /\ made \in Conns
  /\ handle \in Addresses \cup {Null}
  /\ queue \in Seq([who : Threads, kind : Kinds])
  /\ io = Idle \/ (io.who \in Threads /\ io.kind \in Kinds /\ io.at \in Addresses \cup {Null}
                   /\ io.sent \in 0..2 /\ th[io.who].pc = "wait")
  /\ shut \in BOOLEAN
  /\ freedUnder \subseteq Threads /\ renewedUnder \subseteq Threads

OnIo == IF io # Idle /\ io.step \in {"native", "free"} /\ io.at # Null THEN {<<io.who, io.at>>} ELSE {}
OffIo == {<<t, th[t].in>> : t \in {u \in Threads : th[u].pc = "inside"}}
Inside == OnIo \cup OffIo

OnFile(kinds) == io # Idle /\ io.step = "native" /\ io.at # Null /\ io.kind \in kinds

(* "We never reuse the old fh across contexts": a file handle is only used *)
(* on the connection it was opened on.                                     *)
OwnFile == OnFile({"read", "write", "pread", "closefh"}) => memory[io.at] = th[io.who].fh

(* close() disconnects what it took a second time, at an address that was  *)
(* given to a new context in between.                                      *)
Undone == Closing \cap freedUnder \cap renewedUnder # {}

(* close and closeHard leave nothing behind: once the pool is stopped the  *)
(* handle is 0 and no context is left but the one the io thread is freeing *)
(* right now, unless a task connected again after close took the handle.   *)
ClosedForGood ==
  shut /\ Closing \cap renewedUnder = {} =>
    /\ handle = Null
    /\ \A a \in Addresses : memory[a] # NoConn => io # Idle /\ io.step = "free" /\ io.at = a

(* "Single-threaded access" and the owner snapshot keep every thread out   *)
(* of freed memory and every file handle on its own connection, however a  *)
(* client is shared, but for these windows.  A context is entered after it *)
(* was freed only by a thread that had looked at the handle before: write  *)
(* after its owner check (252, 253), errText after a failed write (254),   *)
(* close() after taking the handle (146).  A file handle is used on        *)
(* another connection only by a write of that kind, or by a stream that a  *)
(* new connection overtook: between open and snapshot (215, 245), between  *)
(* close's check and its task (231, 261), or at the old one's address.     *)
(* All of it fails when close() disconnects twice (Undone).                *)
SafeUse ==
  /\ TypeOK /\ ClosedForGood
  /\ \/ Undone
     \/ /\ \A p \in Inside :
             memory[p[2]] = NoConn => p[1] \in freedUnder /\ (p \in OnIo => io.kind \in {"write", "disconnect"})
        /\ OnFile({"write"}) /\ Me \notin freedUnder \cup renewedUnder => memory[io.at] = th[Me].fh
        /\ OnFile({"read", "closefh"}) /\ Me \notin renewedUnder => memory[io.at] = th[Me].fh
        /\ OnFile({"pread"}) => memory[io.at] = th[Me].fh

(* What a call reports is so: success means the request took effect, and a *)
(* denial or a refused submission that it did not.  It takes effect at     *)
(* most twice, and twice only when it was sent twice.                      *)
AnswerIsTrue ==
  \A t \in Doing({"call"}) :
    /\ th[t].effects <= 2
    /\ th[t].pc = "done" =>
         /\ th[t].result = "ok" => th[t].effects >= 1
         /\ th[t].result \in {"denied", "rejected"} => th[t].effects = 0

(* "Runs a native call on the dedicated thread and waits for the result":  *)
(* a caller that waits is answered.                                        *)
CallsReturn == \A t \in Threads : (th[t].pc = "wait") ~> (th[t].pc # "wait")

(* The same where nobody closes the client.                                *)
OpenCallsReturn == (Closing = {}) => CallsReturn
==============================================================================
