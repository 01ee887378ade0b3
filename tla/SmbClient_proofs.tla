-------------------------- MODULE SmbClient_proofs --------------------------
(***************************************************************************)
(* Proofs about SmbClient for every number of threads, addresses and       *)
(* connections, and every assignment of jobs.                              *)
(*                                                                         *)
(* Queued, Serving and Told: a thread has one task, the io thread follows  *)
(* the rules of smbRequest, and a request took effect no more often than   *)
(* it was sent.  Closings and Positioned: what close() has yet to free,    *)
(* and that a dedicated client makes no second connection.  InUse, Looks   *)
(* and Streams hold until close() disconnects an address twice (Undone):   *)
(* the handle is allocated, whoever is about to use a context that was     *)
(* freed had looked before, and what a stream's owner address holds.       *)
(***************************************************************************)
EXTENDS SmbClient, SequenceTheorems, TLAPS

-----------------------------------------------------------------------------
(* The inductive invariant *)

Refs == Addresses \cup {Null}
Numbers == {NoConn} \cup Conns

\* Where a thread can be, and what it asks for, by its job.
Pcs(j) ==
  CASE j \in {"call", "pread"} -> {"start", "wait", "done"}
    [] j = "reader" -> {"start", "wait", "opened", "stream", "finish", "done"}
    [] j = "writer" -> {"start", "wait", "opened", "stream", "checked", "error", "inside", "finish", "done"}
    [] j = "close" -> {"start", "taken", "wait", "shutdown", "done"}
    [] OTHER -> {"start"}
Asks(j) ==
  CASE j = "call" -> {"call"}
    [] j = "pread" -> {"pread"}
    [] j = "reader" -> {"open", "read", "closefh"}
    [] j = "writer" -> {"open", "write", "closefh"}
    [] j = "close" -> {"disconnect"}
    [] OTHER -> {}

Places ==
  {"start", "wait", "opened", "stream", "checked", "error", "inside", "finish", "taken", "shutdown", "done"}
ThreadRecords ==
  [pc : Places, fh : Numbers, owner : Refs, in : Refs, effects : Nat,
   result : {"none", "ok", "denied", "failed", "rejected"}]
Tasks == [who : Threads, kind : Kinds]
Works ==
  [step : Kinds \cup {"send", "native", "judge", "drop", "free", "connect"}, kind : Kinds,
   who : Threads, at : Refs, sent : 0..2, out : {"none", "ok", "denied", "failed"}]

Types ==
  /\ job \in Teams
  /\ memory \in [Addresses -> 0..made] /\ dropped \subseteq 1..made /\ made \in Conns
  /\ handle \in Refs /\ queue \in Seq(Tasks) /\ io \in Works \cup {Idle} /\ shut \in BOOLEAN
  /\ th \in [Threads -> ThreadRecords] /\ \A t \in Threads : th[t].pc \in Pcs(job[t])
  /\ freedUnder \subseteq Threads /\ renewedUnder \subseteq Threads

Busy == io # Idle

\* A thread has one task at most, one of its job, and waits for it.
Submitted(t, k) == th[t].pc = "wait" /\ k \in Asks(job[t])
Queued ==
  /\ \A i \in 1..Len(queue) : Submitted(queue[i].who, queue[i].kind)
  /\ \A i, j \in 1..Len(queue) : queue[i].who = queue[j].who => i = j
  /\ Busy => Submitted(io.who, io.kind) /\ \A i \in 1..Len(queue) : queue[i].who # io.who
  /\ shut => \E c \in Closing : th[c].pc = "done"

\* How far the io thread is with its task.
Serving ==
  Busy =>
    /\ io.step \in Kinds => io.kind = io.step /\ io.sent = 0
    /\ io.kind \in {"read", "write"} =>
         io.step = io.kind \/ (io.step \in {"native", "judge"} /\ io.at = th[io.who].owner)
    /\ io.kind \in {"pread", "closefh"} => io.step \in {io.kind, "send", "native", "judge"}
    /\ io.kind = "disconnect" => io.step = "free" /\ io.at = th[io.who].owner
    /\ io.step \in {"send", "drop", "free", "connect"} => io.sent <= 1
    /\ io.kind \in Requests /\ io.step \in {"native", "judge"} => io.sent >= 1
    /\ io.kind \in Requests /\ io.step \in {"free", "connect"} => handle = Null
    /\ io.step = "judge" /\ io.out = "ok" => io.at # Null

\* What may have happened to the request of caller t.
ToldOf(t) ==
  /\ th[t].pc = "start" => th[t].effects = 0
  /\ \A i \in 1..Len(queue) : queue[i].who = t => th[t].effects = 0
  /\ Busy /\ io.who = t =>
       /\ th[t].effects <= io.sent
       /\ io.step = "native" => th[t].effects < io.sent
       /\ io.step = "judge" /\ io.out = "ok" => th[t].effects >= 1
       /\ io.step = "judge" /\ io.out = "denied" /\ io.sent = 1 => th[t].effects = 0
Told == \A t \in Doing({"call"}) : ToldOf(t)

\* What close has taken, and what else is allocated.
Freeing(a) == Busy /\ io.step = "free" /\ io.at = a
ClosingOf(c) ==
  /\ th[c].pc = "wait" => Awaits(c, {"disconnect"}) \/ (Busy /\ io.who = c)
  /\ th[c].pc = "start" \/ c \notin renewedUnder =>
       \A a \in Addresses : memory[a] # NoConn =>
         a = handle \/ Freeing(a) \/ (th[c].pc \in {"taken", "wait"} /\ th[c].owner = a)
  /\ c \notin renewedUnder =>
       /\ th[c].pc = "taken" => handle \in {th[c].owner, Null}
       /\ th[c].pc \in {"wait", "shutdown", "done"} => handle = Null
Closings == \A c \in Closing : ClosingOf(c)

\* A dedicated client makes no second connection.
Positioned ==
  Doing({"pread"}) # {} =>
    /\ \A a \in Addresses : memory[a] \in {NoConn, 1}
    /\ \A t \in Doing({"pread"}) : th[t].fh = 1

\* The handle is a connection's, and so is what the io thread is inside of, but for
\* the uses of a handle that was looked at before.
InUse ==
  /\ handle # Null => memory[handle] # NoConn
  /\ \A c \in Closing : th[c].pc = "wait" => th[c].owner # Null /\ th[c].owner # handle
  /\ Busy /\ io.step \in {"native", "free"} /\ io.at # Null =>
       memory[io.at] # NoConn \/ (io.kind \in {"write", "disconnect"} /\ io.who \in freedUnder)
  /\ Busy /\ io.step = "free" => io.at # Null
  /\ Busy /\ io.step \in {"native", "judge"} /\ io.kind \notin {"write", "disconnect"} => handle \in {io.at, Null}

\* Who is about to use context a, which the handle was when it looked.
Serves(t) == Busy /\ io.who = t
Holds(t, a) ==
  t \in Using(a) \/ (th[t].owner = a /\ Serves(t) /\ (io.step = "write" \/ io.kind = "disconnect"))
Looks ==
  /\ \A t \in Threads, a \in Addresses : memory[a] = NoConn /\ Holds(t, a) => t \in freedUnder
  /\ \A t \in Threads : th[t].pc = "inside" => th[t].in # Null

\* What a stream knows that no new connection overtook: its owner's address has its
\* connection or none, and so has the handle that its close will use.
Stream(t) == job[t] \in {"reader", "writer"}
Files == {"read", "write", "closefh"}
Does(t, ks) == Awaits(t, ks) \/ (Serves(t) /\ io.kind \in ks)
On(t) == th[t].pc \in {"stream", "checked", "error", "inside", "finish"}
StreamOf(s) ==
  /\ th[s].pc = "opened" /\ handle # Null => memory[handle] = th[s].fh
  /\ (On(s) \/ Does(s, Files)) /\ th[s].owner # Null => memory[th[s].owner] \in {th[s].fh, NoConn}
  /\ Does(s, {"closefh"}) => handle \in {th[s].owner, Null}
  /\ Serves(s) /\ io.kind = "closefh" /\ io.step = "native" => io.at \in {th[s].owner, Null}
Streams == \A s \in Threads \ renewedUnder : Stream(s) => StreamOf(s)

IInv ==
  /\ Types /\ Queued /\ Serving /\ Told /\ AnswerIsTrue
  /\ Closings /\ Positioned
  /\ Undone \/ (InUse /\ Looks /\ Streams)

-----------------------------------------------------------------------------
(* Steps of the callers *)

LEMMA Facts ==
  /\ NoConn = 0 /\ MaxConns \in Nat \ {0} /\ Null \notin Addresses
  /\ Idle \notin Works /\ Idle.step = "idle"
  /\ \A j \in Jobs : Pcs(j) \subseteq Places /\ Asks(j) \subseteq Kinds
  /\ \A team \in Teams : team \in [Threads -> Jobs]
  /\ \A team \in Teams : \A t, u \in Threads :
       /\ team[t] = "close" /\ team[u] = "close" => t = u
       /\ team[t] = "pread" => team[u] \in {"pread", "close", "none"}
<1>1. Idle \notin Works /\ Idle.step = "idle"
  BY DEF Idle, Works
<1>2. \A j \in Jobs : Pcs(j) \subseteq Places /\ Asks(j) \subseteq Kinds
  BY DEF Jobs, Pcs, Places, Asks, Kinds, Requests
<1> QED BY <1>1, <1>2, SmbAssumption DEF SmbAssumption, NoConn

\* exec: the task is queued and the caller waits, or the pool refuses it.
LEMMA ExecEffect ==
  ASSUME Types, NEW t \in Threads, NEW k \in Kinds, Exec(t, k)
  PROVE  /\ th' \in [Threads -> ThreadRecords] /\ \A u \in Threads \ {t} : th'[u] = th[u]
         /\ th'[t].fh = th[t].fh /\ th'[t].owner = th[t].owner /\ th'[t].in = th[t].in
         /\ th'[t].effects = th[t].effects
         /\ \/ shut /\ th'[t].pc = "done" /\ th'[t].result = "rejected" /\ queue' = queue
            \/ /\ ~shut /\ th'[t].pc = "wait" /\ th'[t].result = th[t].result
               /\ queue' = Append(queue, Task(t, k))
<1>1. th \in [Threads -> ThreadRecords]
  BY DEF Types
<1>2. CASE shut
  <2>1. th' = [th EXCEPT ![t] = [@ EXCEPT !.pc = "done", !.result = "rejected"]] /\ queue' = queue
    BY <1>1, <1>2 DEF Exec, ThreadRecords
  <2> QED BY <1>1, <1>2, <2>1 DEF ThreadRecords, Places
<1>3. CASE ~shut
  <2>1. th' = [th EXCEPT ![t].pc = "wait"] /\ queue' = Append(queue, Task(t, k))
    BY <1>3 DEF Exec
  <2> HIDE DEF Task
  <2> QED BY <1>1, <1>3, <2>1 DEF ThreadRecords, Places
<1> QED BY <1>2, <1>3

\* What a step of thread t leaves alone.
Own(t) ==
  /\ UNCHANGED <<job, history, memory, dropped, made, io>>
  /\ th' \in [Threads -> ThreadRecords] /\ \A u \in Threads \ {t} : th'[u] = th[u]
  /\ th[t].pc \notin {"wait", "done"} /\ th'[t].pc \in Pcs(job[t])
  /\ th'[t].fh = th[t].fh /\ th'[t].effects = th[t].effects

\* It submits one task of its job, or none and its result stays what it was.
Asking(t) ==
  \E k \in Asks(job[t]) :
    /\ th'[t].result = th[t].result /\ th'[t].pc = "wait" /\ queue' = Append(queue, Task(t, k))
Quiet(t) ==
  /\ th'[t].pc # "wait" /\ queue' = queue
  /\ \/ th'[t].result = th[t].result /\ (job[t] = "call" => th'[t].pc # "done")
     \/ th'[t].result = "rejected" /\ th'[t].pc = "done"

Framed(t) ==
  /\ Own(t)
  /\ \/ /\ Asking(t) \/ Quiet(t)
        /\ UNCHANGED shut
        /\ UNCHANGED handle \/ (handle' = Null /\ job[t] = "close" /\ th[t].pc = "taken")
     \/ /\ job[t] = "close" /\ th[t].pc = "shutdown" /\ th'[t].pc = "done" /\ UNCHANGED handle
        /\ queue' = <<>> /\ shut' = TRUE

LEMMA ThreadFrame == ASSUME Types, NEW t \in Threads, ThreadStep(t) PROVE Framed(t)
<1>0. /\ job[t] \in Jobs /\ th[t].pc \in Pcs(job[t]) /\ th \in [Threads -> ThreadRecords]
      /\ Asks(job[t]) \subseteq Kinds
  BY Facts DEF Types
<1>1. ASSUME NEW k \in Asks(job[t]), Exec(t, k), th[t].pc \notin {"wait", "done"}, "done" \in Pcs(job[t]), "wait" \in Pcs(job[t]),
             UNCHANGED <<job, history, network, io, shut>>,
             UNCHANGED handle \/ (handle' = Null /\ job[t] = "close" /\ th[t].pc = "taken")
      PROVE  Framed(t)
  <2>1. k \in Kinds
    BY <1>0, <1>1
  <2> QED BY <1>1, <2>1, ExecEffect DEF Framed, Own, Asking, Quiet, network
<1> DEFINE Walks == /\ th' \in [Threads -> ThreadRecords] /\ \A u \in Threads \ {t} : th'[u] = th[u]
                    /\ th'[t].fh = th[t].fh /\ th'[t].effects = th[t].effects
                    /\ th'[t].result = th[t].result
<1>2. ASSUME Walks, th[t].pc \notin {"wait", "done"}, th'[t].pc # "wait", th'[t].pc \in Pcs(job[t]),
             job[t] = "call" => th'[t].pc # "done",
             UNCHANGED <<job, history, network, io, shut, queue>>,
             UNCHANGED handle \/ (handle' = Null /\ job[t] = "close" /\ th[t].pc = "taken")
      PROVE  Framed(t)
  BY <1>2 DEF Framed, Own, Quiet, network
<1>3. handle \in Refs /\ Null \in Refs
  BY DEF Types, Refs
<1>4. CASE Start(t)
  <2>1. PICK k \in Asks(job[t]) : \/ Exec(t, k)
                                 \/ /\ job[t] = "pread" /\ queue' = queue
                                    /\ th' = [th EXCEPT ![t].pc = "done"]
    BY <1>4 DEF Start, Asks
  <2>2. th[t].pc = "start" /\ UNCHANGED <<job, history, network, io, shut, handle>>
    BY <1>4 DEF Start
  <2>3. "done" \in Pcs(job[t]) /\ "wait" \in Pcs(job[t])
    BY <1>0, <2>1 DEF Pcs, Asks, Jobs
  <2>4. CASE Exec(t, k)
    BY <1>1, <2>2, <2>3, <2>4
  <2>5. CASE job[t] = "pread" /\ queue' = queue /\ th' = [th EXCEPT ![t].pc = "done"]
    <3>1. Walks /\ th'[t].pc = "done"
      BY <1>0, <2>5 DEF ThreadRecords, Places
    <3> HIDE DEF Walks
    <3> QED BY <1>2, <2>2, <2>3, <2>5, <3>1
  <2> QED BY <2>1, <2>4, <2>5
<1>5. CASE TakeOwner(t) \/ CheckOwner(t) \/ ReadError(t) \/ LeaveError(t) \/ CloseTake(t)
  <2>1. Walks /\ th'[t].pc # "wait"
    BY <1>0, <1>3, <1>5 DEF TakeOwner, CheckOwner, ReadError, LeaveError, CloseTake, ThreadRecords, Places
  <2>2. th'[t].pc \in Pcs(job[t]) /\ (job[t] = "call" => th'[t].pc # "done")
    BY <1>0, <1>5 DEF TakeOwner, CheckOwner, ReadError, LeaveError, CloseTake, Pcs, ThreadRecords
  <2>3. th[t].pc \notin {"wait", "done"} /\ UNCHANGED <<job, history, network, io, shut, queue, handle>>
    BY <1>5 DEF TakeOwner, CheckOwner, ReadError, LeaveError, CloseTake
  <2> HIDE DEF Walks
  <2> QED BY <1>2, <2>1, <2>2, <2>3
<1>6. CASE Read(t) \/ Write(t)
  <2>1. PICK k \in Asks(job[t]) : Exec(t, k)
    BY <1>0, <1>6 DEF Read, Write, Asks, Pcs, Jobs
  <2>2. /\ "done" \in Pcs(job[t]) /\ "wait" \in Pcs(job[t]) /\ th[t].pc \notin {"wait", "done"}
        /\ UNCHANGED <<job, history, network, io, shut, handle>>
    BY <1>0, <1>6 DEF Read, Write, Pcs
  <2> QED BY <1>1, <2>1, <2>2
<1>7. CASE CloseStream(t)
  <2>1. /\ job[t] \in {"reader", "writer"} /\ th[t].pc \notin {"wait", "done"} /\ UNCHANGED <<job, history, network, io, shut, handle>>
        /\ "done" \in Pcs(job[t]) /\ "wait" \in Pcs(job[t]) /\ "closefh" \in Asks(job[t])
    BY <1>0, <1>7 DEF CloseStream, Pcs, Asks
  <2>2. CASE Exec(t, "closefh")
    BY <1>1, <2>1, <2>2
  <2>3. CASE th' = [th EXCEPT ![t].pc = "done"] /\ queue' = queue
    <3>1. Walks /\ th'[t].pc = "done"
      BY <1>0, <2>3 DEF ThreadRecords, Places
    <3> HIDE DEF Walks
    <3> QED BY <1>2, <2>1, <2>3, <3>1
  <2> QED BY <1>7, <2>2, <2>3 DEF CloseStream
<1>8. CASE CloseClear(t)
  <2>1. /\ th[t].pc = "taken" /\ handle' = Null /\ UNCHANGED <<job, history, network, io, shut>> /\ job[t] = "close"
    BY <1>0, <1>8 DEF CloseClear, Pcs
  <2>2. /\ "shutdown" \in Pcs(job[t]) /\ "done" \in Pcs(job[t]) /\ "wait" \in Pcs(job[t])
        /\ "disconnect" \in Asks(job[t])
    BY <2>1 DEF Pcs, Asks
  <2>3. CASE th' = [th EXCEPT ![t].pc = "shutdown"] /\ queue' = queue
    <3>1. Walks /\ th'[t].pc = "shutdown"
      BY <1>0, <2>3 DEF ThreadRecords, Places
    <3> HIDE DEF Walks
    <3> QED BY <1>2, <2>1, <2>2, <2>3, <3>1
  <2>4. CASE Exec(t, "disconnect")
    BY <1>1, <2>1, <2>2, <2>4
  <2> QED BY <1>8, <2>3, <2>4 DEF CloseClear
<1>9. CASE Shutdown(t)
  <2>1. th[t].pc = "shutdown" /\ job[t] = "close"
    BY <1>0, <1>9 DEF Shutdown, Pcs
  <2>2. Walks /\ th'[t].pc = "done"
    BY <1>0, <1>9 DEF Shutdown, ThreadRecords, Places
  <2> QED BY <1>9, <2>1, <2>2 DEF Shutdown, Framed, Own, Pcs, network
<1> QED
  BY <1>4, <1>5, <1>6, <1>7, <1>8, <1>9, Zenon DEF ThreadStep

-----------------------------------------------------------------------------
(* Steps of the io thread *)

LEMMA NextCases ==
  ASSUME Next
  PROVE  \/ Take \/ EnsureConnected \/ Send \/ EnterStream \/ EnterHandle \/ NativeReturns
         \/ Judge \/ Drop \/ Free \/ Connect \/ LinkBreaks
         \/ \E t \in Threads : ThreadStep(t)
  BY Zenon DEF Next, IoStep

\* The task that runs, field by field.
LEMMA WorkTypes ==
  ASSUME Types, Busy
  PROVE  /\ io \in Works /\ io.who \in Threads /\ io.kind \in Kinds /\ io.at \in Refs /\ io.sent \in 0..2
         /\ th[io.who] \in ThreadRecords /\ job[io.who] \in Jobs
<1>1. io \in Works /\ io.who \in Threads
  BY DEF Types, Busy, Works
<1>2. job[io.who] \in Jobs
  BY <1>1, Facts DEF Types
<1> QED BY <1>1, <1>2 DEF Types, Works

\* It goes on to another step, with some of its fields changed.
Goes(step, a, n, out) ==
  /\ io' \in Works /\ io' # Idle
  /\ io'.who = io.who /\ io'.kind = io.kind
  /\ io'.step = step /\ io'.at = a /\ io'.sent = n /\ io'.out = out

LEMMA GoesOn ==
  ASSUME Types, Busy
  PROVE  /\ \A step \in {"send", "native", "judge", "drop", "free", "connect"} :
              Goto(step) => Goes(step, io.at, io.sent, io.out)
         /\ \A step \in {"native", "free", "connect"}, a \in Refs :
              Enter(step, a) => Goes(step, a, io.sent, io.out)
<1>0. io \in Works
  BY WorkTypes
<1>1. ASSUME NEW step \in {"send", "native", "judge", "drop", "free", "connect"}, NEW a \in Refs,
             io' = [io EXCEPT !.step = step, !.at = a]
      PROVE  Goes(step, a, io.sent, io.out)
  <2>1. io' \in Works
    BY <1>0, <1>1 DEF Works
  <2>2. io' # Idle
    BY <2>1, Facts
  <2> QED BY <1>0, <1>1, <2>1, <2>2 DEF Goes, Works
<1>2. \A step : Goto(step) => io' = [io EXCEPT !.step = step, !.at = io.at] /\ io.at \in Refs
  BY <1>0 DEF Goto, Works
<1> QED BY <1>1, <1>2 DEF Enter

\* Or it is done and its caller goes on with the result.
Returns(r) ==
  /\ io' = Idle
  /\ th' \in [Threads -> ThreadRecords] /\ \A u \in Threads \ {io.who} : th'[u] = th[u]
  /\ th'[io.who].pc = After(io.kind, r) /\ th'[io.who].result = r
  /\ th'[io.who].owner = th[io.who].owner /\ th'[io.who].in = th[io.who].in
  /\ th'[io.who].effects = th[io.who].effects
  /\ th'[io.who].fh = IF io.kind = "open" /\ r = "ok" THEN memory[io.at] ELSE th[io.who].fh
  /\ th'[io.who].pc \in Pcs(job[io.who]) /\ th'[io.who].pc # "wait"

LEMMA ReturnEffect ==
  ASSUME Types, Queued, Busy, NEW r \in {"ok", "denied", "failed"}, Return(r),
         io.kind = "open" /\ r = "ok" => io.at # Null
  PROVE  Returns(r)
<1> DEFINE w == io.who
           fh == IF io.kind = "open" /\ r = "ok" THEN memory[io.at] ELSE th[w].fh
<1>1. w \in Threads /\ th[w] \in ThreadRecords /\ th \in [Threads -> ThreadRecords] /\ io.kind \in Asks(job[w])
  BY WorkTypes DEF Types, Queued, Submitted
<1>2. After(io.kind, r) \in Pcs(job[w]) /\ After(io.kind, r) # "wait"
  BY <1>1, WorkTypes DEF After, Pcs, Asks, Jobs
<1>3. fh \in Numbers
  BY <1>1, WorkTypes, Facts DEF Types, Refs, ThreadRecords, Numbers, Conns, NoConn
<1>4. After(io.kind, r) \in Places
  BY <1>2, WorkTypes, Facts
<1>5. io' = Idle /\ th' = [th EXCEPT ![w] = [@ EXCEPT !.result = r, !.pc = After(io.kind, r), !.fh = fh]]
  BY <1>1 DEF Return, Me, ThreadRecords
<1> HIDE DEF fh
<1>6. /\ th' \in [Threads -> ThreadRecords] /\ \A u \in Threads \ {w} : th'[u] = th[u]
      /\ th'[w] = [th[w] EXCEPT !.result = r, !.pc = After(io.kind, r), !.fh = fh]
  <2>1. [th[w] EXCEPT !.result = r, !.pc = After(io.kind, r), !.fh = fh] \in ThreadRecords
    BY <1>1, <1>3, <1>4 DEF ThreadRecords
  <2> QED BY <1>1, <1>5, <2>1
<1> QED BY <1>1, <1>2, <1>5, <1>6 DEF Returns, ThreadRecords, fh

\* What each step of the io thread does to the task and its caller.
IoEffect ==
  \/ /\ Take /\ io = Idle /\ queue # <<>> /\ queue' = Tail(queue) /\ io' \in Works /\ io' # Idle
     /\ io'.who = Head(queue).who /\ io'.kind = Head(queue).kind /\ io'.sent = 0
     /\ IF io'.kind = "disconnect" THEN io'.step = "free" /\ io'.at = th[io'.who].owner
                                   ELSE io'.step = io'.kind
     /\ UNCHANGED <<job, history, network, handle, shut, th>>
  \/ /\ Busy /\ UNCHANGED <<job, history, network, handle, queue, shut>>
     /\ \/ /\ UNCHANGED th
           /\ \/ io.step \in Requests /\ handle = Null /\ Goes("drop", io.at, io.sent, io.out)
              \/ io.step \in Requests /\ handle # Null /\ Goes("send", io.at, io.sent, io.out)
              \/ io.step \in {"pread", "closefh"} /\ handle # Null /\ Goes("send", io.at, io.sent, io.out)
              \/ io.step = "send" /\ Goes("native", handle, io.sent + 1, io.out)
              \/ io.step = "read" /\ handle = th[io.who].owner /\ Goes("native", th[io.who].owner, io.sent, io.out)
              \/ io.step = "write" /\ Goes("native", th[io.who].owner, io.sent, io.out)
              \/ /\ io.step = "judge" /\ io.out # "ok" /\ io.kind \in Requests /\ io.sent = 1
                 /\ Goes("drop", io.at, io.sent, io.out)
        \/ io.step = "read" /\ handle # th[io.who].owner /\ Returns("failed")
        \/ io.step \in {"pread", "closefh"} /\ handle = Null /\ Returns("failed")
        \/ io.step = "judge" /\ io.out = "ok" /\ Returns("ok")
        \/ io.step = "judge" /\ io.out # "ok" /\ Returns("failed")
        \/ io.step = "judge" /\ io.out = "denied" /\ io.kind \in Requests /\ io.sent = 1 /\ Returns("denied")
  \/ /\ Busy /\ io.step = "native" /\ UNCHANGED <<job, history, memory, made, handle, queue, shut>>
     /\ \E out \in {"ok", "denied", "failed"}, e \in {0, 1} :
          /\ Goes("judge", io.at, io.sent, out)
          /\ (out = "ok" => e = 1 /\ io.at # Null) /\ (out = "denied" => e = 0)
          /\ dropped' \subseteq 1..made
          /\ th' \in [Threads -> ThreadRecords] /\ \A u \in Threads \ {io.who} : th'[u] = th[u]
          /\ th'[io.who] = IF io.kind = "call" THEN [th[io.who] EXCEPT !.effects = @ + e] ELSE th[io.who]
  \/ /\ Busy /\ io.step = "drop" /\ handle' = Null /\ UNCHANGED <<job, history, network, queue, shut, th>>
     /\ \/ handle = Null /\ Goes("connect", handle, io.sent, io.out)
        \/ handle # Null /\ Goes("free", handle, io.sent, io.out)
  \/ /\ Busy /\ io.step = "free" /\ UNCHANGED <<job, renewedUnder, dropped, made, handle, queue, shut>>
     /\ memory' = [memory EXCEPT ![io.at] = NoConn] /\ freedUnder' = freedUnder \cup Using(io.at)
     /\ \/ io.kind = "disconnect" /\ Returns("ok")
        \/ io.kind # "disconnect" /\ Goes("connect", io.at, io.sent, io.out) /\ UNCHANGED th
  \/ /\ Busy /\ io.step = "connect" /\ UNCHANGED <<job, freedUnder, dropped, queue, shut>>
     /\ \/ \E a \in Addresses :
             /\ memory[a] = NoConn /\ made + 1 \in Conns
             /\ memory' = [memory EXCEPT ![a] = made + 1] /\ made' = made + 1 /\ handle' = a
             /\ renewedUnder' = renewedUnder \cup Overtaken(a)
             /\ Goes("send", io.at, io.sent, io.out) /\ UNCHANGED th
        \/ handle' = Null /\ UNCHANGED <<renewedUnder, memory, made>> /\ Returns("failed")

LEMMA IoFrame == ASSUME Types, Queued, Serving, IoStep PROVE IoEffect
<1>0. io.step # "idle" => Busy
  BY Facts DEF Busy
<1>1. CASE Take
  <2>1. Head(queue) \in Tasks /\ queue # <<>>
    BY <1>1, HeadTailProperties, LenProperties, EmptySeq DEF Take, Types
  <2>2. Head(queue).who \in Threads /\ Head(queue).kind \in Kinds /\ th[Head(queue).who].owner \in Refs
    BY <2>1 DEF Tasks, Types, ThreadRecords
  <2>3. io' \in Works
    BY <1>1, <2>2 DEF Take, Works, Refs
  <2>4. io' # Idle
    BY <2>3, Facts
  <2> QED BY <1>1, <2>1, <2>3, <2>4 DEF Take, IoEffect
<1>2. CASE EnsureConnected
  <2>1. Busy /\ io.step \in Requests
    BY <1>0, <1>2 DEF EnsureConnected, Requests
  <2> QED BY <1>2, <2>1, GoesOn DEF EnsureConnected, IoEffect
<1>3. CASE Send
  <2>1. Busy /\ io.step = "send" /\ io.sent <= 1
    BY <1>0, <1>3 DEF Send, Serving
  <2>2. Goes("native", handle, io.sent + 1, io.out)
    <3>1. io \in Works /\ handle \in Refs /\ io.sent + 1 \in 0..2
      BY <2>1, WorkTypes DEF Types, Works
    <3>2. io' = [io EXCEPT !.step = "native", !.at = handle, !.sent = io.sent + 1]
      BY <1>3, <3>1 DEF Send, Works
    <3>3. io' \in Works
      BY <3>1, <3>2 DEF Works
    <3>4. io' # Idle
      BY <3>3, Facts
    <3> QED BY <3>1, <3>2, <3>3, <3>4 DEF Goes, Works
  <2> QED BY <1>3, <2>1, <2>2 DEF Send, IoEffect
<1>4. CASE EnterStream
  <2>1. Busy /\ io.step \in {"read", "write"} /\ io.kind = io.step
    BY <1>0, <1>4 DEF EnterStream, Serving, Kinds
  <2>2. th[io.who].owner \in Refs
    BY <2>1, WorkTypes DEF ThreadRecords
  <2>3. Return("failed") => Returns("failed")
    BY <2>1, ReturnEffect
  <2> QED BY <1>4, <2>1, <2>2, <2>3, GoesOn DEF EnterStream, IoEffect, Me
<1>5. CASE EnterHandle
  <2>1. Busy /\ io.step \in {"pread", "closefh"}
    BY <1>0, <1>5 DEF EnterHandle
  <2>2. Return("failed") => Returns("failed")
    BY <2>1, ReturnEffect
  <2> QED BY <1>5, <2>1, <2>2, GoesOn DEF EnterHandle, IoEffect
<1>6. CASE NativeReturns
  <2>1. Busy /\ io.step = "native" /\ UNCHANGED <<job, history, memory, made, handle, queue, shut>>
    BY <1>0, <1>6 DEF NativeReturns
  <2>2. PICK out \in {"ok", "denied", "failed"}, e \in {0, 1} :
          /\ (out = "ok" => e = 1 /\ Live(io.at)) /\ (out = "denied" => e = 0)
          /\ io' = [io EXCEPT !.step = "judge", !.out = out]
          /\ th' = (IF io.kind = "call" THEN [th EXCEPT ![io.who].effects = @ + e] ELSE th)
          /\ dropped' = dropped \/ (Live(io.at) /\ dropped' = dropped \cup {memory[io.at]})
    <3>1. CASE ~Live(io.at)
      <4>0. th \in [Threads -> ThreadRecords] /\ io.who \in Threads /\ th[io.who].effects + 0 = th[io.who].effects
        BY <2>1, WorkTypes DEF ThreadRecords, Types
      <4>1. th = [th EXCEPT ![io.who].effects = @ + 0]
        BY <4>0 DEF ThreadRecords
      <4> QED BY <1>6, <3>1, <4>1 DEF NativeReturns, Me
    <3>2. CASE Live(io.at)
      BY <1>6, <3>2 DEF NativeReturns, Me
    <3> QED BY <3>1, <3>2
  <2>3. Goes("judge", io.at, io.sent, out)
    BY <2>1, <2>2, WorkTypes, Facts DEF Goes, Works
  <2>4. /\ th' \in [Threads -> ThreadRecords] /\ \A u \in Threads \ {io.who} : th'[u] = th[u]
        /\ th'[io.who] = IF io.kind = "call" THEN [th[io.who] EXCEPT !.effects = @ + e] ELSE th[io.who]
    <3>1. io.who \in Threads /\ th[io.who] \in ThreadRecords /\ th \in [Threads -> ThreadRecords]
      BY <2>1, WorkTypes DEF Types
    <3>2. [th[io.who] EXCEPT !.effects = @ + e] \in ThreadRecords
      BY <2>2, <3>1 DEF ThreadRecords
    <3> QED BY <2>2, <3>1, <3>2
  <2>5. dropped' \subseteq 1..made
    <3>1. Live(io.at) => memory[io.at] \in 1..made
      BY <2>1, WorkTypes, Facts DEF Types, Live, Refs, Conns
    <3> QED BY <2>2, <3>1 DEF Types
  <2>6. out = "ok" => io.at # Null
    BY <2>2 DEF Live
  <2> QED BY <2>1, <2>2, <2>3, <2>4, <2>5, <2>6 DEF IoEffect
<1>7. CASE Judge
  <2>1. Busy /\ io.step = "judge" /\ (io.out = "ok" => io.at # Null)
    BY <1>0, <1>7 DEF Judge, Serving
  <2>2. /\ (io.out = "ok" /\ Return("ok")) => Returns("ok")
        /\ Return("failed") => Returns("failed")
        /\ Return("denied") => Returns("denied")
    BY <2>1, ReturnEffect
  <2> QED BY <1>7, <2>1, <2>2, GoesOn DEF Judge, IoEffect
<1>8. CASE Drop
  <2>1. Busy /\ io.step = "drop" /\ handle \in Refs
    BY <1>0, <1>8 DEF Drop, Types
  <2> QED BY <1>8, <2>1, GoesOn DEF Drop, IoEffect
<1>9. CASE Free
  <2>1. Busy /\ io.step = "free"
    BY <1>0, <1>9 DEF Free
  <2>2. io.kind = "disconnect" /\ Return("ok") => Returns("ok")
    BY <2>1, ReturnEffect
  <2> QED BY <1>9, <2>1, <2>2, GoesOn DEF Free, IoEffect
<1>10. CASE Connect
  <2>1. Busy /\ io.step = "connect"
    BY <1>0, <1>10 DEF Connect
  <2>2. Return("failed") => Returns("failed")
    BY <2>1, ReturnEffect
  <2>3. made < MaxConns => made + 1 \in Conns
    BY Facts DEF Types, Conns
  <2> QED BY <1>10, <2>1, <2>2, <2>3, GoesOn DEF Connect, IoEffect
<1> QED
  BY <1>1, <1>2, <1>3, <1>4, <1>5, <1>6, <1>7, <1>8, <1>9, <1>10, Zenon DEF IoStep

\* A thread step, an io step, a broken link or nothing.
LEMMA Cases ==
  ASSUME Types, Queued, Serving, [Next]_vars
  PROVE  \/ \E t \in Threads : Framed(t)
         \/ IoEffect
         \/ dropped' \subseteq 1..made /\ UNCHANGED <<job, history, memory, made, handle, queue, io, shut, th>>
<1>1. CASE LinkBreaks
  <2>1. dropped' \subseteq 1..made
    BY <1>1 DEF LinkBreaks, Types, Conns
  <2> QED BY <1>1, <2>1 DEF LinkBreaks
<1>2. CASE UNCHANGED vars
  BY <1>2 DEF vars, network, Types
<1>3. CASE IoStep
  BY <1>3, IoFrame
<1>4. ASSUME NEW t \in Threads, ThreadStep(t) PROVE Framed(t)
  BY <1>4, ThreadFrame
<1> QED BY <1>1, <1>2, <1>3, <1>4, Zenon DEF Next

LEMMA TypesStep ==
  ASSUME Types, Queued, Serving, [Next]_vars PROVE Types'
<1>0. /\ \A t \in Threads : job[t] \in Jobs /\ th[t] \in ThreadRecords
      /\ Null \in Refs /\ Addresses \subseteq Refs /\ (made \in Nat)
  BY Facts DEF Types, Refs, Conns
<1>1. ASSUME NEW t \in Threads, Framed(t) PROVE Types'
  <2>1. queue' \in Seq(Tasks)
    <3>1. ASSUME NEW k \in Asks(job[t]), queue' = Append(queue, Task(t, k)) PROVE queue' \in Seq(Tasks)
      <4>1. Task(t, k) \in Tasks
        BY <1>0, <3>1, Facts DEF Task, Tasks
      <4> QED BY <3>1, <4>1, AppendProperties, LenProperties DEF Types
    <3>2. <<>> \in Seq(Tasks) /\ queue \in Seq(Tasks)
      BY DEF Types
    <3>3. queue' = queue \/ queue' = <<>> \/ \E k \in Asks(job[t]) : queue' = Append(queue, Task(t, k))
      BY <1>1, Zenon DEF Framed, Asking, Quiet
    <3> QED BY <3>1, <3>2, <3>3, Zenon
  <2>2. UNCHANGED <<job, memory, dropped, made, io, freedUnder, renewedUnder>>
    BY <1>1 DEF Framed, Own, history
  <2>3. handle' \in Refs /\ shut' \in BOOLEAN
    BY <1>0, <1>1 DEF Framed, Types
  <2>4. th' \in [Threads -> ThreadRecords] /\ \A u \in Threads : th'[u].pc \in Pcs(job[u])
    BY <1>1 DEF Framed, Own, Types
  <2> QED BY <2>1, <2>2, <2>3, <2>4 DEF Types
<1>2. CASE IoEffect
  <2>1. UNCHANGED <<job, shut>>
    BY <1>2 DEF IoEffect
  <2>2. queue' \in Seq(Tasks)
    BY <1>2, HeadTailProperties, LenProperties, EmptySeq DEF IoEffect, Types
  <2>3. io' \in Works \cup {Idle}
    BY <1>2 DEF IoEffect, Goes, Returns, Types
  <2>4. handle' \in Refs /\ made' \in Conns /\ memory' \in [Addresses -> 0..made']
    BY <1>0, <1>2 DEF IoEffect, Types, network, NoConn
  <2>5. dropped' \subseteq 1..made'
    BY <1>0, <1>2 DEF IoEffect, Types, network
  <2>6. th' \in [Threads -> ThreadRecords] /\ \A u \in Threads : th'[u].pc \in Pcs(job[u])
    <3>1. CASE UNCHANGED th
      BY <3>1 DEF Types
    <3>2. ASSUME NEW r \in {"ok", "denied", "failed"}, Returns(r)
          PROVE  th' \in [Threads -> ThreadRecords] /\ \A u \in Threads : th'[u].pc \in Pcs(job[u])
      BY <3>2 DEF Returns, Types
    <3>3. ASSUME Busy, th' \in [Threads -> ThreadRecords], \A u \in Threads \ {io.who} : th'[u] = th[u],
                 NEW e \in {0, 1},
                 th'[io.who] = IF io.kind = "call" THEN [th[io.who] EXCEPT !.effects = @ + e] ELSE th[io.who]
          PROVE  \A u \in Threads : th'[u].pc \in Pcs(job[u])
      <4>1. th'[io.who].pc = th[io.who].pc
        BY <3>3, WorkTypes DEF ThreadRecords
      <4> QED BY <3>3, <4>1 DEF Types
    <3> QED BY <1>2, <3>1, <3>2, <3>3 DEF IoEffect
  <2>7. freedUnder' \subseteq Threads /\ renewedUnder' \subseteq Threads
    BY <1>2 DEF IoEffect, Types, history, Using, Overtaken
  <2> QED BY <2>1, <2>2, <2>3, <2>4, <2>5, <2>6, <2>7 DEF Types
<1>3. CASE dropped' \subseteq 1..made /\ UNCHANGED <<job, history, memory, made, handle, queue, io, shut, th>>
  BY <1>3 DEF Types, history
<1> QED BY <1>1, <1>2, <1>3, Cases, Zenon

\* What io steps do to the callers.
Served ==
  /\ th' \in [Threads -> ThreadRecords]
  /\ \A u \in Threads : (Busy => u # io.who) => th'[u] = th[u]
  /\ \A u \in Threads : th'[u].owner = th[u].owner /\ th'[u].in = th[u].in
  /\ \A u \in Threads : th'[u].pc = th[u].pc \/ (Busy /\ u = io.who /\ io' = Idle)

LEMMA ServedFrame == ASSUME Types, Queued, IoEffect PROVE Served
<1>1. CASE UNCHANGED th
  BY <1>1 DEF Served, Types
<1>2. ASSUME NEW r \in {"ok", "denied", "failed"}, Returns(r), Busy PROVE Served
  BY <1>2 DEF Served, Returns
<1>3. CASE Busy /\ io.step = "native"
  <2>1. PICK e \in {0, 1} :
          /\ th' \in [Threads -> ThreadRecords] /\ \A u \in Threads \ {io.who} : th'[u] = th[u]
          /\ th'[io.who] = IF io.kind = "call" THEN [th[io.who] EXCEPT !.effects = @ + e] ELSE th[io.who]
    BY <1>3 DEF IoEffect, Requests, Busy
  <2>2. /\ th'[io.who].pc = th[io.who].pc /\ th'[io.who].owner = th[io.who].owner
        /\ th'[io.who].in = th[io.who].in
    BY <1>3, <2>1, WorkTypes DEF ThreadRecords
  <2> QED BY <1>3, <2>1, <2>2 DEF Served
<1> QED BY <1>1, <1>2, <1>3 DEF IoEffect

LEMMA QueuedStep ==
  ASSUME Types, Queued, Serving, [Next]_vars PROVE Queued'
<1> DEFINE Now(u, k) == th'[u].pc = "wait" /\ k \in Asks(job'[u])
<1>0. queue \in Seq(Tasks) /\ Len(queue) \in Nat
  BY DEF Types
<1>a. \A i \in 1..Len(queue) : queue[i].who \in Threads
  <2>1. \A i \in 1..Len(queue) : queue[i] \in Tasks
    BY <1>0
  <2> QED BY <2>1 DEF Tasks
<1>1. ASSUME NEW t \in Threads, Framed(t) PROVE Queued'
  <2>1. /\ \A u \in Threads \ {t} : th'[u] = th[u]
        /\ th[t].pc \notin {"wait", "done"} /\ UNCHANGED <<job, io>>
    BY <1>1 DEF Framed, Own
  <2>2. \A u \in Threads : \A k : Submitted(u, k) => Now(u, k) /\ u # t
    BY <2>1 DEF Submitted
  <2>3. Busy' => Now(io.who, io.kind) /\ io.who # t
    BY <2>1, <2>2, WorkTypes DEF Queued, Busy
  <2>4. \A i \in 1..Len(queue) : queue[i].who \in Threads /\ queue[i].who # t
    BY <1>a, <2>2 DEF Queued
  <2>5. shut' => \E c \in Closing' : th'[c].pc = "done"
    <3>1. CASE UNCHANGED shut
      BY <2>1, <3>1 DEF Queued, Closing, Doing
    <3>2. CASE job[t] = "close" /\ th'[t].pc = "done"
      BY <2>1, <3>2 DEF Closing, Doing
    <3> QED BY <1>1, <3>1, <3>2 DEF Framed
  <2>6. CASE queue' = queue
    BY <2>1, <2>2, <2>3, <2>4, <2>5, <2>6 DEF Queued, Submitted, Busy
  <2>7. ASSUME NEW k \in Asks(job[t]), th'[t].pc = "wait", queue' = Append(queue, Task(t, k)) PROVE Queued'
    <3>1. Task(t, k).who = t /\ Task(t, k).kind = k /\ Task(t, k) \in Tasks
      BY <1>0, <2>7, Facts DEF Task, Tasks, Types
    <3>2. /\ Len(queue') = Len(queue) + 1 /\ queue'[Len(queue) + 1] = Task(t, k)
          /\ \A i \in 1..Len(queue) : queue'[i] = queue[i]
      BY <1>0, <2>7, <3>1, AppendProperties, LenProperties
    <3>3. Now(t, k)
      BY <2>1, <2>7 DEF Submitted
    <3>4. \A i \in 1..Len(queue') : i \in 1..Len(queue) \/ i = Len(queue) + 1
      BY <1>0, <3>2
    <3>5. \A i \in 1..Len(queue') : Now(queue'[i].who, queue'[i].kind)
      BY <2>2, <2>4, <3>1, <3>2, <3>3, <3>4 DEF Queued
    <3>6. \A i, j \in 1..Len(queue') : queue'[i].who = queue'[j].who => i = j
      BY <2>4, <3>1, <3>2, <3>4 DEF Queued
    <3>7. Busy' => \A i \in 1..Len(queue') : queue'[i].who # io'.who
      BY <2>1, <2>3, <3>1, <3>2, <3>4 DEF Queued, Submitted, Busy
    <3> QED BY <2>1, <2>3, <2>5, <3>5, <3>6, <3>7 DEF Queued, Submitted
  <2>8. CASE queue' = <<>>
    <3>1. 1..Len(queue') = {}
      BY <2>8
    <3> QED BY <2>1, <2>3, <2>5, <3>1 DEF Queued, Submitted
  <2> QED BY <1>1, <2>6, <2>7, <2>8 DEF Framed, Asking, Quiet
<1>2. CASE IoEffect
  <2>0. Served
    BY <1>2, ServedFrame
  <2>1. UNCHANGED <<job, shut>>
    BY <1>2 DEF IoEffect
  <2>2. \A u \in Threads : \A k : Submitted(u, k) /\ (Busy => u # io.who) => Now(u, k)
    BY <2>0, <2>1 DEF Submitted, Served
  <2>3. shut' => \E c \in Closing' : th'[c].pc = "done"
    <3>1. \A c \in Threads : th[c].pc = "done" => th'[c].pc = "done"
      BY <2>0, WorkTypes DEF Served, Queued, Submitted
    <3> QED BY <2>1, <3>1 DEF Queued, Closing, Doing
  <2>4. \A i \in 1..Len(queue) : queue[i].who \in Threads
    BY <1>a
  <2>5. CASE ~Busy
    <3>1. /\ io = Idle /\ queue # <<>> /\ queue' = Tail(queue) /\ io' # Idle /\ UNCHANGED th
          /\ io'.who = queue[1].who /\ io'.kind = queue[1].kind
      BY <1>0, <1>2, <2>5, HeadTailProperties, LenProperties, EmptySeq DEF IoEffect, Busy
    <3>2. /\ Len(queue') = Len(queue) - 1 /\ Len(queue) \in Nat \ {0}
          /\ \A i \in 1..Len(queue') : queue'[i] = queue[i + 1] /\ i + 1 \in 1..Len(queue)
      BY <1>0, <3>1, HeadTailProperties, LenProperties, EmptySeq
    <3>3. 1 \in 1..Len(queue) /\ \A i \in 1..Len(queue') : i + 1 # 1
      BY <3>2
    <3>4. \A i \in 1..Len(queue') : Now(queue'[i].who, queue'[i].kind)
      BY <2>2, <2>4, <2>5, <3>2 DEF Queued
    <3>5. Now(io'.who, io'.kind)
      BY <2>2, <2>4, <2>5, <3>1, <3>3 DEF Queued
    <3>6. \A i, j \in 1..Len(queue') : queue'[i].who = queue'[j].who => i = j
      BY <3>2 DEF Queued
    <3>7. \A i \in 1..Len(queue') : queue'[i].who # io'.who
      BY <3>1, <3>2, <3>3 DEF Queued
    <3> QED BY <2>3, <3>1, <3>4, <3>5, <3>6, <3>7 DEF Queued, Submitted, Busy
  <2>6. CASE Busy
    <3>1. queue' = queue
      BY <1>2, <2>6 DEF IoEffect, Busy
    <3>2. \A i \in 1..Len(queue) : Now(queue[i].who, queue[i].kind)
      BY <2>2, <2>4, <2>6 DEF Queued
    <3>3. io' = Idle \/ (io'.who = io.who /\ io'.kind = io.kind)
      BY <1>2, <2>6 DEF IoEffect, Goes, Returns, Busy
    <3>4. io' # Idle => Now(io.who, io.kind)
      BY <2>0, <2>1, <2>6, WorkTypes DEF Served, Queued, Submitted
    <3> QED BY <2>3, <2>6, <3>1, <3>2, <3>3, <3>4 DEF Queued, Submitted, Busy
  <2> QED BY <2>5, <2>6
<1>3. CASE dropped' \subseteq 1..made /\ UNCHANGED <<job, history, memory, made, handle, queue, io, shut, th>>
  BY <1>3 DEF Queued, Submitted, Busy, Closing, Doing
<1> QED BY <1>1, <1>2, <1>3, Cases, Zenon

LEMMA ServingStep ==
  ASSUME Types, Queued, Serving, [Next]_vars PROVE Serving'
<1>1. ASSUME NEW t \in Threads, Framed(t) PROVE Serving'
  <2>1. Busy => th'[io.who] = th[io.who]
    BY <1>1, WorkTypes DEF Framed, Own, Queued, Submitted
  <2>2. UNCHANGED io /\ (handle' = handle \/ handle' = Null)
    BY <1>1 DEF Framed, Own
  <2> QED BY <2>1, <2>2 DEF Serving, Busy
<1>2. CASE IoEffect
  <2>1. io' = Idle => Serving'
    BY DEF Serving, Busy
  <2>2. CASE Take
    <3>1. /\ io' \in Works /\ io'.sent = 0
          /\ IF io'.kind = "disconnect" THEN io'.step = "free" /\ io'.at = th[io'.who].owner
                                        ELSE io'.step = io'.kind
          /\ UNCHANGED th /\ io'.kind \in Kinds
      BY <1>2, <2>2, Facts DEF IoEffect, Take, Busy, Works
    <3> QED BY <3>1 DEF Serving, Kinds, Requests
  <2>3. CASE Busy /\ io' # Idle
    <3>1. UNCHANGED th \/ io.step = "native"
      BY <1>2, <2>3 DEF IoEffect, Returns, Busy
    <3>2. th'[io.who].owner = th[io.who].owner
      BY <1>2, <2>3, ServedFrame, WorkTypes DEF Served
    <3> QED BY <1>2, <2>3, <3>2, WorkTypes DEF IoEffect, Serving, Goes, Returns, Kinds, Requests, Busy
  <2> QED BY <1>2, <2>1, <2>2, <2>3 DEF IoEffect
<1>3. CASE dropped' \subseteq 1..made /\ UNCHANGED <<job, history, memory, made, handle, queue, io, shut, th>>
  BY <1>3 DEF Serving, Busy
<1> QED BY <1>1, <1>2, <1>3, Cases, Zenon

\* Where the tasks of the queue come from.
LEMMA QueueOfCaller ==
  ASSUME Types, NEW t \in Threads, Framed(t)
  PROVE  \A i \in 1..Len(queue') :
           \/ i \in 1..Len(queue) /\ queue'[i] = queue[i]
           \/ queue'[i].who = t /\ th'[t].pc = "wait" /\ queue'[i].kind \in Asks(job[t])
<1>0. queue \in Seq(Tasks) /\ Len(queue) \in Nat
  BY DEF Types
<1>1. CASE queue' = queue
  BY <1>1
<1>2. CASE queue' = <<>>
  <2>1. 1..Len(queue') = {}
    BY <1>2
  <2> QED BY <2>1
<1>3. ASSUME NEW k \in Asks(job[t]), th'[t].pc = "wait", queue' = Append(queue, Task(t, k))
      PROVE  \A i \in 1..Len(queue') :
               \/ i \in 1..Len(queue) /\ queue'[i] = queue[i]
               \/ queue'[i].who = t /\ th'[t].pc = "wait" /\ queue'[i].kind \in Asks(job[t])
  <2>1. Task(t, k).who = t /\ Task(t, k).kind = k /\ Task(t, k) \in Tasks
    BY <1>3, Facts DEF Task, Tasks, Types
  <2>2. /\ Len(queue') = Len(queue) + 1 /\ queue'[Len(queue) + 1] = Task(t, k)
        /\ \A i \in 1..Len(queue) : queue'[i] = queue[i]
    BY <1>0, <1>3, <2>1, AppendProperties, LenProperties
  <2>3. \A i \in 1..Len(queue') : i \in 1..Len(queue) \/ i = Len(queue) + 1
    BY <1>0, <2>2
  <2> QED BY <1>3, <2>1, <2>2, <2>3
<1>4. queue' = queue \/ queue' = <<>> \/ Asking(t)
  BY Zenon DEF Framed, Quiet
<1> QED BY <1>1, <1>2, <1>3, <1>4 DEF Asking

LEMMA QueueOfIo ==
  ASSUME Types, Queued, IoEffect
  PROVE  /\ \A i \in 1..Len(queue') : \E j \in 1..Len(queue) : queue'[i] = queue[j]
         /\ ~Busy => 1 \in 1..Len(queue) /\ io'.who = queue[1].who /\ io'.kind = queue[1].kind /\ UNCHANGED th
         /\ \A i \in 1..Len(queue) : queue[i].who \in Threads /\ Submitted(queue[i].who, queue[i].kind)
<1>0. queue \in Seq(Tasks) /\ Len(queue) \in Nat
  BY DEF Types
<1>1. \A i \in 1..Len(queue) : queue[i] \in Tasks
  BY <1>0
<1>2. CASE Busy
  BY <1>1, <1>2 DEF IoEffect, Busy, Tasks, Queued
<1>3. CASE ~Busy
  <2>1. queue # <<>> /\ queue' = Tail(queue) /\ UNCHANGED th /\ io'.who = Head(queue).who /\ io'.kind = Head(queue).kind
    BY <1>2, <1>3 DEF IoEffect, Busy
  <2>2. /\ Len(queue') = Len(queue) - 1 /\ Len(queue) \in Nat \ {0} /\ Head(queue) = queue[1]
        /\ \A i \in 1..Len(queue') : queue'[i] = queue[i + 1] /\ i + 1 \in 1..Len(queue)
    BY <1>0, <2>1, HeadTailProperties, LenProperties, EmptySeq
  <2> QED BY <1>1, <1>3, <2>1, <2>2 DEF Tasks, Queued
<1> QED BY <1>2, <1>3

-----------------------------------------------------------------------------
(* What a caller is told *)

AnswerOf(t) ==
  /\ th[t].effects <= 2
  /\ th[t].pc = "done" =>
       /\ th[t].result = "ok" => th[t].effects >= 1
       /\ th[t].result \in {"denied", "rejected"} => th[t].effects = 0

LEMMA ToldStep ==
  ASSUME Types, Queued, Serving, Told, AnswerIsTrue, [Next]_vars PROVE Told' /\ AnswerIsTrue'
<1>0. \A u \in Doing({"call"}) : u \in Threads /\ job[u] = "call" /\ ToldOf(u) /\ AnswerOf(u)
  BY Zenon DEF Told, AnswerIsTrue, AnswerOf, Doing
<1> SUFFICES ASSUME NEW u \in Doing({"call"}), job' = job PROVE ToldOf(u)' /\ AnswerOf(u)'
  <2>1. job' = job
    BY Cases, Zenon DEF Framed, Own, IoEffect
  <2>2. Doing({"call"})' = Doing({"call"})
    BY <2>1 DEF Doing
  <2>3. \A u \in Doing({"call"}) : ToldOf(u)' /\ AnswerOf(u)'
    BY <2>1
  <2> QED BY <2>2, <2>3 DEF Told, AnswerIsTrue, AnswerOf
<1>a. u \in Threads /\ job[u] = "call" /\ ToldOf(u) /\ AnswerOf(u) /\ th[u] \in ThreadRecords
      /\ th[u].effects \in Nat /\ th[u].pc \in {"start", "wait", "done"} /\ Asks("call") = {"call"}
  BY <1>0 DEF Types, ThreadRecords, Pcs, Asks
<1>1. ASSUME NEW t \in Threads, Framed(t) PROVE ToldOf(u)' /\ AnswerOf(u)'
  <2>1. /\ io' = io /\ (u # t => th'[u] = th[u]) /\ th[t].pc \notin {"wait", "done"}
        /\ th'[t].effects = th[t].effects
    BY <1>a, <1>1 DEF Framed, Own
  <2>2. CASE u # t
    BY <1>a, <1>1, <2>1, <2>2, QueueOfCaller DEF ToldOf, AnswerOf, Busy
  <2>3. CASE u = t
    <3>1. th[u].pc = "start" /\ th'[u].effects = 0
      BY <1>a, <2>1, <2>3 DEF ToldOf
    <3>2. Busy => io.who # u
      BY <3>1 DEF Queued, Submitted
    <3>3. th'[u].pc # "done" \/ th'[u].result = "rejected"
      BY <1>a, <1>1, <2>3 DEF Framed, Asking, Quiet
    <3> QED BY <2>1, <3>1, <3>2, <3>3 DEF ToldOf, AnswerOf, Busy
  <2> QED BY <2>2, <2>3
<1>2. CASE IoEffect
  <2>0. Served
    BY <1>2, ServedFrame
  <2>1. \A i \in 1..Len(queue') : queue'[i].who = u => th[u].effects = 0 /\ (Busy => u # io.who)
    <3>1. \A i \in 1..Len(queue) : queue[i].who = u => th[u].effects = 0 /\ (Busy => u # io.who)
      BY <1>a DEF ToldOf, Queued
    <3> QED BY <1>2, <3>1, QueueOfIo
  <2>2. CASE ~(Busy /\ u = io.who)
    <3>1. th'[u] = th[u]
      BY <1>a, <2>0, <2>2 DEF Served
    <3>2. AnswerOf(u)'
      BY <1>a, <3>1 DEF AnswerOf
    <3>3. CASE Busy
      <4>1. io' = Idle \/ io'.who = io.who
        BY <1>2, <3>3 DEF IoEffect, Goes, Returns, Busy
      <4> QED BY <1>a, <2>1, <2>2, <3>1, <3>2, <3>3, <4>1 DEF ToldOf, Busy
    <3>4. CASE ~Busy
      <4>1. io'.sent = 0 /\ io'.step \in Kinds \cup {"free"}
        BY <1>2, <3>4 DEF IoEffect, Busy, Works
      <4>2. io'.who = u => th'[u].effects = 0
        BY <1>a, <1>2, <3>1, <3>4, QueueOfIo DEF ToldOf
      <4> QED BY <1>a, <2>1, <3>1, <3>2, <4>1, <4>2 DEF ToldOf, Kinds, Requests
    <3> QED BY <3>3, <3>4
  <2>3. CASE Busy /\ u = io.who
    <3>1. io.kind = "call" /\ io.sent \in 0..2 /\ th[u].pc = "wait" /\ th[u].effects <= io.sent
      BY <1>a, <2>3, WorkTypes DEF Queued, Submitted, ToldOf
    <3>2. CASE io' = Idle
      <4>1. PICK r \in {"ok", "denied", "failed"} :
              /\ Returns(r)
              /\ r = "ok" => io.step = "judge" /\ io.out = "ok"
              /\ r = "denied" => io.step = "judge" /\ io.out = "denied" /\ io.sent = 1
        BY <1>2, <2>3, <3>1, <3>2 DEF IoEffect, Goes, Busy
      <4>2. th'[u].effects = th[u].effects /\ th'[u].result = r /\ th'[u].pc = "done"
        BY <2>3, <3>1, <4>1 DEF Returns, After
      <4> QED BY <1>a, <2>1, <2>3, <3>2, <4>1, <4>2 DEF ToldOf, AnswerOf, Busy
    <3>3. CASE io' # Idle
      <4>1. th'[u].pc = "wait"
        BY <1>a, <2>0, <3>1, <3>3 DEF Served
      <4>2. CASE io.step = "native"
        <5>1. PICK out \in {"ok", "denied", "failed"}, e \in {0, 1} :
                /\ Goes("judge", io.at, io.sent, out) /\ (out = "ok" => e = 1) /\ (out = "denied" => e = 0)
                /\ th'[u] = [th[u] EXCEPT !.effects = @ + e]
          BY <1>2, <2>3, <3>1, <3>3, <4>2 DEF IoEffect, Returns, Requests, Busy
        <5>2. th'[u].effects = th[u].effects + e /\ th[u].effects < io.sent
          BY <1>a, <2>3, <4>2, <5>1 DEF ThreadRecords, ToldOf
        <5> QED BY <1>a, <2>1, <2>3, <3>1, <3>3, <4>1, <5>1, <5>2 DEF ToldOf, AnswerOf, Goes, Busy
      <4>3. CASE io.step # "native"
        <5>1. UNCHANGED th /\ io'.who = u
          BY <1>2, <2>3, <3>3, <4>3 DEF IoEffect, Goes, Returns, Busy
        <5>2. io.step \notin {"read", "write"}
          BY <2>3, <3>1 DEF Serving, Kinds, Requests
        <5>3. /\ io'.step # "judge" /\ io'.sent \in {io.sent, io.sent + 1}
              /\ io'.step = "native" => io'.sent = io.sent + 1
          BY <1>2, <2>3, <3>3, <4>3, <5>2 DEF IoEffect, Goes, Returns, Busy
        <5> QED BY <1>a, <2>1, <2>3, <3>1, <4>1, <5>1, <5>3 DEF ToldOf, AnswerOf
      <4> QED BY <4>2, <4>3
    <3> QED BY <3>2, <3>3
  <2> QED BY <2>2, <2>3
<1>3. CASE dropped' \subseteq 1..made /\ UNCHANGED <<job, history, memory, made, handle, queue, io, shut, th>>
  BY <1>a, <1>3 DEF ToldOf, AnswerOf, Busy
<1> QED BY <1>1, <1>2, <1>3, Cases, Zenon

-----------------------------------------------------------------------------
(* What a caller remembers of the handle *)

\* What happens to the queue: a task more, or none left.
Adds(t, k) == \A u, K : Among(queue', u, K) <=> Among(queue, u, K) \/ (u = t /\ k \in K)
Clears == \A u, K : ~Among(queue', u, K)

LEMMA Adding ==
  ASSUME Types, NEW t \in Threads, NEW k \in Kinds, queue' = Append(queue, Task(t, k)) PROVE Adds(t, k)
<1>0. queue \in Seq(Tasks) /\ Len(queue) \in Nat /\ DOMAIN queue = 1..Len(queue)
  BY DEF Types
<1>1. Task(t, k).who = t /\ Task(t, k).kind = k /\ Task(t, k) \in Tasks
  BY DEF Task, Tasks
<1>2. /\ DOMAIN queue' = 1..(Len(queue) + 1) /\ queue'[Len(queue) + 1] = Task(t, k)
      /\ \A i \in 1..Len(queue) : queue'[i] = queue[i]
  BY <1>0, <1>1, AppendProperties, LenProperties
<1>3. DOMAIN queue' = DOMAIN queue \cup {Len(queue) + 1}
  BY <1>0, <1>2
<1> HIDE DEF Task
<1> QED BY <1>0, <1>1, <1>2, <1>3 DEF Adds, Among

\* How the owner a caller remembers and the handle go together.
Moves(t) ==
  /\ Stream(t) =>
       \/ th[t].pc = "start" /\ th'[t].pc \in {"wait", "done"} /\ (queue' = queue \/ Adds(t, "open"))
       \/ th[t].pc = "opened" /\ th'[t].pc = "stream" /\ th'[t].owner = handle /\ queue' = queue
       \/ /\ On(t) /\ th'[t].owner = th[t].owner /\ th'[t].pc \notin {"start", "opened", "taken"}
          /\ th'[t].pc = "inside" => th'[t].in = handle /\ handle # Null
          /\ th'[t].pc = "checked" => handle = th[t].owner
          /\ \/ queue' = queue
             \/ Adds(t, "read")
             \/ Adds(t, "write") /\ th[t].pc = "checked"
             \/ Adds(t, "closefh") /\ handle = th[t].owner
  /\ job[t] = "close" =>
       \/ /\ th[t].pc = "start" /\ th'[t].pc = "taken" /\ th'[t].owner = handle
          /\ UNCHANGED <<handle, queue>>
       \/ /\ th[t].pc = "taken" /\ handle' = Null /\ th'[t].owner = th[t].owner
          /\ \/ th[t].owner = Null /\ th'[t].pc = "shutdown" /\ queue' = queue
             \/ shut /\ th'[t].pc = "done" /\ queue' = queue
             \/ th[t].owner # Null /\ th'[t].pc = "wait" /\ Adds(t, "disconnect")
       \/ th[t].pc = "shutdown" /\ th'[t].pc = "done" /\ UNCHANGED handle /\ Clears
  /\ ~Stream(t) /\ job[t] # "close" => queue' = queue \/ Adds(t, "call") \/ Adds(t, "pread")

LEMMA CallerMoves == ASSUME Types, NEW t \in Threads, ThreadStep(t) PROVE Moves(t)
<1>0. /\ job[t] \in Jobs /\ th[t].pc \in Pcs(job[t]) /\ th \in [Threads -> ThreadRecords] /\ th[t] \in ThreadRecords
      /\ Kinds = {"call", "open", "read", "write", "pread", "closefh", "disconnect"}
  BY Facts DEF Types, Kinds, Requests
<1>1. \A k \in Kinds : Exec(t, k) =>
        /\ th'[t].owner = th[t].owner
        /\ (shut /\ th'[t].pc = "done" /\ queue' = queue) \/ (th'[t].pc = "wait" /\ Adds(t, k))
  BY ExecEffect, Adding
<1>2. CASE Start(t)
  <2>1. th[t].pc = "start" /\ job[t] # "close" /\ (Stream(t) => Exec(t, "open"))
        /\ (~Stream(t) => queue' = queue \/ Exec(t, "call") \/ Exec(t, "pread"))
    BY <1>2 DEF Start, Stream
  <2> QED BY <1>0, <1>1, <2>1 DEF Moves, On
<1>3. CASE TakeOwner(t) \/ CheckOwner(t) \/ ReadError(t) \/ LeaveError(t)
  <2>1. job[t] # "close" /\ UNCHANGED <<handle, queue>>
    BY <1>0, <1>3 DEF TakeOwner, CheckOwner, ReadError, LeaveError, Pcs
  <2> QED BY <1>0, <1>3, <2>1 DEF TakeOwner, CheckOwner, ReadError, LeaveError, Moves, On, ThreadRecords
<1>4. CASE Read(t) \/ Write(t) \/ CloseStream(t)
  <2>1. job[t] # "close" /\ Stream(t) /\ On(t) /\ th[t].pc \notin {"start", "opened"}
    BY <1>0, <1>4 DEF Read, Write, CloseStream, Pcs, On, Stream
  <2>2. CASE Exec(t, "read") \/ (Exec(t, "write") /\ th[t].pc = "checked")
             \/ (Exec(t, "closefh") /\ handle = th[t].owner)
    BY <1>0, <1>1, <2>1, <2>2 DEF Moves
  <2>3. CASE th' = [th EXCEPT ![t].pc = "done"] /\ queue' = queue
    <3>1. th'[t].pc = "done" /\ th'[t].owner = th[t].owner
      BY <1>0, <2>3 DEF ThreadRecords
    <3> QED BY <2>1, <2>3, <3>1 DEF Moves
  <2> QED BY <1>4, <2>2, <2>3 DEF Read, Write, CloseStream
<1>5. CASE CloseTake(t) \/ CloseClear(t) \/ Shutdown(t)
  <2>1. job[t] = "close" /\ ~Stream(t)
    BY <1>0, <1>5 DEF CloseTake, CloseClear, Shutdown, Pcs, Stream
  <2>2. CASE CloseTake(t)
    BY <1>0, <2>1, <2>2 DEF CloseTake, Moves, ThreadRecords
  <2>3. CASE CloseClear(t)
    <3>1. CASE Exec(t, "disconnect") /\ th[t].owner # Null
      BY <1>0, <1>1, <2>1, <2>3, <3>1 DEF CloseClear, Moves
    <3>2. CASE th[t].owner = Null
      BY <1>0, <2>1, <2>3, <3>2 DEF CloseClear, Moves, ThreadRecords
    <3> QED BY <2>3, <3>1, <3>2 DEF CloseClear
  <2>4. CASE Shutdown(t)
    <3>1. Clears
      BY <2>4 DEF Shutdown, Clears, Among
    <3> QED BY <1>0, <2>1, <2>4, <3>1 DEF Shutdown, Moves, ThreadRecords
  <2> QED BY <1>5, <2>2, <2>3, <2>4
<1> QED BY <1>2, <1>3, <1>4, <1>5, Zenon DEF ThreadStep

LEMMA SafeCases ==
  ASSUME Types, Queued, Serving, [Next]_vars
  PROVE  \/ \E t \in Threads : Framed(t) /\ Moves(t)
         \/ IoEffect
         \/ UNCHANGED <<job, history, memory, made, handle, queue, io, shut, th>>
<1>1. CASE LinkBreaks
  BY <1>1 DEF LinkBreaks
<1>2. CASE UNCHANGED vars
  BY <1>2 DEF vars, network
<1>3. CASE IoStep
  BY <1>3, IoFrame
<1>4. ASSUME NEW t \in Threads, ThreadStep(t) PROVE Framed(t) /\ Moves(t)
  BY <1>4, ThreadFrame, CallerMoves
<1> QED BY <1>1, <1>2, <1>3, <1>4, Zenon DEF Next

\* A thread with a task in the queue waits, and is not the one that is served.
LEMMA Waiting ==
  ASSUME Types, Queued
  PROVE  \A u, K : Among(queue, u, K) =>
           /\ u \in Threads /\ th[u].pc = "wait" /\ ~Serves(u)
           /\ \E k \in K : k \in Asks(job[u])
<1>1. queue \in Seq(Tasks) /\ DOMAIN queue = 1..Len(queue) /\ \A i \in 1..Len(queue) : queue[i] \in Tasks
  BY DEF Types
<1> QED BY <1>1 DEF Among, Queued, Submitted, Serves, Tasks

\* Take moves the head of the queue to the io thread.
LEMMA Taking ==
  ASSUME Types, Queued, IoEffect, ~Busy
  PROVE  /\ UNCHANGED <<job, history, network, handle, shut, th>> /\ io' # Idle
         /\ \A u, K : Among(queue, u, K) <=> Among(queue', u, K) \/ (u = io'.who /\ io'.kind \in K)
         /\ Among(queue, io'.who, {io'.kind}) /\ io'.who \in Threads /\ io'.kind \in Kinds
         /\ IF io'.kind = "disconnect" THEN io'.step = "free" /\ io'.at = th[io'.who].owner
                                       ELSE io'.step = io'.kind
<1>0. queue \in Seq(Tasks) /\ Len(queue) \in Nat /\ DOMAIN queue = 1..Len(queue)
  BY DEF Types
<1>1. /\ queue # <<>> /\ queue' = Tail(queue) /\ io' \in Works /\ io' # Idle
      /\ io'.who = Head(queue).who /\ io'.kind = Head(queue).kind
      /\ IF io'.kind = "disconnect" THEN io'.step = "free" /\ io'.at = th[io'.who].owner
                                    ELSE io'.step = io'.kind
      /\ UNCHANGED <<job, history, network, handle, shut, th>>
  BY DEF IoEffect, Busy
<1>2. /\ queue' \in Seq(Tasks) /\ Len(queue') = Len(queue) - 1 /\ Len(queue) \in Nat \ {0}
      /\ Head(queue) = queue[1] /\ \A i \in 1..Len(queue') : queue'[i] = queue[i + 1]
  BY <1>0, <1>1, HeadTailProperties, LenProperties, EmptySeq
<1>3. DOMAIN queue' = 1..Len(queue') /\ 1 \in DOMAIN queue
  BY <1>0, <1>2
<1>4. ASSUME NEW u, NEW K
      PROVE  Among(queue, u, K) <=> Among(queue', u, K) \/ (u = io'.who /\ io'.kind \in K)
  <2>1. ASSUME NEW i \in DOMAIN queue, queue[i].who = u, queue[i].kind \in K, i # 1 PROVE Among(queue', u, K)
    <3>1. i - 1 \in DOMAIN queue' /\ queue'[i - 1] = queue[i]
      BY <1>0, <1>2, <1>3, <2>1
    <3> QED BY <2>1, <3>1 DEF Among
  <2>2. ASSUME NEW i \in DOMAIN queue', queue'[i].who = u, queue'[i].kind \in K PROVE Among(queue, u, K)
    <3>1. i + 1 \in DOMAIN queue /\ queue'[i] = queue[i + 1]
      BY <1>0, <1>2, <1>3, <2>2
    <3> QED BY <2>2, <3>1 DEF Among
  <2>3. u = io'.who /\ io'.kind \in K => Among(queue, u, K)
    BY <1>1, <1>2, <1>3 DEF Among
  <2>4. Among(queue, u, K) => \E i \in DOMAIN queue : queue[i].who = u /\ queue[i].kind \in K
    BY DEF Among
  <2>5. Among(queue', u, K) => \E i \in DOMAIN queue' : queue'[i].who = u /\ queue'[i].kind \in K
    BY DEF Among
  <2> QED BY <1>1, <1>2, <2>1, <2>2, <2>3, <2>4, <2>5
<1>5. Among(queue, io'.who, {io'.kind}) /\ io'.who \in Threads /\ io'.kind \in Kinds
  BY <1>1, <1>4 DEF Works
<1> QED BY <1>1, <1>4, <1>5

\* The histories grow, and the jobs stay.
LEMMA Histories ==
  ASSUME Types, Queued, Serving, [Next]_vars
  PROVE  job' = job /\ freedUnder \subseteq freedUnder' /\ renewedUnder \subseteq renewedUnder' /\ (Undone => Undone')
<1>1. job' = job /\ freedUnder \subseteq freedUnder' /\ renewedUnder \subseteq renewedUnder'
  BY SafeCases, Zenon DEF Framed, Own, IoEffect, history
<1> QED BY <1>1 DEF Undone, Closing, Doing

\* Whom the io thread serves waits for it, and what it asks for is of its job.
LEMMA Working ==
  ASSUME Types, Queued, Serving, Busy
  PROVE  /\ th[io.who].pc = "wait" /\ io.who \in Threads
         /\ io.kind = "disconnect" <=> io.who \in Closing
         /\ io.kind = "pread" <=> io.who \in Doing({"pread"})
         /\ io.kind \in Files \cup {"open"} <=> Stream(io.who)
         /\ io.step = "connect" \/ (io.step = "free" /\ io.kind # "disconnect") => io.kind \in Requests /\ handle = Null
<1>1. io.kind \in Asks(job[io.who]) /\ job[io.who] \in Jobs /\ th[io.who].pc = "wait" /\ io.who \in Threads /\ io.kind \in Kinds
  BY WorkTypes DEF Queued, Submitted
<1> QED BY <1>1 DEF Asks, Jobs, Closing, Doing, Files, Stream, Serving, Kinds, Requests

LEMMA ClosingsStep == ASSUME Types, Queued, Serving, Closings, [Next]_vars PROVE Closings'
<1>0. Closing' = Closing
  BY Histories DEF Closing, Doing
<1> SUFFICES ASSUME NEW c \in Closing PROVE ClosingOf(c)'
  BY <1>0 DEF Closings
<1>a. /\ c \in Threads /\ job[c] = "close" /\ ClosingOf(c) /\ \A d \in Threads : job[d] = "close" => d = c
      /\ th[c].pc \in {"start", "taken", "wait", "shutdown", "done"} /\ ~Stream(c)
      /\ memory \in [Addresses -> 0..made]
  BY Facts DEF Closings, Closing, Doing, Types, Pcs, Stream
<1>1. ASSUME NEW t \in Threads, Framed(t), Moves(t) PROVE ClosingOf(c)'
  <2>0. /\ UNCHANGED <<job, renewedUnder, memory, made, io>> /\ (t # c => th'[c] = th[c])
        /\ th[t].pc \notin {"wait", "done"}
    BY <1>1, <1>a DEF Framed, Own, history
  <2>1. CASE t # c
    <3>1. handle' = handle /\ job[t] # "close"
      BY <1>1, <1>a, <2>1 DEF Framed
    <3>2. Among(queue, c, {"disconnect"}) => Among(queue', c, {"disconnect"})
      BY <1>1, <3>1 DEF Moves, Adds
    <3> QED BY <1>a, <2>0, <2>1, <3>1, <3>2 DEF ClosingOf, Awaits, Freeing, Busy
  <2>2. CASE t = c /\ th[c].pc = "start"
    <3>1. th'[c].pc = "taken" /\ th'[c].owner = handle /\ handle' = handle
      BY <1>1, <1>a, <2>2 DEF Moves
    <3> QED BY <1>a, <2>0, <2>2, <3>1 DEF ClosingOf, Freeing, Busy
  <2>3. CASE t = c /\ th[c].pc = "taken"
    <3>1. handle' = Null /\ th'[c].owner = th[c].owner
          /\ \/ th[c].owner = Null /\ th'[c].pc = "shutdown"
             \/ shut
             \/ th'[c].pc = "wait" /\ Adds(c, "disconnect")
      BY <1>1, <1>a, <2>3 DEF Moves
    <3>2. ~shut
      BY <1>a, <2>3 DEF Queued, Closing, Doing
    <3>3. th'[c].pc = "wait" => Among(queue', c, {"disconnect"})
      BY <3>1, <3>2 DEF Adds
    <3> QED BY <1>a, <2>0, <2>3, <3>1, <3>2, <3>3, Facts DEF ClosingOf, Awaits, Freeing, Busy
  <2>4. CASE t = c /\ th[c].pc = "shutdown"
    <3>1. th'[c].pc = "done" /\ handle' = handle
      BY <1>1, <1>a, <2>4 DEF Moves
    <3> QED BY <1>a, <2>0, <2>4, <3>1 DEF ClosingOf, Freeing, Busy
  <2> QED BY <1>a, <2>0, <2>1, <2>2, <2>3, <2>4
<1>2. CASE IoEffect /\ ~Busy
  <2>1. /\ UNCHANGED <<job, renewedUnder, memory, handle, th>> /\ io' # Idle
        /\ Among(queue, c, {"disconnect"}) => Among(queue', c, {"disconnect"}) \/ c = io'.who
    BY <1>2, Taking DEF network, history
  <2> QED BY <1>2, <1>a, <2>1 DEF ClosingOf, Awaits, Freeing, Busy
<1>3. CASE IoEffect /\ Busy
  <2>0. Served /\ queue' = queue
    BY <1>3, ServedFrame DEF IoEffect, Busy
  <2>1. th'[c].owner = th[c].owner /\ (th'[c].pc = th[c].pc \/ (c = io.who /\ io' = Idle))
        /\ (c # io.who => th'[c] = th[c])
    BY <1>3, <1>a, <2>0 DEF Served
  <2>2. io' = Idle \/ io'.who = io.who
    BY <1>3 DEF IoEffect, Goes, Returns, Busy
  <2>3. CASE c = io.who
    <3>1. io.kind = "disconnect" /\ io.step = "free" /\ io.at = th[c].owner /\ th[c].pc = "wait"
      BY <1>3, <2>3, Working DEF Serving
    <3>2. /\ Returns("ok") /\ UNCHANGED <<job, renewedUnder, made, handle>>
          /\ memory' = [memory EXCEPT ![io.at] = NoConn]
      BY <1>3, <2>3, <3>1 DEF IoEffect, Requests, Busy
    <3>3. th'[c].pc = "shutdown" /\ io' = Idle
      BY <2>3, <3>1, <3>2 DEF Returns, After
    <3>4. \A a \in Addresses : memory'[a] # NoConn => memory[a] # NoConn /\ a # th[c].owner
      BY <1>a, <3>1, <3>2, Facts
    <3>5. \A a \in Addresses : Freeing(a) => a = th[c].owner
      BY <3>1 DEF Freeing
    <3> QED BY <1>a, <3>1, <3>2, <3>3, <3>4, <3>5 DEF ClosingOf
  <2>4. CASE c # io.who /\ io.step = "free"
    <3>1. /\ UNCHANGED <<job, renewedUnder, made, handle>> /\ memory' = [memory EXCEPT ![io.at] = NoConn]
          /\ io' = Idle \/ io'.step = "connect"
      BY <1>3, <2>4 DEF IoEffect, Goes, Returns, Requests, Busy
    <3>2. \A a \in Addresses : memory'[a] # NoConn => memory[a] # NoConn /\ a # io.at
      BY <1>a, <3>1, Facts
    <3> QED BY <1>a, <2>0, <2>1, <2>4, <3>1, <3>2 DEF ClosingOf, Awaits, Freeing, Busy
  <2>5. CASE c # io.who /\ io.step = "connect"
    <3>1. handle = Null
      BY <1>3, <2>5, Working
    <3>2. CASE \E a \in Addresses : /\ memory' = [memory EXCEPT ![a] = made + 1] /\ handle' = a
                                    /\ renewedUnder' = renewedUnder \cup Overtaken(a)
      <4>1. th[c].pc = "start" \/ c \in renewedUnder'
        BY <1>a, <3>2 DEF Overtaken
      <4>2. th[c].pc = "start" => \A a \in Addresses : memory'[a] # NoConn => a = handle' \/ memory[a] # NoConn
        BY <1>a, <3>2
      <4>3. th[c].pc = "start" => \A a \in Addresses : memory[a] # NoConn => FALSE
        BY <1>a, <2>5, <3>1, Facts DEF ClosingOf, Freeing
      <4> QED BY <1>a, <1>3, <2>0, <2>1, <2>4, <2>5, <4>1, <4>2, <4>3 DEF ClosingOf, Awaits, Busy
    <3>3. CASE handle' = Null /\ UNCHANGED <<renewedUnder, memory, made>> /\ Returns("failed")
      BY <1>a, <2>0, <2>1, <2>5, <3>1, <3>3 DEF ClosingOf, Awaits, Freeing, Busy
    <3> QED BY <1>3, <2>5, <3>2, <3>3 DEF IoEffect, Requests, Busy
  <2>6. CASE c # io.who /\ io.step = "drop"
    <3>1. /\ UNCHANGED <<job, history, memory, made>> /\ handle' = Null
          /\ handle # Null => Goes("free", handle, io.sent, io.out)
      BY <1>3, <2>6 DEF IoEffect, Requests, Busy, network
    <3> QED BY <1>a, <2>0, <2>1, <2>6, <3>1, Facts DEF ClosingOf, Awaits, Freeing, Busy, Goes, history
  <2>7. CASE c # io.who /\ io.step \notin {"free", "connect", "drop"}
    <3>1. UNCHANGED <<job, history, memory, made, handle>>
      BY <1>3, <2>7 DEF IoEffect, Busy, network
    <3> QED BY <1>a, <2>0, <2>1, <2>7, <3>1 DEF ClosingOf, Awaits, Freeing, Busy, history
  <2> QED BY <2>3, <2>4, <2>5, <2>6, <2>7
<1>4. CASE UNCHANGED <<job, history, memory, made, handle, queue, io, shut, th>>
  BY <1>a, <1>4 DEF ClosingOf, Awaits, Freeing, Busy, history
<1> QED BY <1>1, <1>2, <1>3, <1>4, SafeCases, Zenon

LEMMA PositionedStep == ASSUME Types, Queued, Serving, Positioned, [Next]_vars PROVE Positioned'
<1>0. Doing({"pread"})' = Doing({"pread"})
  BY Histories DEF Doing
<1> SUFFICES ASSUME NEW p \in Doing({"pread"})
             PROVE  /\ \A a \in Addresses : memory'[a] \in {NoConn, 1}
                    /\ \A t \in Doing({"pread"}) : th'[t].fh = 1
  BY <1>0 DEF Positioned
<1>a. /\ \A t \in Threads : job[t] \in {"pread", "close", "none"}
      /\ \A a \in Addresses : memory[a] \in {NoConn, 1}
      /\ \A t \in Doing({"pread"}) : t \in Threads /\ th[t].fh = 1
  BY Facts DEF Positioned, Doing, Types
<1>1. ASSUME NEW t \in Threads, Framed(t) PROVE memory' = memory /\ \A u \in Threads : th'[u].fh = th[u].fh
  BY <1>1 DEF Framed, Own
<1>2. CASE IoEffect
  <2>1. Busy => io.kind \in {"pread", "disconnect"}
    <3>1. Busy => io.kind \in Asks(job[io.who]) /\ io.who \in Threads
      BY WorkTypes DEF Queued, Submitted
    <3> QED BY <1>a, <3>1 DEF Asks
  <2>2. Busy => io.step # "connect"
    BY <2>1 DEF Serving
  <2>3. \A a \in Addresses : memory'[a] \in {memory[a], NoConn}
    BY <1>2, <2>2 DEF IoEffect, network, Types
  <2>4. \A u \in Threads : th'[u].fh = th[u].fh
    <3>1. CASE UNCHANGED th
      BY <3>1
    <3>2. ASSUME Busy, NEW r, Returns(r) PROVE \A u \in Threads : th'[u].fh = th[u].fh
      BY <2>1, <3>2 DEF Returns
    <3>3. CASE Busy /\ io.step = "native"
      BY <1>2, <2>1, <3>3 DEF IoEffect, Requests, Busy
    <3> QED BY <1>2, <3>1, <3>2, <3>3 DEF IoEffect
  <2> QED BY <1>a, <2>3, <2>4
<1>3. CASE UNCHANGED <<job, history, memory, made, handle, queue, io, shut, th>>
  BY <1>a, <1>3
<1> QED BY <1>a, <1>1, <1>2, <1>3, SafeCases

\* What the io thread enters or frees, and where the handle goes.
LEMMA InUseStep ==
  ASSUME Types, Queued, Serving, Closings, InUse, Looks, ~Undone', [Next]_vars PROVE InUse'
<1>0. /\ handle \in Refs /\ memory \in [Addresses -> 0..made] /\ made \in Nat /\ NoConn = 0 /\ Null \notin Addresses
      /\ Closing' = Closing /\ \A c \in Closing : c \in Threads /\ job[c] = "close" /\ ~Stream(c)
      /\ th \in [Threads -> ThreadRecords] /\ \A t \in Threads : th[t].owner \in Refs
  BY Histories, Facts DEF Types, Conns, Closing, Doing, Stream, ThreadRecords
<1>1. ASSUME NEW t \in Threads, Framed(t), Moves(t) PROVE InUse'
  <2>1. /\ UNCHANGED <<memory, io, freedUnder>> /\ handle' \in {handle, Null}
        /\ \A u \in Threads \ {t} : th'[u] = th[u]
    BY <1>1 DEF Framed, Own, history
  <2>2. ASSUME NEW c \in Closing, th'[c].pc = "wait" PROVE th'[c].owner # Null /\ th'[c].owner # handle'
    <3>1. CASE c # t
      BY <1>0, <2>1, <2>2, <3>1 DEF InUse
    <3>2. CASE c = t
      BY <1>0, <1>1, <2>2, <3>2 DEF Moves
    <3> QED BY <3>1, <3>2
  <2> QED BY <1>0, <2>1, <2>2 DEF InUse, Busy
<1>2. CASE IoEffect /\ ~Busy
  <2>1. /\ UNCHANGED <<memory, handle, th, freedUnder>> /\ io' # Idle /\ io'.who \in Threads /\ io'.kind \in Kinds
        /\ Among(queue, io'.who, {io'.kind})
        /\ IF io'.kind = "disconnect" THEN io'.step = "free" /\ io'.at = th[io'.who].owner
                                      ELSE io'.step = io'.kind
    BY <1>2, Taking DEF network, history
  <2>2. CASE io'.kind = "disconnect"
    <3>1. th[io'.who].pc = "wait" /\ io'.kind \in Asks(job[io'.who]) /\ job[io'.who] \in Jobs
      BY <2>1, Waiting, Facts DEF Types
    <3>2. io'.who \in Closing
      BY <2>1, <2>2, <3>1 DEF Asks, Jobs, Closing, Doing
    <3>3. io'.at # Null /\ io'.at \in Addresses
      BY <1>0, <2>1, <2>2, <3>1, <3>2 DEF InUse, Refs
    <3>4. io'.who \in Using(io'.at)
      BY <2>1, <2>2 DEF Using, Awaits, Among
    <3>5. memory[io'.at] # NoConn \/ io'.who \in freedUnder
      BY <2>1, <3>3, <3>4 DEF Looks, Holds
    <3> QED BY <1>0, <2>1, <2>2, <3>3, <3>5 DEF InUse, Busy
  <2>3. CASE io'.kind # "disconnect"
    BY <1>0, <2>1, <2>3 DEF InUse, Busy, Kinds, Requests
  <2> QED BY <2>2, <2>3
<1>3. CASE IoEffect /\ Busy
  <2>0. /\ Served /\ io.who \in Threads /\ io.at \in Refs
        /\ \A c \in Closing : th'[c].owner = th[c].owner /\ (th'[c].pc = "wait" => th[c].pc = "wait")
    BY <1>0, <1>3, ServedFrame, WorkTypes, Working DEF Served
  <2>1. CASE io.step = "free"
    <3>1. /\ handle' = handle /\ memory' = [memory EXCEPT ![io.at] = NoConn]
          /\ io' = Idle \/ io'.step = "connect"
      BY <1>3, <2>1 DEF IoEffect, Goes, Returns, Requests, Busy
    <3>2. handle # io.at
      <4>1. CASE io.kind = "disconnect"
        BY <1>3, <2>1, <4>1, Working DEF InUse, Serving
      <4>2. CASE io.kind # "disconnect"
        BY <1>3, <2>1, <4>2, Working DEF InUse
      <4> QED BY <4>1, <4>2
    <3>3. handle # Null => memory'[handle] = memory[handle]
      BY <1>0, <3>1, <3>2 DEF Refs
    <3> QED BY <1>0, <2>0, <3>1, <3>3 DEF InUse, Busy
  <2>2. CASE io.step = "connect"
    <3>1. io' = Idle \/ io'.step = "send"
      BY <1>3, <2>2 DEF IoEffect, Goes, Returns, Requests, Busy
    <3>2. CASE handle' = Null /\ memory' = memory
      BY <1>0, <2>0, <3>1, <3>2 DEF InUse, Busy
    <3>3. ASSUME NEW a \in Addresses, memory[a] = NoConn, memory' = [memory EXCEPT ![a] = made + 1], handle' = a,
                 renewedUnder' = renewedUnder \cup Overtaken(a), freedUnder' = freedUnder
          PROVE  InUse'
      <4>1. memory'[handle'] # NoConn
        BY <1>0, <3>3
      <4>2. ASSUME NEW c \in Closing, th[c].pc = "wait", th[c].owner = a PROVE FALSE
        <5>1. c # io.who
          BY <1>3, <2>2, Working DEF Serving
        <5>2. Among(queue, c, {"disconnect"})
          BY <4>2, <5>1 DEF Closings, ClosingOf, Awaits
        <5>3. c \in Using(a)
          BY <1>0, <4>2, <5>2 DEF Using, Awaits, Among
        <5>4. c \in freedUnder
          BY <1>0, <3>3, <5>3 DEF Looks, Holds
        <5>5. c \in Overtaken(a)
          BY <1>0, <4>2 DEF Overtaken
        <5> QED BY <1>0, <3>3, <5>4, <5>5 DEF Undone
      <4>3. \A c \in Closing : th'[c].pc = "wait" => th'[c].owner # Null /\ th'[c].owner # a
        BY <1>0, <2>0, <4>2 DEF InUse
      <4> QED BY <1>0, <3>1, <3>3, <4>1, <4>3 DEF InUse, Busy
    <3> QED BY <1>3, <2>2, <3>2, <3>3 DEF IoEffect, Requests, Busy, history
  <2>3. CASE io.step = "drop"
    <3>1. /\ UNCHANGED <<memory, freedUnder>> /\ handle' = Null
          /\ \/ handle = Null /\ io'.step = "connect"
             \/ handle # Null /\ io'.step = "free" /\ io'.at = handle
      BY <1>3, <2>3 DEF IoEffect, Goes, Requests, Busy, network, history
    <3> QED BY <1>0, <2>0, <3>1 DEF InUse, Busy
  <2>4. CASE io.step \notin {"free", "connect", "drop"}
    <3>1. UNCHANGED <<memory, handle, freedUnder>>
      BY <1>3, <2>4 DEF IoEffect, Busy, network, history
    <3>2. io' = Idle \/ (io'.who = io.who /\ io'.kind = io.kind)
      BY <1>3 DEF IoEffect, Goes, Returns, Busy
    <3>3. CASE io' = Idle \/ io'.step \notin {"native", "judge", "free"}
      BY <1>0, <2>0, <3>1, <3>3 DEF InUse, Busy
    <3>4. CASE io' # Idle /\ io'.step \in {"native", "judge", "free"}
      <4>1. \/ io.step = "send" /\ io'.at = handle /\ io'.step = "native"
            \/ io.step = "read" /\ handle = th[io.who].owner /\ io'.at = handle /\ io'.step = "native"
            \/ io.step = "write" /\ io'.at = th[io.who].owner /\ io'.step = "native"
            \/ io.step = "native" /\ io'.at = io.at /\ io'.step = "judge"
        BY <1>3, <2>4, <3>4 DEF IoEffect, Goes, Returns, Requests, Busy
      <4>3. CASE io.step = "write"
        <5>1. th[io.who].owner \in Addresses /\ memory[th[io.who].owner] = NoConn => io.who \in freedUnder
          BY <1>3, <2>0, <4>3 DEF Looks, Holds, Serves
        <5>2. io.kind = "write" /\ io'.at \in Refs
          BY <1>0, <1>3, <2>0, <4>1, <4>3 DEF Serving, Kinds, Requests
        <5>3. io'.at # Null => memory[io'.at] # NoConn \/ io.who \in freedUnder
          BY <4>1, <4>3, <5>1, <5>2 DEF Refs
        <5> QED BY <1>0, <2>0, <3>1, <3>2, <3>4, <4>1, <4>3, <5>2, <5>3 DEF InUse, Busy
      <4>4. CASE io.step # "write"
        BY <1>0, <1>3, <2>0, <3>1, <3>2, <3>4, <4>1, <4>4 DEF InUse, Busy
      <4> QED BY <4>3, <4>4
    <3> QED BY <3>3, <3>4
  <2> QED BY <2>1, <2>2, <2>3, <2>4
<1>4. CASE UNCHANGED <<job, history, memory, made, handle, queue, io, shut, th>>
  BY <1>0, <1>4 DEF InUse, Busy, history
<1> QED BY <1>1, <1>2, <1>3, <1>4, SafeCases, Zenon

\* Who is about to use a freed context looked before it was freed.
LEMMA LooksStep ==
  ASSUME Types, Queued, Serving, InUse, Looks, [Next]_vars PROVE Looks'
<1>0. /\ handle \in Refs /\ memory \in [Addresses -> 0..made] /\ NoConn = 0 /\ Null \notin Addresses /\ made \in Nat
      /\ job' = job /\ freedUnder \subseteq freedUnder' /\ th \in [Threads -> ThreadRecords]
      /\ \A t \in Threads : job[t] \in Jobs /\ th[t].pc \in Pcs(job[t])
  BY Histories, Facts DEF Types, Conns
<1> DEFINE Grows == \A t \in Threads, a \in Addresses :
                      Holds(t, a)' => Holds(t, a) \/ memory[a] # NoConn
           Kept == \A a \in Addresses : memory'[a] = NoConn => memory[a] = NoConn
           InSet == \A t \in Threads : th'[t].pc = "inside" => th'[t].in # Null
<1>a. Grows /\ Kept /\ InSet => Looks'
  <2> SUFFICES ASSUME Grows, Kept, InSet, NEW t \in Threads, NEW a \in Addresses, memory'[a] = NoConn, Holds(t, a)'
               PROVE  t \in freedUnder'
    BY DEF Looks
  <2> QED BY <1>0 DEF Looks
<1>1. ASSUME NEW t \in Threads, Framed(t), Moves(t) PROVE Looks'
  <2>1. /\ UNCHANGED <<memory, io>> /\ \A u \in Threads \ {t} : th'[u] = th[u]
        /\ th[t].pc \notin {"wait", "done"} /\ th'[t].pc \in Pcs(job[t])
    BY <1>1 DEF Framed, Own
  <2>2. ~Serves(t)
    BY <2>1, Working DEF Serves
  <2>3. \A u \in Threads \ {t}, a \in Addresses : Holds(u, a)' => Holds(u, a)
    <3>1. \A u \in Threads \ {t} : \A K : Among(queue', u, K) => Among(queue, u, K)
      BY <1>0, <1>1 DEF Moves, Adds, Clears
    <3> QED BY <2>1, <3>1 DEF Holds, Using, Awaits, Serves, Busy
  <2>4. ASSUME NEW a \in Addresses, Holds(t, a)' PROVE Holds(t, a) \/ memory[a] # NoConn
    <3>1. t \in Using(a)'
      BY <2>1, <2>2, <2>4 DEF Holds, Serves, Busy
    <3>2. ~Among(queue, t, {"write", "disconnect"})
      BY <2>1, Waiting
    <3>3. CASE Stream(t)
      <4>1. ~Among(queue', t, {"write", "disconnect"}) \/ (Adds(t, "write") /\ th[t].pc = "checked" /\ th'[t].owner = th[t].owner)
        BY <1>1, <3>2, <3>3 DEF Moves, Adds
      <4>2. th'[t].pc # "taken"
        BY <1>0, <2>1, <3>3 DEF Pcs, Stream
      <4>3. CASE th'[t].owner = a /\ th'[t].pc = "checked"
        BY <1>0, <1>1, <3>3, <4>3 DEF Moves, InUse
      <4>4. CASE th'[t].pc = "inside" /\ th'[t].in = a
        BY <1>0, <1>1, <3>3, <4>4 DEF Moves, InUse
      <4>5. CASE th'[t].owner = a /\ Among(queue', t, {"write", "disconnect"})
        BY <4>1, <4>5 DEF Holds, Using
      <4> QED BY <3>1, <4>2, <4>3, <4>4, <4>5 DEF Using, Awaits
    <3>4. CASE job[t] = "close"
      <4>1. th'[t].pc \notin {"checked", "inside"} /\ ~Stream(t)
        BY <1>0, <2>1, <3>4 DEF Pcs, Stream
      <4>2. CASE th'[t].pc = "taken"
        BY <1>0, <1>1, <3>1, <3>2, <3>4, <4>1, <4>2 DEF Moves, InUse, Using, Awaits
      <4>3. CASE th[t].pc = "taken" /\ th'[t].owner = th[t].owner /\ th'[t].pc # "taken"
        BY <3>1, <4>1, <4>3 DEF Holds, Using
      <4>4. CASE th[t].pc = "shutdown" /\ Clears
        BY <1>1, <3>1, <3>4, <4>1, <4>4 DEF Moves, Using, Awaits, Clears
      <4> QED BY <1>1, <3>4, <4>2, <4>3, <4>4 DEF Moves
    <3>5. CASE ~Stream(t) /\ job[t] # "close"
      <4>1. th'[t].pc \notin {"checked", "taken", "inside"}
        BY <1>0, <2>1, <3>5 DEF Pcs, Stream, Jobs
      <4>2. ~Among(queue', t, {"write", "disconnect"})
        BY <1>1, <3>2, <3>5 DEF Moves, Adds
      <4> QED BY <3>1, <4>1, <4>2 DEF Using, Awaits
    <3> QED BY <3>3, <3>4, <3>5
  <2>5. InSet
    <3>1. th'[t].pc = "inside" => Stream(t)
      BY <1>0, <2>1 DEF Pcs, Stream, Jobs
    <3>2. th'[t].pc = "inside" => th'[t].in = handle /\ handle # Null
      BY <1>1, <3>1 DEF Moves
    <3> QED BY <2>1, <3>2 DEF Looks
  <2>6. Grows /\ Kept
    BY <2>1, <2>3, <2>4
  <2> HIDE DEF Grows, Kept, InSet
  <2> QED BY <1>a, <2>5, <2>6
<1>2. CASE IoEffect /\ ~Busy
  <2>1. /\ UNCHANGED <<memory, th>> /\ io' # Idle
        /\ \A u, K : Among(queue, u, K) <=> Among(queue', u, K) \/ (u = io'.who /\ io'.kind \in K)
        /\ io'.kind \in Kinds /\ (io'.kind # "disconnect" => io'.step = io'.kind)
    BY <1>2, Taking DEF network
  <2>2. Grows
    <3> SUFFICES ASSUME NEW t \in Threads, NEW a \in Addresses, Holds(t, a)' PROVE Holds(t, a)
      OBVIOUS
    <3>1. CASE t \in Using(a)'
      BY <2>1, <3>1 DEF Holds, Using, Awaits
    <3>2. CASE th[t].owner = a /\ t = io'.who /\ io'.kind \in {"write", "disconnect"}
      BY <2>1, <3>2 DEF Holds, Using, Awaits
    <3> QED BY <2>1, <3>1, <3>2 DEF Holds, Serves, Busy
  <2>3. Kept /\ InSet
    BY <2>1 DEF Looks
  <2> HIDE DEF Grows, Kept, InSet
  <2> QED BY <1>a, <2>2, <2>3
<1>3. CASE IoEffect /\ Busy
  <2>0. /\ Served /\ queue' = queue /\ io.who \in Threads /\ io.at \in Refs
        /\ io' = Idle \/ (io'.who = io.who /\ io'.kind = io.kind)
    BY <1>3, ServedFrame, WorkTypes DEF IoEffect, Goes, Returns, Busy
  <2>1. th'[io.who].pc \notin {"checked", "taken", "inside"} /\ ~Among(queue, io.who, {"write", "disconnect"})
    <3>1. th[io.who].pc = "wait" /\ ~Among(queue, io.who, {"write", "disconnect"})
      BY <1>3, Working, Waiting DEF Serves
    <3>2. CASE th'[io.who].pc = th[io.who].pc
      BY <3>1, <3>2
    <3>3. CASE io' = Idle
      <4>1. PICK r : Returns(r)
        BY <1>3, <3>3 DEF IoEffect, Goes, Busy
      <4> QED BY <3>1, <4>1 DEF Returns, After
    <3> QED BY <2>0, <3>1, <3>2, <3>3 DEF Served
  <2>2. /\ \A u \in Threads \ {io.who} : th'[u] = th[u]
        /\ \A u \in Threads : th'[u].owner = th[u].owner /\ th'[u].in = th[u].in
    BY <1>3, <2>0 DEF Served
  <2>3. InSet
    BY <2>1, <2>2 DEF Looks
  <2>4. \A t \in Threads, a \in Addresses : t \in Using(a)' => t # io.who /\ t \in Using(a)
    BY <2>0, <2>1, <2>2 DEF Using, Awaits
  <2>5. \A t \in Threads, a \in Addresses : Holds(t, a)' => Holds(t, a)
    <3>1. io'.step = "write" /\ io' # Idle => FALSE
      BY <1>3 DEF IoEffect, Goes, Returns, Busy
    <3> QED BY <1>3, <2>0, <2>2, <2>4, <3>1 DEF Holds, Serves, Busy
  <2>6. CASE Kept
    <3>1. Grows
      BY <2>5
    <3> HIDE DEF Grows, Kept, InSet
    <3> QED BY <1>a, <2>3, <2>6, <3>1
  <2>7. CASE io.step = "free" /\ memory' = [memory EXCEPT ![io.at] = NoConn] /\ freedUnder' = freedUnder \cup Using(io.at)
    <3>1. io' = Idle \/ io'.kind # "disconnect"
      BY <1>3, <2>7 DEF IoEffect, Goes, Returns, Requests, Busy
    <3> SUFFICES ASSUME NEW t \in Threads, NEW a \in Addresses, memory'[a] = NoConn, Holds(t, a)'
                 PROVE  t \in freedUnder'
      BY <2>3 DEF Looks
    <3>2. CASE a = io.at
      <4>1. t \in Using(a)'
        BY <1>3, <3>1, <2>7 DEF Holds, Serves, Busy, IoEffect, Goes, Returns, Requests
      <4> QED BY <2>4, <2>7, <3>2, <4>1
    <3>3. CASE a # io.at
      <4>1. memory[a] = NoConn /\ Holds(t, a)
        BY <1>0, <2>5, <2>7, <3>3
      <4> QED BY <1>0, <4>1 DEF Looks
    <3> QED BY <3>2, <3>3
  <2>8. Kept \/ (io.step = "free" /\ memory' = [memory EXCEPT ![io.at] = NoConn] /\ freedUnder' = freedUnder \cup Using(io.at))
    BY <1>0, <1>3 DEF IoEffect, Busy, network
  <2> HIDE DEF Kept
  <2> QED BY <2>6, <2>7, <2>8
<1>4. CASE UNCHANGED <<job, history, memory, made, handle, queue, io, shut, th>>
  BY <1>4 DEF Looks, Holds, Using, Awaits, Serves, Busy, history
<1> QED BY <1>1, <1>2, <1>3, <1>4, SafeCases, Zenon

\* What a stream knows that no new connection overtook.
LEMMA StreamsStep ==
  ASSUME Types, Queued, Serving, InUse, Streams, [Next]_vars PROVE Streams'
<1>0. /\ handle \in Refs /\ memory \in [Addresses -> 0..made] /\ NoConn = 0 /\ Null \notin Addresses /\ made \in Nat
      /\ job' = job /\ renewedUnder \subseteq renewedUnder' /\ th \in [Threads -> ThreadRecords]
      /\ \A t \in Threads : job[t] \in Jobs /\ th[t].pc \in Pcs(job[t]) /\ th[t].owner \in Refs
  BY Histories, Facts DEF Types, Conns, ThreadRecords
<1> SUFFICES ASSUME NEW s \in Threads, s \notin renewedUnder', Stream(s) PROVE StreamOf(s)'
  BY <1>0 DEF Streams, Stream
<1>a. StreamOf(s) /\ job[s] # "close" /\ s \notin renewedUnder
  BY <1>0 DEF Streams, Stream
<1>b. Among(queue, s, {"closefh"}) => Among(queue, s, Files)
  BY DEF Among, Files
<1>1. ASSUME NEW t \in Threads, Framed(t), Moves(t) PROVE StreamOf(s)'
  <2>1. /\ UNCHANGED <<memory, io>> /\ handle' \in {handle, Null} /\ \A u \in Threads \ {t} : th'[u] = th[u]
        /\ th[t].pc \notin {"wait", "done"} /\ th'[t].fh = th[t].fh
    BY <1>1 DEF Framed, Own
  <2>2. CASE t # s
    <3>1. \A K : Among(queue', s, K) => Among(queue, s, K)
      BY <1>0, <1>1, <2>2 DEF Moves, Adds, Clears
    <3>2. \A K : Does(s, K)' => Does(s, K)
      BY <2>1, <3>1 DEF Does, Awaits, Serves, Busy
    <3>3. /\ th'[s] = th[s] /\ (On(s)' <=> On(s)) /\ (Serves(s)' <=> Serves(s))
      BY <2>1, <2>2 DEF On, Serves, Busy
    <3>4. (Does(s, Files)' => Does(s, Files)) /\ (Does(s, {"closefh"})' => Does(s, {"closefh"}))
      BY <3>2
    <3> HIDE DEF On, Does, Serves
    <3> QED BY <1>a, <2>1, <3>3, <3>4 DEF StreamOf
  <2>3. CASE t = s
    <3>1. ~Serves(s)' /\ \A K : ~Among(queue, s, K)
      BY <2>1, <2>3, Working, Waiting DEF Serves, Busy
    <3>2. handle' = handle
      BY <1>1, <1>a, <2>3 DEF Framed
    <3>3. CASE th[s].pc = "start"
      <4>1. th'[s].pc \in {"wait", "done"} /\ (queue' = queue \/ Adds(s, "open"))
        BY <1>1, <2>3, <3>3 DEF Moves, On
      <4>2. ~Among(queue', s, Files) /\ ~Among(queue', s, {"closefh"})
        BY <3>1, <4>1 DEF Adds, Files
      <4> QED BY <3>1, <4>1, <4>2 DEF StreamOf, On, Does, Awaits
    <3>4. CASE th[s].pc = "opened"
      <4>1. th'[s].pc = "stream" /\ th'[s].owner = handle /\ queue' = queue
        BY <1>1, <2>3, <3>4 DEF Moves, On
      <4> QED BY <1>a, <2>1, <2>3, <3>1, <3>2, <3>4, <4>1 DEF StreamOf, On, Does, Awaits
    <3>5. CASE On(s)
      <4>1. /\ th'[s].owner = th[s].owner /\ th'[s].pc # "opened"
            /\ queue' = queue \/ Adds(s, "read") \/ Adds(s, "write") \/ (Adds(s, "closefh") /\ handle = th[s].owner)
        BY <1>1, <2>3, <3>5 DEF Moves, On
      <4>2. Among(queue', s, {"closefh"}) => handle = th[s].owner
        BY <3>1, <4>1 DEF Adds
      <4> QED BY <1>a, <2>1, <2>3, <3>1, <3>2, <3>5, <4>1, <4>2 DEF StreamOf, Does, Awaits
    <3> QED BY <1>1, <2>3, <3>3, <3>4, <3>5 DEF Moves
  <2> QED BY <2>2, <2>3
<1>2. CASE IoEffect /\ ~Busy
  <2>1. /\ UNCHANGED <<memory, handle, th>> /\ io' # Idle
        /\ \A u, K : Among(queue, u, K) <=> Among(queue', u, K) \/ (u = io'.who /\ io'.kind \in K)
        /\ io'.kind \in Kinds /\ (io'.kind # "disconnect" => io'.step = io'.kind)
    BY <1>2, Taking DEF network
  <2>2. (Does(s, Files)' => Does(s, Files)) /\ (Does(s, {"closefh"})' => Does(s, {"closefh"}))
    BY <1>2, <2>1 DEF Does, Awaits, Serves, Busy
  <2> QED BY <1>a, <2>1, <2>2 DEF StreamOf, On, Serves
<1>3. CASE IoEffect /\ Busy
  <2>0. /\ Served /\ queue' = queue /\ io.who \in Threads /\ io.at \in Refs
        /\ io' = Idle \/ (io'.who = io.who /\ io'.kind = io.kind)
        /\ th'[s].owner = th[s].owner
    BY <1>3, ServedFrame, WorkTypes DEF IoEffect, Goes, Returns, Busy, Served
  <2>1. (Does(s, Files)' => Does(s, Files)) /\ (Does(s, {"closefh"})' => Does(s, {"closefh"}))
    BY <1>3, <2>0 DEF Does, Awaits, Serves, Busy
  <2>2. CASE memory' = memory \/ (io.step = "free" /\ memory' = [memory EXCEPT ![io.at] = NoConn])
    <3>1. /\ handle' \in {handle, Null} /\ (memory' # memory => handle' = handle)
      BY <1>0, <1>3, <2>2 DEF IoEffect, Busy
    <3>2. \A a \in Addresses : memory'[a] \in {memory[a], NoConn}
      BY <1>0, <2>2
    <3>3. handle' # Null => memory'[handle'] = memory[handle]
      <4>1. io.step = "free" => io.at # handle
        BY <1>3, Working DEF InUse, Serving
      <4> QED BY <1>0, <2>2, <3>1, <4>1 DEF Refs
    <3>4. ASSUME Serves(s)', io'.kind = "closefh", io'.step = "native" PROVE io'.at \in {th[s].owner, Null}
      <4>1. Serves(s) /\ io.kind = "closefh" /\ (io.step = "send" /\ io'.at = handle)
        BY <1>3, <2>0, <3>4 DEF IoEffect, Goes, Returns, Serves, Serving, Busy, Kinds, Requests
      <4> QED BY <1>a, <4>1 DEF StreamOf, Does
    <3>5. CASE th'[s] = th[s]
      <4>1. On(s)' <=> On(s)
        BY <3>5 DEF On
      <4> QED BY <1>0, <1>a, <2>1, <3>1, <3>2, <3>3, <3>4, <3>5, <4>1 DEF StreamOf, Refs
    <3>6. CASE s = io.who /\ io' = Idle
      <4>1. PICK r : Returns(r) /\ r \in {"ok", "failed", "denied"}
        BY <1>3, <3>6 DEF IoEffect, Goes, Busy
      <4>2. ~Serves(s)' /\ Serves(s) /\ io.kind \in Files \cup {"open"} /\ th[s].pc = "wait"
        BY <1>3, <3>6, Working DEF Serves, Busy
      <4>3. CASE io.kind = "open"
        <5>1. th'[s].pc \in {"opened", "done"}
              /\ (th'[s].pc = "opened" => r = "ok" /\ th'[s].fh = memory[io.at])
          BY <3>6, <4>1, <4>3 DEF Returns, After
        <5>2. th'[s].pc = "opened" => io.step = "judge" /\ memory' = memory /\ handle' = handle /\ handle \in {io.at, Null}
          <6>1. th'[s].pc = "opened" => io.step = "judge" /\ memory' = memory /\ handle' = handle
            BY <1>3, <3>6, <4>3 DEF IoEffect, Goes, Returns, After, Busy, network
          <6> QED BY <1>3, <4>3, <6>1 DEF InUse
        <5>3. ~Does(s, Files)' /\ ~Does(s, {"closefh"})'
          <6>1. ~Among(queue, s, Files) /\ ~Among(queue, s, {"closefh"})
            BY <4>2, Waiting
          <6> QED BY <2>0, <4>2, <6>1 DEF Does, Awaits
        <5> QED BY <4>2, <5>1, <5>2, <5>3 DEF StreamOf, On
      <4>4. CASE io.kind \in Files
        <5>1. th'[s].fh = th[s].fh /\ th'[s].pc # "opened" /\ Does(s, Files)
          BY <3>6, <4>1, <4>2, <4>4 DEF Returns, After, Files, Does
        <5> QED BY <1>0, <1>a, <2>0, <2>1, <3>1, <3>2, <4>2, <5>1 DEF StreamOf, Refs
      <4> QED BY <4>2, <4>3, <4>4
    <3>7. CASE s = io.who /\ io' # Idle /\ th'[s] # th[s]
      <4>1. FALSE
        <5>1. io.kind # "call"
          BY <1>3, <3>7, Working DEF Files
        <5> QED BY <1>3, <3>7, <5>1 DEF IoEffect, Returns, Requests, Busy
      <4> QED BY <4>1
    <3> QED BY <1>3, <2>0, <3>5, <3>6, <3>7 DEF Served
  <2>3. CASE /\ io.step = "connect" /\ UNCHANGED th /\ Goes("send", io.at, io.sent, io.out)
             /\ \E a \in Addresses : /\ memory' = [memory EXCEPT ![a] = made + 1] /\ handle' = a
                                     /\ renewedUnder' = renewedUnder \cup Overtaken(a)
    <3>1. PICK a \in Addresses : /\ memory' = [memory EXCEPT ![a] = made + 1] /\ handle' = a
                                 /\ renewedUnder' = renewedUnder \cup Overtaken(a)
      BY <2>3
    <3>2. th[s].pc # "opened" /\ th[s].owner # a /\ ~Among(queue, s, {"closefh"})
      BY <3>1 DEF Overtaken, Awaits
    <3>3. io.kind \in Requests
      BY <1>3, <2>3, Working
    <3>4. ~Does(s, {"closefh"})' /\ ~(Serves(s)' /\ io'.kind = "closefh")
      BY <2>0, <2>3, <3>2, <3>3 DEF Does, Awaits, Serves, Goes, Requests
    <3>5. th[s].owner # Null => memory'[th[s].owner] = memory[th[s].owner]
      BY <1>0, <3>1, <3>2 DEF Refs
    <3>6. On(s)' <=> On(s)
      BY <2>3 DEF On
    <3> QED BY <1>a, <2>1, <2>3, <3>2, <3>4, <3>5, <3>6 DEF StreamOf
  <2> QED BY <1>3, <2>2, <2>3 DEF IoEffect, Busy, network
<1>4. CASE UNCHANGED <<job, history, memory, made, handle, queue, io, shut, th>>
  BY <1>a, <1>4 DEF StreamOf, On, Does, Awaits, Serves, Busy
<1> QED BY <1>1, <1>2, <1>3, <1>4, SafeCases, Zenon

-----------------------------------------------------------------------------
(* The invariant *)

LEMMA InitInv == Init => IInv
<1> SUFFICES ASSUME Init PROVE IInv
  OBVIOUS
<1>0. PICK a \in Addresses : memory = [b \in Addresses |-> IF b = a THEN 1 ELSE NoConn] /\ handle = a
  BY DEF Init
<1>1. /\ job \in Teams /\ \A t \in Threads : job[t] \in Jobs
      /\ dropped = {} /\ made = 1 /\ queue = <<>> /\ io = Idle /\ shut = FALSE
      /\ freedUnder = {} /\ renewedUnder = {}
  BY Facts DEF Init
<1>2. /\ th \in [Threads -> ThreadRecords]
      /\ \A t \in Threads : /\ th[t].pc = "start" /\ th[t].effects = 0
                            /\ job[t] = "pread" => th[t].fh = 1
  <2>1. 1 \in Numbers /\ NoConn \in Numbers /\ Null \in Refs
    BY Facts DEF Numbers, Conns, Refs
  <2>2. \A fh \in Numbers : /\ NewThread(fh) \in ThreadRecords /\ NewThread(fh).pc = "start"
                            /\ NewThread(fh).effects = 0 /\ NewThread(fh).fh = fh
    BY <2>1 DEF NewThread, ThreadRecords, Places
  <2>3. th = [t \in Threads |-> NewThread(IF job[t] = "pread" THEN 1 ELSE NoConn)]
    BY DEF Init
  <2> HIDE DEF NewThread
  <2> QED BY <2>1, <2>2, <2>3
<1>3. Types
  <2>1. \A t \in Threads : th[t].pc \in Pcs(job[t])
    BY <1>1, <1>2 DEF Pcs, Jobs
  <2>2. memory \in [Addresses -> 0..made] /\ made \in Conns /\ handle \in Refs
    BY <1>0, <1>1, Facts DEF Conns, Refs
  <2>3. io \in Works \cup {Idle} /\ dropped \subseteq 1..made /\ shut \in BOOLEAN
    BY <1>1
  <2>4. queue \in Seq(Tasks)
    BY <1>1
  <2> QED BY <1>1, <1>2, <2>1, <2>2, <2>3, <2>4 DEF Types
<1>4. Len(queue) = 0 /\ 1..Len(queue) = {} /\ ~Busy
  BY <1>1 DEF Busy
<1>5. Queued /\ Serving
  BY <1>1, <1>4 DEF Queued, Serving
<1>6. Told /\ AnswerIsTrue
  BY <1>2, <1>4 DEF Told, ToldOf, AnswerIsTrue, Doing
<1>a. /\ \A t \in Threads : \A K : ~Among(queue, t, K)
      /\ \A b \in Addresses : memory[b] # NoConn => b = handle /\ memory[b] = 1
      /\ handle # Null => memory[handle] = 1
  BY <1>0, <1>1, Facts DEF Among
<1>7. Closings /\ Positioned
  BY <1>0, <1>2, <1>a DEF Closings, ClosingOf, Positioned, Doing, Closing
<1>8. InUse /\ Looks /\ Streams
  BY <1>2, <1>4, <1>a, Facts DEF InUse, Looks, Holds, Using, Awaits, Serves, Streams, StreamOf, Does, On, Closing, Doing
<1> QED BY <1>3, <1>5, <1>6, <1>7, <1>8 DEF IInv

LEMMA Step == ASSUME IInv, [Next]_vars PROVE IInv'
<1>1. Types' /\ Queued' /\ Serving' /\ Told' /\ AnswerIsTrue'
  BY TypesStep, QueuedStep, ServingStep, ToldStep DEF IInv
<1>2. Closings' /\ Positioned'
  BY ClosingsStep, PositionedStep DEF IInv
<1>3. ~Undone' => InUse' /\ Looks' /\ Streams'
  <2> SUFFICES ASSUME ~Undone' PROVE InUse' /\ Looks' /\ Streams'
    OBVIOUS
  <2>1. ~Undone
    BY Histories DEF IInv
  <2>2. Types /\ Queued /\ Serving /\ Closings /\ InUse /\ Looks /\ Streams
    BY <2>1 DEF IInv
  <2> QED BY <2>2, InUseStep, LooksStep, StreamsStep
<1> QED BY <1>1, <1>2, <1>3 DEF IInv

\* The inductive invariant holds of every execution.
THEOREM Invariant == Spec => []IInv
<1>1. IInv /\ [Next]_vars => IInv'
  BY Step
<1> QED BY InitInv, <1>1, PTL DEF Spec

LEMMA TypesHold == ASSUME IInv PROVE TypeOK
<1>1. memory \in [Addresses -> {NoConn} \cup Conns]
  BY Facts DEF IInv, Types, Conns
<1>2. Busy => io.who \in Threads /\ io.kind \in Kinds /\ io.at \in Refs /\ io.sent \in 0..2 /\ th[io.who].pc = "wait"
  BY WorkTypes DEF IInv, Queued, Submitted
<1> QED BY <1>1, <1>2 DEF IInv, Types, TypeOK, Refs, Tasks, Busy

LEMMA UsedSafely == ASSUME IInv PROVE SafeUse
<1>0. /\ TypeOK /\ Types /\ Queued /\ Serving /\ Closings /\ Positioned
      /\ handle \in Refs /\ \A t \in Threads : th[t].in \in Refs /\ th[t].owner \in Refs
  BY TypesHold DEF IInv, Types, ThreadRecords
<1>1. ClosedForGood
  <2> SUFFICES ASSUME shut, Closing \cap renewedUnder = {}
               PROVE  /\ handle = Null
                      /\ \A a \in Addresses : memory[a] # NoConn => io # Idle /\ io.step = "free" /\ io.at = a
    BY DEF ClosedForGood
  <2>1. PICK c \in Closing : th[c].pc = "done"
    BY <1>0 DEF Queued
  <2>2. ClosingOf(c) /\ c \notin renewedUnder
    BY <1>0, <2>1 DEF Closings
  <2> QED BY <2>1, <2>2, Facts DEF ClosingOf, Freeing, Busy
<1> SUFFICES ASSUME ~Undone
             PROVE  /\ \A p \in Inside :
                         memory[p[2]] = NoConn => p[1] \in freedUnder /\ (p \in OnIo => io.kind \in {"write", "disconnect"})
                    /\ OnFile({"write"}) /\ Me \notin freedUnder \cup renewedUnder => memory[io.at] = th[Me].fh
                    /\ OnFile({"read", "closefh"}) /\ Me \notin renewedUnder => memory[io.at] = th[Me].fh
                    /\ OnFile({"pread"}) => memory[io.at] = th[Me].fh
  BY <1>0, <1>1, Zenon DEF SafeUse
<1>2. InUse /\ Looks /\ Streams
  BY DEF IInv
<1>3. ASSUME NEW p \in Inside, memory[p[2]] = NoConn
      PROVE  p[1] \in freedUnder /\ (p \in OnIo => io.kind \in {"write", "disconnect"})
  <2>1. CASE p \in OnIo
    <3>1. p = <<io.who, io.at>> /\ Busy /\ io.step \in {"native", "free"} /\ io.at # Null
      BY <2>1 DEF OnIo, Busy
    <3> QED BY <1>2, <1>3, <3>1 DEF InUse
  <2>2. CASE p \in OffIo
    <3>1. PICK t \in Threads : p = <<t, th[t].in>> /\ th[t].pc = "inside"
      BY <2>2 DEF OffIo
    <3>2. th[t].in \in Addresses /\ t \in Using(th[t].in)
      BY <1>0, <1>2, <3>1 DEF Looks, Using, Refs
    <3>3. p \notin OnIo
      BY <1>0, <3>1, Working DEF OnIo, Busy
    <3> QED BY <1>2, <1>3, <3>1, <3>2, <3>3 DEF Looks, Holds
  <2> QED BY <1>3, <2>1, <2>2 DEF Inside
<1>4. ASSUME OnFile({"read", "write", "closefh"}), Me \notin renewedUnder,
             OnFile({"write"}) => Me \notin freedUnder
      PROVE  memory[io.at] = th[Me].fh
  <2>1. Busy /\ io.step = "native" /\ io.at # Null /\ io.kind \in Files /\ Me = io.who /\ (io.kind = "write" => Me \notin freedUnder)
    BY <1>4 DEF OnFile, Me, Busy, Files
  <2>2. Stream(Me) /\ Me \in Threads /\ Does(Me, Files) /\ StreamOf(Me)
    BY <1>0, <1>2, <1>4, <2>1, Working DEF Does, Serves, Streams, Files
  <2>3. io.at = th[Me].owner
    <3>1. io.kind \in {"read", "write"} => io.at = th[Me].owner
      BY <1>0, <2>1 DEF Serving
    <3>2. io.kind = "closefh" => io.at = th[Me].owner
      BY <2>1, <2>2 DEF StreamOf, Serves
    <3> QED BY <2>1, <3>1, <3>2 DEF Files
  <2>4. memory[io.at] # NoConn
    BY <1>2, <2>1 DEF InUse, Files
  <2> QED BY <2>1, <2>2, <2>3, <2>4 DEF StreamOf
<1>5. ASSUME OnFile({"pread"}) PROVE memory[io.at] = th[Me].fh
  <2>1. Busy /\ io.step = "native" /\ io.at # Null /\ io.kind = "pread" /\ Me = io.who
    BY <1>5 DEF OnFile, Me, Busy
  <2>2. Me \in Doing({"pread"}) /\ io.at \in Addresses
    BY <1>0, <2>1, Working, WorkTypes DEF Refs
  <2>3. memory[io.at] # NoConn
    BY <1>2, <2>1 DEF InUse
  <2> QED BY <1>0, <2>2, <2>3 DEF Positioned
<1> QED BY <1>3, <1>4, <1>5 DEF OnFile

\* However a client is shared among streams, calls and the close() that ends
\* it, a thread enters a context that was freed only when it had looked at the
\* handle before (write after its owner check, errText, close()), a file
\* handle is used on another connection only by such a write or by a stream
\* that a new connection overtook, and close is for good when none overtook
\* it; only a close() that disconnects an address twice undoes this (smbRequest,
\* reconnect, closeHard, openInput, openOutput and pread of NativeSmbClient).
THEOREM ConnectionsUsedSafely == Spec => []SafeUse
<1>1. IInv => SafeUse
  BY UsedSafely
<1> QED BY Invariant, <1>1, PTL

\* However the client is used, mkdir, delete and rename report what happened:
\* success only of a request that took effect, a denial or a refused
\* submission only of one that did not, and none takes effect three times.
THEOREM AnswersAreTrue == Spec => []AnswerIsTrue
<1>1. IInv => AnswerIsTrue
  BY DEF IInv
<1> QED BY Invariant, <1>1, PTL

==============================================================================
