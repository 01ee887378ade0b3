----------------------- MODULE PrivilegedShell_proofs -----------------------
(***************************************************************************)
(* Proofs about PrivilegedShell for every number of threads and shells and *)
(* every assignment of jobs.                                               *)
(*                                                                         *)
(* Types says what each record holds, Calling what the holder of the lock  *)
(* may rely on at each step, OneAlive that a living shell is the one in    *)
(* proc.  For TargetKept the types also say what can be told: no look is    *)
(* answered "no", in no queue, output or answer, unless it has run when     *)
(* nothing was to be seen, so a rename that has come to its mv has, for     *)
(* each of its looks, lost it or seen nothing.                              *)
(*                                                                         *)
(* On top of it Honest says what the answers rest on: the session of a call *)
(* holds no command or output but that call's, no run is repeated, so the  *)
(* reader of a call that gave up is never taken for the present one's, and *)
(* an exit status that is on its way says what is so of the files.         *)
(***************************************************************************)
EXTENDS PrivilegedShell, TLAPS

Tries == {"try1", "try2"}
Probes == {"id1", "id2"}
Phases == Probes \cup Tries
Operations == {"mkdir", "rename"}
Codes == {"yes", "no", "none"}

ThreadRecords ==
  [pc : {"start", "reading", "done"}, k : 1..3, lost : SUBSET (1..2),
   answer : {"none", "lost", "yes", "no", "refused"}, foreign : BOOLEAN, got : Nat]
ShellRecords ==
  [born : BOOLEAN, up : BOOLEAN, sink : BOOLEAN, source : BOOLEAN, stdin : Seq(Runs),
   run : Runs \cup {NoRun}, stage : {"none", "begun", "noisy", "ended"}, code : Codes, out : Seq(Items)]
ReaderRecords ==
  [at : {"idle", "read", "inside"}, run : Runs \cup {NoRun}, session : Sessions \cup {NoSession},
   foreign : BOOLEAN, got : Codes \cup {"closed"}]
CallRecords ==
  [step : {"none", "spawn", "write", "wait", "failed", "sink", "source", "destroy"},
   phase : Phases \cup {"none", "close"}]

(* The runs there have been: a thread is at the k-th command of its job.   *)
Begun == {r \in Runs : job[r.who] \in Operations /\ r.k <= th[r.who].k /\ (job[r.who] = "mkdir" => r.k = 1)}

(* The look of a rename, and what may be told of it.                       *)
Looks(r) == r.phase \in Tries /\ job[r.who] = "rename" /\ r.k \in {1, 2}
Telling(r) == IF Looks(r) /\ <<r.who, r.k>> \notin unseen THEN {"yes", "none"} ELSE Codes
Told == {i \in Items : i.run \in Begun /\ i.code \in Telling(i.run)}

Shells ==
  {r \in ShellRecords :
    /\ r.stdin \in Seq(Begun) /\ r.out \in Seq(Told) /\ r.run \in Begun \cup {NoRun}
    /\ (r.run = NoRun) = (r.stage = "none")
    /\ r.code \in IF r.run = NoRun THEN {"none"} ELSE Telling(r.run)}

Readers ==
  {r \in ReaderRecords :
    /\ r.run \in Begun \cup {NoRun}
    /\ r.at # "idle" => r.session \in Sessions /\ r.run # NoRun
    /\ r.got \in IF r.run = NoRun THEN {"none"} ELSE Telling(r.run) \cup {"closed"}}

(* A thread that has come to its k-th command went on from each command    *)
(* before it because that look was lost, or saw nothing.                    *)
PassedBy(t, r, k) == k \in r.lost \/ <<t, k>> \in unseen
Placed(t) ==
  {r \in ThreadRecords :
    /\ r.got <= cat.sent
    /\ job[t] = "mkdir" => r.k = 1
    /\ job[t] = "rename" => \A k \in 1..2 : k < r.k => PassedBy(t, r, k)}

World ==
  /\ dir \in BOOLEAN /\ source \in BOOLEAN /\ target \in {"there", "hidden", "none", "moved", "replaced"}
  /\ cat \in [up : BOOLEAN, sent : Nat, code : {"none", "ok", "bad"}]

Types ==
  /\ job \in Teams /\ pool \in BOOLEAN /\ World
  /\ th \in [Threads -> ThreadRecords] /\ \A t \in Threads : th[t] \in Placed(t)
  /\ shell \in [Sessions -> Shells]
  /\ reader \in Readers
  /\ lock \in Threads \cup {Nobody} /\ call \in CallRecords /\ proc \in Sessions \cup {NoSession}

Calling ==
  /\ (lock = Nobody) = (call = NoCall)
  /\ lock # Nobody =>
       /\ th[lock].pc = "start" /\ call.step # "none" /\ call.phase # "none"
       /\ call.phase # "close" => job[lock] \in Operations
       /\ call.phase = "close" => job[lock] = "close" /\ call.step \in {"sink", "source", "destroy"}
  /\ call.step \in {"write", "wait"} => proc # NoSession
  /\ call.step = "spawn" => proc = NoSession /\ call.phase \in Probes
  /\ call.step = "wait" => pool
  /\ ~pool => call.phase \in {"none", "id1", "close"} /\ (lock = Nobody => proc = NoSession)

OneAlive == \A s \in Sessions : shell[s].up => s = proc

(* The inductive invariant.                                                *)
IInv == Types /\ Calling /\ OneAlive /\ TargetKept
-----------------------------------------------------------------------------
(* What the parts of the invariant say of each other's terms.               *)

USE ShellAssumption DEF ShellAssumption

LEMMA RunFacts ==
  /\ NoRun \notin Runs /\ NoSession \notin Sessions /\ Nobody \notin Threads
  /\ \A r \in Begun : r \in Runs /\ r # NoRun /\ r.who \in Threads /\ job[r.who] \in Operations
BY DEF NoRun, Runs, NoSession, Sessions, Begun

\* The commands of the runs that there are: of them only a look is a test.
LEMMA CommandFacts ==
  ASSUME NEW r \in Begun
  PROVE  /\ Command(r) \in {"mkdir", "test", "mv", "id"}
         /\ Command(r) = "test" <=> Looks(r)
         /\ Command(r) = "mv" => job[r.who] = "rename" /\ r.k = 3
<1>1. r \in Runs /\ r.phase \in Phases /\ r.k \in {1, 2, 3} /\ job[r.who] \in Operations
      /\ (job[r.who] = "mkdir" => r.k = 1)
  BY DEF Begun, Runs, Phases, Probes, Tries
<1>2. CASE r.phase \in Probes
  BY <1>2 DEF Command, Looks, Probes, Tries
<1>3. CASE r.phase \in Tries /\ job[r.who] = "mkdir"
  <2>1. Program(job[r.who]) = <<"mkdir">>
    BY <1>3 DEF Program
  <2> QED
    BY <1>1, <1>3, <2>1 DEF Command, Looks, Tries
<1>4. CASE r.phase \in Tries /\ job[r.who] = "rename"
  <2>1. Program(job[r.who]) = <<"test", "test", "mv">>
    BY <1>4 DEF Program
  <2>2. Command(r) = <<"test", "test", "mv">>[r.k]
    BY <1>4, <2>1 DEF Command, Tries
  <2>3. Command(r) = IF r.k = 3 THEN "mv" ELSE "test"
    BY <1>1, <2>2
  <2> QED
    BY <1>1, <1>4, <2>3 DEF Looks
<1> QED
  BY <1>1, <1>2, <1>3, <1>4 DEF Operations, Phases

\* As threads go on, and more looks have seen nothing, no more is forbidden.
LEMMA Growth ==
  ASSUME UNCHANGED job, unseen \subseteq unseen',
         \A t \in Threads : th[t].k \in Nat /\ th'[t].k \in Nat /\ th[t].k <= th'[t].k
  PROVE  /\ Begun \subseteq Begun'
         /\ \A r \in Runs : Telling(r) \subseteq Telling(r)'
         /\ Shells \subseteq Shells' /\ Readers \subseteq Readers'
<1>1. Begun \subseteq Begun'
  BY DEF Begun, Runs
<1>2. ASSUME NEW r \in Runs PROVE Telling(r) \subseteq Telling(r)'
  BY DEF Telling, Looks, Codes
<1>3. Told \subseteq Told'
  BY <1>1, <1>2 DEF Told, Items
<1>4. ASSUME NEW r \in Shells PROVE r \in Shells'
  <2>1. r.stdin \in Seq(Begun')
    BY <1>1 DEF Shells
  <2>2. r.out \in Seq(Told')
    BY <1>3 DEF Shells
  <2>3. r.run \in Runs \cup {NoRun}
    BY DEF Shells, ShellRecords
  <2>4. r.code \in IF r.run = NoRun THEN {"none"} ELSE Telling(r.run)'
    BY <1>2, <2>3 DEF Shells
  <2>5. r \in ShellRecords /\ (r.run = NoRun) = (r.stage = "none") /\ r.run \in Begun' \cup {NoRun}
    BY <1>1 DEF Shells
  <2> QED
    BY <2>1, <2>2, <2>4, <2>5 DEF Shells
<1>5. ASSUME NEW r \in Readers PROVE r \in Readers'
  <2>1. r.run \in Runs \cup {NoRun}
    BY DEF Readers, ReaderRecords
  <2>2. r.got \in IF r.run = NoRun THEN {"none"} ELSE Telling(r.run)' \cup {"closed"}
    BY <1>2, <2>1 DEF Readers
  <2>3. r \in ReaderRecords /\ r.run \in Begun' \cup {NoRun}
        /\ (r.at # "idle" => r.session \in Sessions /\ r.run # NoRun)
    BY <1>1 DEF Readers
  <2> QED
    BY <2>2, <2>3 DEF Readers
<1> QED
  BY <1>1, <1>2, <1>4, <1>5

\* The thread that holds the lock, what it runs, and how far its operation is.
LEMMA HolderFacts ==
  ASSUME Types, Calling, lock # Nobody, call.phase # "close"
  PROVE  /\ lock \in Threads /\ th[lock] \in ThreadRecords /\ job[lock] \in Operations
         /\ call.phase \in Phases => ThisRun \in Begun
<1>1. lock \in Threads /\ th[lock] \in ThreadRecords /\ job[lock] \in Operations
      /\ (job[lock] = "mkdir" => th[lock].k = 1)
  BY DEF Types, Calling, Placed
<1>2. ASSUME call.phase \in Phases PROVE ThisRun \in Begun
  <2>1. th[lock].k \in 1..3
    BY <1>1 DEF ThreadRecords
  <2>2. ThisRun.who = lock /\ ThisRun.k = th[lock].k /\ ThisRun.phase = call.phase
    BY DEF ThisRun
  <2>3. ThisRun \in Runs
    BY <1>1, <1>2, <2>1 DEF ThisRun, Runs, Phases, Probes, Tries
  <2> QED
    BY <1>1, <2>1, <2>2, <2>3 DEF Begun
<1> QED
  BY <1>1, <1>2
-----------------------------------------------------------------------------
(* The shell processes.                                                     *)

LEMMA InitInv == Init => IInv
<1> SUFFICES ASSUME Init PROVE IInv
  OBVIOUS
<1>1. th \in [Threads -> ThreadRecords] /\ \A t \in Threads : th[t] \in Placed(t)
  <2> DEFINE r == [pc |-> "start", k |-> 1, lost |-> {}, answer |-> "none", foreign |-> FALSE, got |-> 0]
  <2>1. r \in ThreadRecords
    BY DEF ThreadRecords
  <2>2. th = [t \in Threads |-> r] /\ cat.sent = 0
    BY DEF Init
  <2>3. r.k = 1 /\ r.lost = {} /\ r.got = 0
    OBVIOUS
  <2> HIDE DEF r
  <2> QED
    BY <2>1, <2>2, <2>3 DEF Placed
<1>2. NotStarted \in Shells /\ ~NotStarted.up
  <2>1. NotStarted \in ShellRecords
    BY DEF NotStarted, ShellRecords, Codes
  <2>2. /\ NotStarted.stdin = <<>> /\ NotStarted.out = <<>> /\ NotStarted.run = NoRun
        /\ NotStarted.stage = "none" /\ NotStarted.code = "none" /\ ~NotStarted.up
    BY DEF NotStarted
  <2>3. <<>> \in Seq(Begun) /\ <<>> \in Seq(Told)
    OBVIOUS
  <2> QED
    BY <2>1, <2>2, <2>3 DEF Shells
<1>3. shell = [s \in Sessions |-> NotStarted]
  BY DEF Init
<1>4. reader \in Readers
  <2>1. Resting \in ReaderRecords
    BY DEF Resting, ReaderRecords, Codes
  <2> QED
    BY <2>1 DEF Init, Resting, Readers
<1>5. World /\ job \in Teams /\ pool \in BOOLEAN /\ call \in CallRecords
      /\ lock \in Threads \cup {Nobody} /\ proc \in Sessions \cup {NoSession}
  BY DEF Init, World, NoCall, CallRecords
<1>6. Calling
  BY DEF Init, Calling, NoCall
<1>7. OneAlive /\ TargetKept
  BY <1>2, <1>3 DEF Init, OneAlive, TargetKept
<1> QED
  BY <1>1, <1>2, <1>3, <1>4, <1>5, <1>6, <1>7 DEF IInv, Types

\* A step of a shell that brings none to life, while nothing else happens.
LEMMA ShellPart ==
  ASSUME IInv, ShellOnly, UNCHANGED world,
         NEW s \in Sessions, NEW r \in Shells, Shell(s, r), r.up => shell[s].up
  PROVE  IInv'
<1>1. shell' = [shell EXCEPT ![s] = r] /\ shell \in [Sessions -> Shells]
  BY DEF Shell, IInv, Types
<1>2. Shells' = Shells /\ Readers' = Readers /\ \A t \in Threads : Placed(t)' = Placed(t)
  BY DEF ShellOnly, world, Shells, Readers, Placed, PassedBy, Begun, Told, Telling, Looks
<1>3. Types'
  BY <1>1, <1>2 DEF ShellOnly, world, IInv, Types, World
<1>4. Calling' /\ TargetKept'
  BY DEF ShellOnly, world, IInv, Calling, TargetKept, Doing
<1>5. OneAlive'
  BY <1>1 DEF ShellOnly, IInv, OneAlive
<1> QED
  BY <1>3, <1>4, <1>5 DEF IInv

\* The fields of what a shell can be.
LEMMA ShellFields ==
  ASSUME NEW r \in Shells
  PROVE  /\ r \in ShellRecords /\ r.up \in BOOLEAN /\ r.sink \in BOOLEAN /\ r.source \in BOOLEAN
         /\ r.stdin \in Seq(Begun) /\ r.stdin \in Seq(Runs)
         /\ r.out \in Seq(Told) /\ r.out \in Seq(Items)
         /\ r.run \in Begun \cup {NoRun} /\ (r.run = NoRun) = (r.stage = "none")
         /\ r.code \in IF r.run = NoRun THEN {"none"} ELSE Telling(r.run)
BY DEF Shells, ShellRecords

LEMMA BeginsStep ==
  ASSUME IInv, NEW s \in Sessions, Begins(s)
  PROVE  IInv'
<1> DEFINE o == shell[s]
           r == [o EXCEPT !.run = Head(o.stdin), !.stdin = Tail(o.stdin), !.stage = "begun"]
<1>1. o \in Shells
  BY DEF IInv, Types
<1>2. o.stdin \in Seq(Begun) /\ o.stdin # <<>> /\ o.run = NoRun /\ o \in ShellRecords
  BY <1>1, ShellFields DEF Begins
<1>3. Head(o.stdin) \in Begun /\ Tail(o.stdin) \in Seq(Begun)
  BY <1>2
<1>4. Head(o.stdin) \in Runs /\ Tail(o.stdin) \in Seq(Runs) /\ Head(o.stdin) # NoRun
  BY <1>3, <1>1, <1>2, ShellFields, RunFacts
<1>5. r \in ShellRecords
  BY <1>2, <1>4 DEF ShellRecords
<1>6. /\ r.run = Head(o.stdin) /\ r.stdin = Tail(o.stdin) /\ r.stage = "begun"
      /\ r.out = o.out /\ r.code = o.code /\ r.up = o.up
  BY <1>2 DEF ShellRecords
<1>7. Shell(s, r) /\ ShellOnly /\ UNCHANGED world
  BY DEF Begins
<1>8. o.code = "none" /\ o.out \in Seq(Told) /\ "none" \in Telling(r.run)
  BY <1>1, <1>2, ShellFields DEF Telling, Codes
<1> HIDE DEF r
<1>9. r \in Shells
  BY <1>3, <1>4, <1>5, <1>6, <1>8 DEF Shells
<1> QED
  BY <1>6, <1>7, <1>9, ShellPart

LEMMA PrintsStep ==
  ASSUME IInv, NEW s \in Sessions, Prints(s)
  PROVE  IInv'
<1> DEFINE o == shell[s]
           item == [run |-> o.run, code |-> IF o.up THEN o.code ELSE "none"]
           out == IF o.source THEN Append(o.out, item) ELSE o.out
           r == [o EXCEPT !.out = out, !.run = NoRun, !.stage = "none", !.code = "none"]
<1>1. o \in Shells /\ o.stage = "ended"
  BY DEF IInv, Types, Prints
<1>2. o \in ShellRecords /\ o.run \in Begun /\ o.run \in Runs /\ o.code \in Telling(o.run)
      /\ o.out \in Seq(Told) /\ o.stdin \in Seq(Begun)
  BY <1>1, ShellFields, RunFacts
<1>3. item.run = o.run /\ item.code \in Telling(o.run) /\ item \in Items
  BY <1>2 DEF Telling, Codes, Items
<1>4. item \in Told
  BY <1>2, <1>3 DEF Told
<1> HIDE DEF item
<1>5. out \in Seq(Told) /\ out \in Seq(Items)
  BY <1>1, <1>2, <1>3, <1>4, ShellFields
<1>6. Shell(s, r) /\ ShellOnly /\ UNCHANGED world
  BY DEF Prints, item
<1> HIDE DEF out
<1>7. r \in ShellRecords
  BY <1>2, <1>5 DEF ShellRecords, Codes
<1>8. /\ r.run = NoRun /\ r.stdin = o.stdin /\ r.stage = "none"
      /\ r.out = out /\ r.code = "none" /\ r.up = o.up
  BY <1>2 DEF ShellRecords
<1> HIDE DEF r
<1>9. r \in Shells
  BY <1>2, <1>5, <1>7, <1>8 DEF Shells
<1> QED
  BY <1>6, <1>8, <1>9, ShellPart

LEMMA ExitsStep ==
  ASSUME IInv, NEW s \in Sessions, Exits(s)
  PROVE  IInv'
<1> DEFINE o == shell[s]
           r == [o EXCEPT !.up = FALSE]
<1>1. o \in Shells
  BY DEF IInv, Types
<1>2. o \in ShellRecords
  BY <1>1, ShellFields
<1>3. r \in ShellRecords
  BY <1>2 DEF ShellRecords
<1>4. ~r.up /\ r.stdin = o.stdin /\ r.run = o.run
      /\ r.stage = o.stage /\ r.code = o.code /\ r.out = o.out
  BY <1>2 DEF ShellRecords
<1>5. Shell(s, r) /\ ShellOnly /\ UNCHANGED world
  BY DEF Exits
<1> HIDE DEF r
<1>6. r \in Shells
  BY <1>1, <1>3, <1>4 DEF Shells
<1> QED
  BY <1>4, <1>5, <1>6, ShellPart

LEMMA KilledFacts ==
  ASSUME NEW o \in Shells, NEW r \in Killed(o)
  PROVE  r \in Shells /\ ~r.up
<1>1. CASE ~o.up
  BY <1>1 DEF Killed
<1>2. CASE o.up
  <2> DEFINE alone == [o EXCEPT !.up = FALSE, !.stdin = <<>>]
             quiet == [alone EXCEPT !.run = NoRun, !.stage = "none", !.code = "none"]
  <2>1. r \in {alone, quiet}
    BY <1>2 DEF Killed
  <2>0. o \in ShellRecords /\ <<>> \in Seq(Runs) /\ <<>> \in Seq(Begun) /\ o.out \in Seq(Told)
    BY ShellFields
  <2>2. alone \in ShellRecords /\ ~alone.up /\ alone.stdin = <<>> /\ alone.run = o.run
        /\ alone.stage = o.stage /\ alone.code = o.code /\ alone.out = o.out
    BY <2>0 DEF ShellRecords
  <2> HIDE DEF alone
  <2>3. alone \in Shells
    BY <2>0, <2>2, ShellFields DEF Shells
  <2>4. quiet \in ShellRecords /\ ~quiet.up /\ quiet.stdin = <<>> /\ quiet.run = NoRun
        /\ quiet.stage = "none" /\ quiet.code = "none" /\ quiet.out = o.out
    BY <2>2 DEF ShellRecords, Codes
  <2> HIDE DEF quiet
  <2>5. quiet \in Shells
    BY <2>0, <2>4 DEF Shells
  <2> QED
    BY <2>1, <2>2, <2>3, <2>4, <2>5
<1> QED
  BY <1>1, <1>2, ShellFields

LEMMA DiesStep ==
  ASSUME IInv, NEW s \in Sessions, Dies(s)
  PROVE  IInv'
<1>1. shell[s] \in Shells
  BY DEF IInv, Types
<1>2. PICK r \in Killed(shell[s]) : Shell(s, r)
  BY DEF Dies
<1>3. ShellOnly /\ UNCHANGED world
  BY DEF Dies
<1> QED
  BY <1>1, <1>2, <1>3, KilledFacts, ShellPart

LEMMA DrainStep ==
  ASSUME IInv, NEW s \in Sessions, Drain(s)
  PROVE  IInv'
<1> DEFINE o == shell[s]
           r == [o EXCEPT !.stage = "ended"]
<1>1. o \in Shells /\ o.stage = "noisy"
  BY DEF IInv, Types, Drain
<1>2. o \in ShellRecords
  BY <1>1, ShellFields
<1>3. r \in ShellRecords
  BY <1>2 DEF ShellRecords
<1>4. /\ r.up = o.up /\ r.stdin = o.stdin /\ r.run = o.run
      /\ r.stage = "ended" /\ r.code = o.code /\ r.out = o.out
  BY <1>2 DEF ShellRecords
<1>5. Shell(s, r) /\ ShellOnly /\ UNCHANGED world
  BY DEF Drain
<1> HIDE DEF r
<1>6. r \in Shells
  BY <1>1, <1>3, <1>4 DEF Shells
<1> QED
  BY <1>4, <1>5, <1>6, ShellPart

LEMMA TakesEffectStep ==
  ASSUME IInv, NEW s \in Sessions, TakesEffect(s)
  PROVE  IInv'
<1> DEFINE o == shell[s]
           cmd == Command(o.run)
<1>1. o \in Shells /\ o.stage = "begun"
  BY DEF IInv, Types, TakesEffect
<1>2. o \in ShellRecords /\ o.run \in Begun /\ o.run \in Runs /\ o.run # NoRun
  BY <1>1, ShellFields, RunFacts
<1>3. cmd \in {"mkdir", "test", "mv", "id"} /\ (cmd = "test" <=> Looks(o.run))
      /\ (cmd = "mv" => job[o.run.who] = "rename" /\ o.run.k = 3)
  BY <1>2, CommandFacts
<1>4. PICK stage \in {"noisy", "ended"} : Shell(s, [o EXCEPT !.stage = stage, !.code = Status(cmd)])
  BY DEF TakesEffect
<1>5. Acts(o.run) /\ ShellOnly
  BY DEF TakesEffect
<1>6. World /\ World'
  <2>1. World
    BY DEF IInv, Types
  <2>2. dir' \in BOOLEAN /\ source' \in BOOLEAN
    BY <1>5, <2>1, <1>3 DEF Acts, World
  <2>3. target' \in {"there", "hidden", "none", "moved", "replaced"}
    BY <1>5, <2>1 DEF Acts, World
  <2> QED
    BY <1>5, <2>1, <2>2, <2>3 DEF World, ShellOnly
<1>7. /\ Status(cmd) \in {"yes", "no"}
      /\ cmd = "test" /\ Status(cmd) = "no" => <<o.run.who, o.run.k>> \in unseen'
  BY <1>3, <1>5 DEF Status, Acts
<1>8. unseen \subseteq unseen'
  BY <1>5 DEF Acts
<1>9. UNCHANGED <<job, th, lock, call, proc, pool, reader, cat>>
  BY <1>5 DEF ShellOnly
<1>10. \A t \in Threads : th[t] \in ThreadRecords /\ th[t] \in Placed(t)
  BY DEF IInv, Types
<1>11. \A t \in Threads : th[t].k \in Nat /\ th'[t].k \in Nat /\ th[t].k <= th'[t].k
  BY <1>9, <1>10 DEF ThreadRecords
<1>12. Shells \subseteq Shells' /\ Readers \subseteq Readers' /\ Begun \subseteq Begun'
  BY <1>8, <1>9, <1>11, Growth
<1> DEFINE r == [o EXCEPT !.stage = stage, !.code = Status(cmd)]
<1>13. r \in ShellRecords /\ r.up = o.up /\ r.stdin = o.stdin /\ r.run = o.run
       /\ r.stage = stage /\ r.code = Status(cmd) /\ r.out = o.out
  BY <1>2, <1>7 DEF ShellRecords, Codes
<1>14. Shell(s, r)
  BY <1>4
<1> HIDE DEF r
<1>15. r \in Shells'
  <2> PICK w \in Begun : w = o.run
    BY <1>2
  <2>1. o \in Shells'
    BY <1>1, <1>12
  <2>2. o.stdin \in Seq(Begun') /\ o.out \in Seq(Told')
    BY <2>1 DEF Shells
  <2>3. Status(cmd) \in Telling(w)'
    BY <1>3, <1>7, <1>8, <1>9 DEF Telling, Looks, Codes
  <2>4. w \in Begun' /\ w # NoRun /\ r.run = w
    BY <1>2, <1>12, <1>13
  <2> QED
    BY <1>13, <2>2, <2>3, <2>4 DEF Shells
<1>16. Types'
  <2>1. shell' \in [Sessions -> Shells']
    BY <1>12, <1>14, <1>15 DEF Shell, IInv, Types
  <2>2. \A t \in Threads : th'[t] \in Placed(t)'
    BY <1>8, <1>9, <1>10 DEF Placed, PassedBy
  <2> QED
    BY <1>6, <1>9, <1>12, <2>1, <2>2 DEF IInv, Types
<1>17. Calling'
  BY <1>9 DEF IInv, Calling
<1>18. OneAlive'
  BY <1>9, <1>13, <1>14 DEF Shell, IInv, OneAlive, Types
<1>19. TargetKept'
  <2>1. CASE target = "replaced"
    BY <1>8, <1>9, <2>1 DEF IInv, TargetKept, Doing
  <2>2. CASE target # "replaced" /\ target' = "replaced"
    <3>1. cmd = "mv"
      BY <1>5, <2>2 DEF Acts
    <3> DEFINE w == o.run.who
    <3>2. w \in Threads /\ job[w] = "rename" /\ o.run.k = 3 /\ o.run.k <= th[w].k
      BY <1>2, <1>3, <3>1, RunFacts DEF Begun
    <3>3. th[w] \in Placed(w) /\ th[w].k \in 1..3
      BY <1>10, <3>2 DEF ThreadRecords
    <3>4. th[w].k = 3
      BY <3>2, <3>3
    <3>5. \A k \in 1..2 : k \in th[w].lost \/ <<w, k>> \in unseen
      BY <3>2, <3>3, <3>4 DEF Placed, PassedBy
    <3> QED
      BY <1>8, <1>9, <3>2, <3>5 DEF TargetKept, Doing
  <2>3. CASE target' # "replaced"
    BY <2>3 DEF TargetKept
  <2> QED
    BY <2>1, <2>2, <2>3
<1> QED
  BY <1>16, <1>17, <1>18, <1>19 DEF IInv

LEMMA ShellSteps ==
  ASSUME IInv, NEW s \in Sessions, ShellStep(s) \/ Dies(s) \/ Drain(s)
  PROVE  IInv'
BY BeginsStep, TakesEffectStep, PrintsStep, ExitsStep, DiesStep, DrainStep DEF ShellStep

-----------------------------------------------------------------------------
(* The reader, and the process of a read.                                   *)

\* A step that changes the reader and takes lines from the output.
LEMMA ReaderPart ==
  ASSUME IInv, ReaderOnly, reader' \in Readers, shell' \in [Sessions -> Shells],
         \A s \in Sessions : shell'[s].up = shell[s].up
  PROVE  IInv'
<1>1. Shells' = Shells /\ Readers' = Readers /\ \A t \in Threads : Placed(t)' = Placed(t)
  BY DEF ReaderOnly, world, Shells, Readers, Placed, PassedBy, Begun, Told, Telling, Looks
<1>2. Types'
  BY <1>1 DEF ReaderOnly, world, IInv, Types, World
<1>3. Calling' /\ TargetKept'
  BY DEF ReaderOnly, world, IInv, Calling, TargetKept, Doing
<1>4. OneAlive'
  BY DEF ReaderOnly, IInv, OneAlive
<1> QED
  BY <1>2, <1>3, <1>4 DEF IInv

LEMMA RestingFacts == Resting \in Readers
<1>1. Resting \in ReaderRecords
  BY DEF Resting, ReaderRecords, Codes
<1> QED
  BY <1>1 DEF Resting, Readers

LEMMA GivesFacts ==
  ASSUME reader \in Readers, reader.at # "idle", NEW a \in Telling(reader.run) \cup {"closed"}
  PROVE  Gives(a) \in Readers
<1> DEFINE r == [reader EXCEPT !.at = "idle", !.got = a]
<1>1. reader \in ReaderRecords /\ reader.run \in Begun /\ reader.run # NoRun
  BY RunFacts DEF Readers
<1>2. a \in Codes \cup {"closed"}
  BY DEF Telling, Codes
<1>3. r \in ReaderRecords /\ r.run = reader.run /\ r.got = a /\ r.at = "idle"
  BY <1>1, <1>2 DEF ReaderRecords
<1> HIDE DEF r
<1>4. r \in Readers
  BY <1>1, <1>3 DEF Readers
<1>5. Gives(a) \in {r, Resting}
  BY DEF Gives, r
<1> QED
  BY <1>4, <1>5, RestingFacts

LEMMA TakeTaskStep == ASSUME IInv, TakeTask PROVE IInv'
<1> DEFINE r == [Resting EXCEPT !.at = "read", !.run = ThisRun, !.session = proc]
<1>1. call.step = "wait" /\ reader' = r /\ ReaderOnly /\ UNCHANGED shell
  BY DEF TakeTask
<1>2. Types /\ Calling /\ call \in CallRecords
  BY DEF IInv, Types
<1>3. lock # Nobody /\ call.phase \in Phases /\ proc \in Sessions
  BY <1>1, <1>2 DEF Calling, Types, CallRecords, NoCall, Phases, Probes, Tries
<1>4. ThisRun \in Begun /\ ThisRun \in Runs
  BY <1>2, <1>3, HolderFacts, RunFacts DEF Phases, Probes, Tries
<1>5. Resting \in ReaderRecords /\ Resting.got = "none"
  BY DEF Resting, ReaderRecords, Codes
<1>6. r \in ReaderRecords /\ r.run = ThisRun /\ r.session = proc /\ r.got = "none"
  BY <1>3, <1>4, <1>5 DEF ReaderRecords
<1> HIDE DEF r
<1>7. r \in Readers
  BY <1>3, <1>4, <1>6, RunFacts DEF Readers, Telling, Codes
<1> QED
  BY <1>1, <1>2, <1>7, ReaderPart DEF Types

LEMMA EnterReadLineStep == ASSUME IInv, EnterReadLine PROVE IInv'
<1> DEFINE r == [reader EXCEPT !.at = "inside"]
<1>1. reader.at = "read" /\ reader' \in {r, Gives("closed")} /\ ReaderOnly /\ UNCHANGED shell
  BY DEF EnterReadLine
<1>2. reader \in Readers /\ reader \in ReaderRecords
  BY DEF IInv, Types, Readers
<1>3. r \in ReaderRecords /\ r.run = reader.run /\ r.session = reader.session /\ r.got = reader.got
  BY <1>2 DEF ReaderRecords
<1> HIDE DEF r
<1>4. r \in Readers
  BY <1>1, <1>2, <1>3 DEF Readers
<1>5. Gives("closed") \in Readers
  BY <1>1, <1>2, GivesFacts
<1> QED
  BY <1>1, <1>4, <1>5, ReaderPart DEF IInv, Types

LEMMA ReadLineStep == ASSUME IInv, ReadLine PROVE IInv'
<1> DEFINE n == reader.session
           s == shell[n]
<1>1. reader.at = "inside" /\ reader \in Readers /\ reader \in ReaderRecords
  BY DEF ReadLine, IInv, Types, Readers
<1>2. n \in Sessions /\ s \in Shells /\ ReaderOnly /\ shell \in [Sessions -> Shells]
  BY <1>1 DEF ReadLine, IInv, Types, Readers
<1>3. CASE s.out = <<>> /\ reader' = Gives("closed") /\ UNCHANGED shell
  BY <1>1, <1>2, <1>3, GivesFacts, ReaderPart
<1> DEFINE item == Head(s.out)
           mine == item.run = reader.run
           rest == [s EXCEPT !.out = Tail(s.out)]
           again == [reader EXCEPT !.at = "read", !.foreign = reader.foreign \/ ~mine]
<1>4. CASE /\ s.out # <<>> /\ Shell(n, rest)
           /\ reader' = IF mine /\ item.code # "none" THEN Gives(item.code) ELSE again
  <2>1. s \in ShellRecords /\ s.out \in Seq(Told) /\ s.out \in Seq(Items)
    BY <1>2, ShellFields
  <2>2. item \in Told /\ Tail(s.out) \in Seq(Told) /\ Tail(s.out) \in Seq(Items)
    BY <1>4, <2>1
  <2>3. rest \in ShellRecords /\ rest.up = s.up /\ rest.stdin = s.stdin /\ rest.run = s.run
        /\ rest.stage = s.stage /\ rest.code = s.code /\ rest.out = Tail(s.out)
    BY <2>1, <2>2 DEF ShellRecords
  <2>4. mine \in BOOLEAN /\ item.code \in Telling(item.run)
    BY <2>2 DEF Told
  <2>5. Gives(item.code) \in Readers \/ ~mine
    BY <1>1, <2>4, GivesFacts
  <2> HIDE DEF rest, item, mine
  <2>6. rest \in Shells
    BY <1>2, <2>2, <2>3 DEF Shells
  <2>7. again \in ReaderRecords /\ again.run = reader.run /\ again.session = reader.session
        /\ again.got = reader.got
    BY <1>1, <2>4 DEF ReaderRecords
  <2> HIDE DEF again
  <2>8. again \in Readers
    BY <1>1, <2>7 DEF Readers
  <2>9. shell' = [shell EXCEPT ![n] = rest]
    BY <1>4 DEF Shell
  <2>10. shell' \in [Sessions -> Shells] /\ \A t \in Sessions : shell'[t].up = shell[t].up
    BY <1>2, <2>3, <2>6, <2>9
  <2>11. reader' \in Readers
    BY <1>4, <2>5, <2>8
  <2> QED
    BY <1>2, <2>10, <2>11, ReaderPart
<1> QED
  BY <1>3, <1>4 DEF ReadLine

\* A step of a read or of its process leaves the operations on the shell alone.
LEMMA CatPart ==
  ASSUME IInv, CatOnly, cat' \in [up : BOOLEAN, sent : Nat, code : {"none", "ok", "bad"}],
         th' \in [Threads -> ThreadRecords],
         \A t \in Threads : /\ th'[t].k = th[t].k /\ th'[t].lost = th[t].lost
                            /\ th'[t].got <= cat'.sent
                            /\ t = lock => th'[t].pc = th[t].pc
  PROVE  IInv'
<1>1. \A t \in Threads : th[t] \in ThreadRecords /\ th[t] \in Placed(t)
  BY DEF IInv, Types
<1>2. \A t \in Threads : th[t].k \in Nat /\ th'[t].k \in Nat /\ th[t].k <= th'[t].k
  BY <1>1 DEF ThreadRecords
<1>3. UNCHANGED <<job, target, unseen>>
  BY DEF CatOnly, world
<1>4. Shells \subseteq Shells' /\ Readers \subseteq Readers'
  BY <1>2, <1>3, Growth
<1>5. \A t \in Threads : th'[t] \in Placed(t)'
  BY <1>1, <1>3 DEF Placed, PassedBy
<1>6. Types'
  BY <1>4, <1>5 DEF CatOnly, world, IInv, Types, World
<1>7. Calling'
  BY DEF CatOnly, IInv, Calling, Types
<1>8. OneAlive'
  BY DEF CatOnly, IInv, OneAlive
<1>9. TargetKept'
  BY <1>3 DEF IInv, TargetKept, Doing
<1> QED
  BY <1>6, <1>7, <1>8, <1>9 DEF IInv

LEMMA CatSteps == ASSUME IInv, CatWrites \/ CatEnds PROVE IInv'
<1>1. CatOnly /\ UNCHANGED th /\ cat \in [up : BOOLEAN, sent : Nat, code : {"none", "ok", "bad"}]
  BY DEF CatWrites, CatEnds, IInv, Types, World
<1>2. cat' \in [up : BOOLEAN, sent : Nat, code : {"none", "ok", "bad"}] /\ cat.sent <= cat'.sent
  <2>1. CASE CatWrites
    BY <1>1, <2>1 DEF CatWrites
  <2>2. CASE CatEnds
    <3>1. PICK code \in {"bad", "ok"} : cat' = [cat EXCEPT !.up = FALSE, !.code = code]
      BY <2>2 DEF CatEnds
    <3>2. cat' \in [up : BOOLEAN, sent : Nat, code : {"none", "ok", "bad"}]
      BY <1>1, <3>1
    <3>3. cat'.sent = cat.sent /\ cat.sent \in Nat
      BY <1>1, <3>1
    <3> QED
      BY <3>2, <3>3
  <2> QED
    BY <2>1, <2>2
<1>3. th \in [Threads -> ThreadRecords]
      /\ \A t \in Threads : th[t].got <= cat.sent /\ th[t].got \in Nat
  BY DEF IInv, Types, Placed, ThreadRecords
<1>4. \A t \in Threads : th[t].got <= cat'.sent
  BY <1>1, <1>2, <1>3
<1> QED
  BY <1>1, <1>2, <1>3, <1>4, CatPart

LEMMA ReadSteps ==
  ASSUME IInv, NEW t \in Threads, StartCat(t) \/ ReadBlock(t) \/ CheckExit(t)
  PROVE  IInv'
<1>1. CatOnly /\ cat \in [up : BOOLEAN, sent : Nat, code : {"none", "ok", "bad"}]
  BY DEF StartCat, ReadBlock, CheckExit, IInv, Types, World
<1>2. t # lock
  <2>1. lock = t => th[t].pc = "start" /\ (job[t] \in Operations \/ job[t] = "close")
    BY RunFacts DEF IInv, Calling
  <2> QED
    BY <2>1 DEF StartCat, ReadBlock, CheckExit, Operations
<1>3. cat' \in [up : BOOLEAN, sent : Nat, code : {"none", "ok", "bad"}] /\ cat'.sent = cat.sent
  BY <1>1 DEF StartCat, ReadBlock, CheckExit
<1>4. th \in [Threads -> ThreadRecords]
      /\ \A u \in Threads : th[u].got <= cat.sent /\ th[u].got \in Nat
  BY DEF IInv, Types, Placed, ThreadRecords
<1>5. \E v \in ThreadRecords : /\ th' = [th EXCEPT ![t] = v] /\ v.k = th[t].k /\ v.lost = th[t].lost
                               /\ v.got <= cat.sent
  <2> DEFINE o == th[t]
  <2>1. o \in ThreadRecords /\ o.got <= cat.sent /\ cat.sent \in Nat
    BY <1>1, <1>4
  <2>2. CASE StartCat(t)
    <3> DEFINE v == [o EXCEPT !.pc = "reading"]
    <3>1. v \in ThreadRecords /\ v.k = o.k /\ v.lost = o.lost /\ v.got = o.got
      BY <2>1 DEF ThreadRecords
    <3>2. th' = [th EXCEPT ![t] = v]
      BY <2>2 DEF StartCat
    <3> HIDE DEF v
    <3> QED
      BY <2>1, <3>1, <3>2
  <2>3. CASE ReadBlock(t)
    <3> DEFINE v == [o EXCEPT !.got = o.got + 1]
    <3>1. v \in ThreadRecords /\ v.k = o.k /\ v.lost = o.lost /\ v.got = o.got + 1
      BY <2>1 DEF ThreadRecords
    <3>2. th' = [th EXCEPT ![t] = v] /\ o.got < cat.sent
      BY <2>3 DEF ReadBlock
    <3>3. o.got + 1 <= cat.sent
      BY <1>4, <2>1, <3>2
    <3> HIDE DEF v
    <3> QED
      BY <3>1, <3>2, <3>3
  <2>4. CASE CheckExit(t)
    <3> DEFINE a == IF cat.code = "ok" THEN "yes" ELSE "lost"
               v == [o EXCEPT !.pc = "done", !.answer = a]
    <3>1. v \in ThreadRecords /\ v.k = o.k /\ v.lost = o.lost /\ v.got = o.got
      BY <2>1 DEF ThreadRecords
    <3>2. th' = [th EXCEPT ![t] = v]
      BY <2>4 DEF CheckExit
    <3> HIDE DEF v
    <3> QED
      BY <2>1, <3>1, <3>2
  <2> QED
    BY <2>2, <2>3, <2>4
<1>6. PICK v \in ThreadRecords : /\ th' = [th EXCEPT ![t] = v] /\ v.k = th[t].k /\ v.lost = th[t].lost
                                 /\ v.got <= cat.sent
  BY <1>5
<1>7. th' \in [Threads -> ThreadRecords]
  BY <1>4, <1>6
<1>8. \A u \in Threads : /\ th'[u].k = th[u].k /\ th'[u].lost = th[u].lost
                         /\ th'[u].got <= cat'.sent /\ (u = lock => th'[u].pc = th[u].pc)
  BY <1>2, <1>3, <1>4, <1>6
<1> QED
  BY <1>1, <1>3, <1>7, <1>8, CatPart

-----------------------------------------------------------------------------
(* The holder of the lock.                                                  *)

\* What a step of the holder may do to the threads.
Advance ==
  /\ th' \in [Threads -> ThreadRecords]
  /\ \A t \in Threads : th'[t] \in Placed(t)' /\ th[t].k <= th'[t].k /\ th[t].lost \subseteq th'[t].lost

LEMMA StandStill ==
  ASSUME Types, UNCHANGED <<job, unseen, cat, th>>
  PROVE  Advance
<1>1. \A t \in Threads : th[t] \in ThreadRecords /\ th[t] \in Placed(t)
  BY DEF Types
<1>2. \A t \in Threads : th'[t] \in Placed(t)'
  BY <1>1 DEF Placed, PassedBy
<1>3. \A t \in Threads : th[t].k <= th[t].k
  BY <1>1 DEF ThreadRecords
<1> QED
  BY <1>2, <1>3 DEF Advance, Types

LEMMA HolderPart ==
  ASSUME IInv, UNCHANGED <<job, world, cat>>, Advance,
         shell' \in [Sessions -> Shells], reader' \in Readers, pool' \in BOOLEAN,
         lock' \in Threads \cup {Nobody}, call' \in CallRecords, proc' \in Sessions \cup {NoSession}
  PROVE  Types' /\ TargetKept'
<1>1. \A t \in Threads : th[t] \in ThreadRecords /\ th'[t] \in ThreadRecords
  BY DEF IInv, Types, Advance
<1>2. \A t \in Threads : th[t].k \in Nat /\ th'[t].k \in Nat /\ th[t].k <= th'[t].k
  BY <1>1 DEF ThreadRecords, Advance
<1>3. Shells \subseteq Shells' /\ Readers \subseteq Readers'
  BY <1>2, Growth DEF world
<1>4. Types'
  BY <1>3 DEF IInv, Types, World, world, Advance
<1>5. TargetKept'
  <2>1. ASSUME target = "replaced"
        PROVE  \E t \in Doing("rename") : \A k \in 1..2 : k \in th'[t].lost \/ <<t, k>> \in unseen
    <3>1. PICK t \in Doing("rename") : \A k \in 1..2 : k \in th[t].lost \/ <<t, k>> \in unseen
      BY <2>1 DEF IInv, TargetKept
    <3>2. t \in Threads /\ th[t].lost \subseteq th'[t].lost
      BY DEF Doing, Advance
    <3> QED
      BY <3>1, <3>2
  <2> QED
    BY <2>1 DEF TargetKept, Doing, world
<1> QED
  BY <1>4, <1>5

\* An answer brings a rename to its next look, or ends the operation.
LEMMA AnsweredFacts ==
  ASSUME Types, Calling, lock # Nobody, call.phase # "close", UNCHANGED <<job, unseen, cat>>,
         NEW a \in {"lost", "yes", "no"}, NEW f \in BOOLEAN, Answered(lock, a, f),
         job[lock] = "rename" /\ th[lock].k \in {1, 2} /\ a = "no" => <<lock, th[lock].k>> \in unseen
  PROVE  Advance /\ lock' = Nobody /\ call' = NoCall
<1> DEFINE t == lock
           o == th[t]
           me == [o EXCEPT !.answer = a, !.foreign = o.foreign \/ f]
           check == Program(job[t])[me.k] = "test"
           next == [me EXCEPT !.k = me.k + 1, !.lost = me.lost \cup IF a = "lost" THEN {me.k} ELSE {}]
           new == CASE check /\ a # "yes" -> next
                    [] check /\ a = "yes" -> [me EXCEPT !.pc = "done", !.answer = "refused"]
                    [] OTHER -> [me EXCEPT !.pc = "done"]
<1>1. t \in Threads /\ o \in ThreadRecords /\ o \in Placed(t) /\ job[t] \in Operations
  BY HolderFacts DEF Types
<1>2. th' = [th EXCEPT ![t] = new] /\ lock' = Nobody /\ call' = NoCall
  BY DEF Answered
<1>3. me \in ThreadRecords /\ me.k = o.k /\ me.lost = o.lost /\ me.got = o.got
  BY <1>1 DEF ThreadRecords
<1>4. check = (job[t] = "rename" /\ o.k \in {1, 2})
  <2>1. o.k \in {1, 2, 3} /\ (job[t] = "mkdir" => o.k = 1)
    BY <1>1 DEF Placed, ThreadRecords
  <2>2. CASE job[t] = "mkdir"
    <3>1. Program(job[t]) = <<"mkdir">>
      BY <2>2 DEF Program
    <3> QED
      BY <1>3, <2>1, <2>2, <3>1
  <2>3. CASE job[t] = "rename"
    <3>1. Program(job[t]) = <<"test", "test", "mv">>
      BY <2>3 DEF Program
    <3>2. Program(job[t])[o.k] = IF o.k = 3 THEN "mv" ELSE "test"
      BY <2>1, <3>1
    <3> QED
      BY <1>3, <2>1, <2>3, <3>2
  <2> QED
    BY <1>1, <2>2, <2>3 DEF Operations
<1> HIDE DEF me, check
<1>5. /\ new \in ThreadRecords /\ new.got = o.got
      /\ IF check /\ a # "yes" THEN new.k = o.k + 1 /\ new.lost = o.lost \cup (IF a = "lost" THEN {o.k} ELSE {})
                               ELSE new.k = o.k /\ new.lost = o.lost
  <2>1. CASE check /\ a # "yes"
    <3>1. o.k \in {1, 2} /\ o.lost \subseteq 1..2
      BY <1>1, <1>4, <2>1 DEF ThreadRecords
    <3> DEFINE l == IF a = "lost" THEN {me.k} ELSE {}
               n == [me EXCEPT !.k = me.k + 1, !.lost = me.lost \cup l]
    <3>2. me.k + 1 \in 1..3 /\ me.lost \cup l \subseteq 1..2
      BY <1>3, <3>1
    <3>3. new = n
      BY <2>1
    <3> HIDE DEF l
    <3>4. n \in ThreadRecords /\ n.k = me.k + 1 /\ n.lost = me.lost \cup l /\ n.got = me.got
      BY <1>3, <3>2 DEF ThreadRecords
    <3> HIDE DEF n, new
    <3> QED
      BY <1>3, <2>1, <3>3, <3>4 DEF l
  <2>2. CASE check /\ a = "yes"
    BY <1>3, <2>2 DEF ThreadRecords
  <2>3. CASE ~check
    BY <1>3, <2>3 DEF ThreadRecords
  <2> QED
    BY <2>1, <2>2, <2>3
<1> HIDE DEF new
<1>6. new \in Placed(t) /\ o.k <= new.k /\ o.lost \subseteq new.lost
  <2>1. o.k \in 1..3 /\ o.got <= cat.sent /\ (job[t] = "mkdir" => o.k = 1)
        /\ (job[t] = "rename" => \A k \in 1..2 : k < o.k => PassedBy(t, o, k))
    BY <1>1 DEF Placed, ThreadRecords
  <2>2. CASE check /\ a # "yes"
    <3>1. job[t] = "rename" /\ o.k \in {1, 2}
      BY <1>4, <2>2
    <3>2. new.k = o.k + 1 /\ new.lost = o.lost \cup (IF a = "lost" THEN {o.k} ELSE {})
      BY <1>5, <2>2
    <3>3. PassedBy(t, new, o.k)
      BY <2>2, <3>1, <3>2 DEF PassedBy
    <3>4. \A k \in 1..2 : k < new.k => PassedBy(t, new, k)
      BY <2>1, <3>1, <3>2, <3>3 DEF PassedBy
    <3> QED
      BY <1>5, <2>1, <3>1, <3>2, <3>4 DEF Placed
  <2>3. CASE ~(check /\ a # "yes")
    BY <1>5, <2>1, <2>3 DEF Placed, PassedBy
  <2> QED
    BY <2>2, <2>3
<1>7. \A u \in Threads : Placed(u)' = Placed(u)
  BY DEF Placed, PassedBy
<1>8. Advance
  <2>1. th \in [Threads -> ThreadRecords] /\ \A u \in Threads : th[u] \in Placed(u) /\ th[u] \in ThreadRecords
    BY DEF Types
  <2>2. th' \in [Threads -> ThreadRecords] /\ th'[t] = new /\ \A u \in Threads : u # t => th'[u] = th[u]
    BY <1>1, <1>2, <1>5, <2>1
  <2>3. \A u \in Threads : th[u].k <= th[u].k
    BY <2>1 DEF ThreadRecords
  <2>4. ASSUME NEW u \in Threads
        PROVE  th'[u] \in Placed(u)' /\ th[u].k <= th'[u].k /\ th[u].lost \subseteq th'[u].lost
    <3>1. CASE u = t
      BY <1>6, <1>7, <2>2, <3>1
    <3>2. CASE u # t
      BY <1>7, <2>1, <2>2, <2>3, <3>2
    <3> QED
      BY <3>1, <3>2
  <2> QED
    BY <2>2, <2>4 DEF Advance
<1> QED
  BY <1>2, <1>8

LEMMA HoldingFacts ==
  ASSUME Types, Calling, call.step # "none"
  PROVE  lock # Nobody /\ lock \in Threads /\ call \in CallRecords
BY DEF Types, Calling, NoCall

\* The next step of the same call.
LEMMA GotoFacts ==
  ASSUME call \in CallRecords, NEW step \in {"spawn", "write", "wait", "failed", "sink", "source", "destroy"},
         Goto(step)
  PROVE  call' \in CallRecords /\ call'.step = step /\ call'.phase = call.phase
BY DEF Goto, CallRecords

LEMMA EnterStep == ASSUME IInv, NEW t \in Threads, Enter(t) PROVE IInv'
<1>1. /\ lock = Nobody /\ th[t].pc = "start" /\ job[t] \in {"mkdir", "rename", "close"} /\ lock' = t
      /\ UNCHANGED <<job, th, proc, pool, reader, shell, world, cat>>
      /\ call' = CASE job[t] = "close" -> [step |-> "sink", phase |-> "close"]
                   [] job[t] # "close" /\ Alive -> [step |-> "write", phase |-> "try1"]
                   [] OTHER -> [step |-> "spawn", phase |-> "id1"]
  BY DEF Enter
<1>2. call = NoCall /\ Types /\ (~pool => proc = NoSession)
  BY <1>1 DEF IInv, Calling
<1>3. Advance
  BY <1>1, <1>2, StandStill DEF world
<1>4. /\ call' \in CallRecords /\ call' # NoCall /\ call'.step # "none" /\ call'.phase # "none"
      /\ call'.phase = "close" => job[t] = "close" /\ call'.step = "sink"
      /\ call'.phase # "close" => job[t] \in Operations
      /\ call'.step # "wait" /\ (call'.step = "write" => proc # NoSession)
      /\ call'.step = "spawn" => proc = NoSession /\ call'.phase = "id1"
      /\ proc = NoSession => call'.phase \in {"id1", "close"}
  <2>1. CASE job[t] = "close"
    <3>1. call' = [step |-> "sink", phase |-> "close"]
      BY <1>1, <2>1
    <3> QED
      BY <2>1, <3>1 DEF CallRecords, NoCall
  <2>2. CASE job[t] # "close" /\ Alive
    <3>1. call' = [step |-> "write", phase |-> "try1"]
      BY <1>1, <2>2
    <3> QED
      BY <1>1, <2>2, <3>1 DEF CallRecords, NoCall, Phases, Tries, Operations, Alive
  <2>3. CASE job[t] # "close" /\ ~Alive
    <3>1. call' = [step |-> "spawn", phase |-> "id1"]
      BY <1>1, <2>3
    <3> QED
      BY <1>1, <2>3, <3>1 DEF CallRecords, NoCall, Phases, Probes, Operations, Alive
  <2> QED
    BY <2>1, <2>2, <2>3
<1>5. Types' /\ TargetKept'
  BY <1>1, <1>2, <1>3, <1>4, HolderPart DEF Types
<1>6. Calling'
  <2>1. lock' # Nobody /\ lock' = t /\ th'[t].pc = "start"
    BY <1>1, RunFacts
  <2>2. ~pool => call'.phase \in {"id1", "close"}
    BY <1>2, <1>4
  <2>3. job' = job /\ proc' = proc /\ pool' = pool
    BY <1>1
  <2>4. (lock' = Nobody) = (call' = NoCall)
    BY <1>4, <2>1
  <2>5. /\ th'[lock'].pc = "start" /\ call'.step # "none" /\ call'.phase # "none"
        /\ call'.phase # "close" => job'[lock'] \in Operations
        /\ call'.phase = "close" => job'[lock'] = "close" /\ call'.step = "sink"
    BY <1>4, <2>1, <2>3
  <2>6. /\ call'.step \in {"write", "wait"} => proc' # NoSession
        /\ call'.step = "spawn" => proc' = NoSession /\ call'.phase \in Probes
        /\ call'.step = "wait" => pool'
    BY <1>4, <2>3 DEF Probes
  <2>7. ~pool' => call'.phase \in {"none", "id1", "close"} /\ (lock' = Nobody => proc' = NoSession)
    BY <2>1, <2>2, <2>3
  <2> QED
    BY <2>4, <2>5, <2>6, <2>7 DEF Calling
<1>7. OneAlive'
  BY <1>1 DEF IInv, OneAlive
<1> QED
  BY <1>5, <1>6, <1>7 DEF IInv

LEMMA SpawnStep == ASSUME IInv, Spawn PROVE IInv'
<1>1. call.step = "spawn" /\ UNCHANGED <<job, pool, reader, world, cat>>
  BY DEF Spawn
<1>2. /\ Types /\ Calling /\ lock # Nobody /\ lock \in Threads /\ call \in CallRecords
      /\ proc = NoSession /\ call.phase \in Probes
  BY <1>1, HoldingFacts DEF IInv, Calling
<1>3. \A s \in Sessions : ~shell[s].up
  BY <1>2, RunFacts DEF IInv, OneAlive
<1>4. ASSUME NEW s \in Sessions, Shell(s, Started), proc' = s, Goto("write"), UNCHANGED <<th, lock>>
      PROVE  IInv'
  <2>1. Started \in Shells
    <3>1. NotStarted \in ShellRecords
      BY DEF NotStarted, ShellRecords, Codes
    <3>2. /\ Started \in ShellRecords /\ Started.stdin = NotStarted.stdin /\ Started.out = NotStarted.out
          /\ Started.run = NotStarted.run /\ Started.stage = NotStarted.stage /\ Started.code = NotStarted.code
      BY <3>1 DEF Started, ShellRecords
    <3>3. NotStarted.stdin = <<>> /\ NotStarted.out = <<>> /\ NotStarted.run = NoRun
          /\ NotStarted.stage = "none" /\ NotStarted.code = "none"
      BY DEF NotStarted
    <3>4. <<>> \in Seq(Begun) /\ <<>> \in Seq(Told)
      OBVIOUS
    <3> QED
      BY <3>2, <3>3, <3>4 DEF Shells
  <2>2. shell' = [shell EXCEPT ![s] = Started] /\ shell \in [Sessions -> Shells]
    BY <1>2, <1>4 DEF Shell, Types
  <2>3. call' \in CallRecords /\ call'.step = "write" /\ call'.phase = call.phase
    BY <1>2, <1>4, GotoFacts
  <2>4. Advance
    BY <1>1, <1>2, <1>4, StandStill DEF world
  <2>5. Types' /\ TargetKept'
    BY <1>1, <1>2, <1>4, <2>1, <2>2, <2>3, <2>4, HolderPart DEF Types
  <2>6. call.phase # "close" /\ call.phase # "none"
    BY <1>2 DEF Probes
  <2>7. Calling'
    BY <1>1, <1>2, <1>4, <2>3, <2>6, RunFacts DEF Calling, NoCall
  <2>8. OneAlive'
    BY <1>3, <1>4, <2>2 DEF OneAlive
  <2> QED
    BY <2>5, <2>7, <2>8 DEF IInv
<1>5. ASSUME UNCHANGED <<shell, proc>>, Answered(lock, "lost", FALSE)
      PROVE  IInv'
  <2>1. call.phase # "close"
    BY <1>2 DEF Probes
  <2>2. Advance /\ lock' = Nobody /\ call' = NoCall
    BY <1>1, <1>2, <1>5, <2>1, AnsweredFacts DEF world
  <2>3. call' \in CallRecords /\ call'.step = "none" /\ call'.phase = "none"
    BY <2>2 DEF NoCall, CallRecords
  <2>4. Types' /\ TargetKept'
    BY <1>1, <1>2, <1>5, <2>2, <2>3, HolderPart DEF Types
  <2>5. Calling'
    BY <1>1, <1>2, <1>5, <2>2, <2>3 DEF Calling
  <2>6. OneAlive'
    BY <1>5 DEF IInv, OneAlive
  <2> QED
    BY <2>4, <2>5, <2>6 DEF IInv
<1> QED
  BY <1>4, <1>5 DEF Spawn

\* A step of the holder that changes nothing but where it is.
LEMMA MovesOn ==
  ASSUME IInv, HolderOnly, UNCHANGED <<proc, pool, reader>>, call.step # "none",
         NEW step \in {"wait", "failed", "sink", "source", "destroy"}, Goto(step),
         step = "wait" => pool /\ proc # NoSession,
         step = "wait" \/ step = "failed" => call.phase # "close",
         shell' \in [Sessions -> Shells], \A s \in Sessions : shell'[s].up = shell[s].up
  PROVE  IInv'
<1>1. Types /\ Calling /\ lock # Nobody /\ lock \in Threads /\ call \in CallRecords
  BY HoldingFacts DEF IInv
<1>2. call' \in CallRecords /\ call'.step = step /\ call'.phase = call.phase
  BY <1>1, GotoFacts
<1>3. Advance
  BY <1>1, StandStill DEF HolderOnly, world
<1>4. Types' /\ TargetKept'
  BY <1>1, <1>2, <1>3, HolderPart DEF Types, HolderOnly
<1>5. call' # NoCall
  BY <1>2 DEF NoCall
<1>6. Calling'
  BY <1>1, <1>2, <1>5 DEF Calling, HolderOnly
<1>7. OneAlive'
  BY DEF IInv, OneAlive
<1> QED
  BY <1>4, <1>6, <1>7 DEF IInv

LEMMA WriteStep == ASSUME IInv, Write PROVE IInv'
<1>1. call.step = "write" /\ HolderOnly /\ UNCHANGED <<proc, pool, reader>>
  BY DEF Write
<1>2. /\ Types /\ Calling /\ lock # Nobody /\ call \in CallRecords /\ proc \in Sessions
      /\ call.phase # "close" /\ call.phase \in Phases /\ shell \in [Sessions -> Shells]
  BY <1>1, HoldingFacts DEF IInv, Calling, Types, CallRecords
<1>3. ThisRun \in Begun /\ ThisRun \in Runs
  BY <1>2, HolderFacts, RunFacts
<1>4. CASE ~shell[proc].up
  BY <1>1, <1>2, <1>4, MovesOn DEF Write
<1>5. CASE shell[proc].up
  <2> DEFINE o == shell[proc]
             r == [o EXCEPT !.stdin = Append(o.stdin, ThisRun)]
  <2>1. o \in Shells /\ o \in ShellRecords /\ o.stdin \in Seq(Begun) /\ o.stdin \in Seq(Runs)
    BY <1>2, ShellFields
  <2>2. Append(o.stdin, ThisRun) \in Seq(Begun) /\ Append(o.stdin, ThisRun) \in Seq(Runs)
    BY <1>3, <2>1
  <2>3. /\ r \in ShellRecords /\ r.stdin = Append(o.stdin, ThisRun) /\ r.out = o.out /\ r.run = o.run
        /\ r.stage = o.stage /\ r.code = o.code /\ r.up = o.up
    BY <2>1, <2>2 DEF ShellRecords
  <2>4. shell' = [shell EXCEPT ![proc] = r] /\ Goto(IF pool THEN "wait" ELSE "failed")
    BY <1>5 DEF Write, Shell
  <2> HIDE DEF r
  <2>5. r \in Shells
    BY <2>1, <2>2, <2>3 DEF Shells
  <2>6. shell' \in [Sessions -> Shells] /\ \A s \in Sessions : shell'[s].up = shell[s].up
    BY <1>2, <2>3, <2>4, <2>5
  <2>7. CASE pool
    <3>1. Goto("wait")
      BY <2>4, <2>7
    <3> QED
      BY <1>1, <1>2, <2>6, <2>7, <3>1, RunFacts, MovesOn
  <2>8. CASE ~pool
    <3>1. Goto("failed")
      BY <2>4, <2>8
    <3> QED
      BY <1>1, <1>2, <2>6, <3>1, MovesOn
  <2> QED
    BY <2>7, <2>8
<1> QED
  BY <1>4, <1>5

LEMMA TimesOutStep == ASSUME IInv, TimesOut PROVE IInv'
<1>1. call.step = "wait" /\ HolderOnly /\ UNCHANGED <<proc, pool, reader, shell>> /\ Goto("sink")
  BY DEF TimesOut
<1> QED
  BY <1>1, MovesOn DEF IInv, Types

\* The call ends with an answer; what else changes is the shell that is given up.
LEMMA Ends ==
  ASSUME IInv, UNCHANGED <<job, pool, world, cat>>, call.step # "none", call.phase # "close",
         NEW a \in {"lost", "yes", "no"}, NEW f \in BOOLEAN, Answered(lock, a, f),
         job[lock] = "rename" /\ th[lock].k \in {1, 2} /\ a = "no" => <<lock, th[lock].k>> \in unseen,
         shell' \in [Sessions -> Shells], reader' \in Readers, proc' \in Sessions \cup {NoSession},
         ~pool => proc' = NoSession, OneAlive'
  PROVE  IInv'
<1>1. Types /\ Calling /\ lock # Nobody /\ lock \in Threads
  BY HoldingFacts DEF IInv
<1>2. Advance /\ lock' = Nobody /\ call' = NoCall
  BY <1>1, AnsweredFacts DEF world
<1>3. call' \in CallRecords /\ call'.step = "none" /\ call'.phase = "none"
  BY <1>2 DEF NoCall, CallRecords
<1>4. Types' /\ TargetKept'
  BY <1>1, <1>2, <1>3, HolderPart DEF Types
<1>5. Calling'
  BY <1>1, <1>2, <1>3 DEF Calling
<1> QED
  BY <1>4, <1>5 DEF IInv

LEMMA JudgeStep == ASSUME IInv, Judge PROVE IInv'
<1>1. /\ call.step = "wait" /\ reader.run = ThisRun /\ reader.got # "none" /\ reader' = Resting
      /\ UNCHANGED <<job, proc, pool, shell, world, cat>>
  BY DEF Judge
<1>2. /\ Types /\ Calling /\ lock # Nobody /\ lock \in Threads /\ call \in CallRecords
      /\ proc # NoSession /\ pool /\ call.phase # "close" /\ call.phase \in Phases
  BY <1>1, HoldingFacts DEF IInv, Calling, CallRecords
<1>3. ThisRun \in Begun /\ ThisRun # NoRun /\ job[lock] \in Operations
  BY <1>2, HolderFacts, RunFacts
<1>4. reader \in Readers /\ reader.foreign \in BOOLEAN /\ reader' \in Readers
  BY <1>1, <1>2, RestingFacts DEF Types, Readers, ReaderRecords
<1>5. reader.got \in Telling(ThisRun) \cup {"closed"}
  BY <1>1, <1>3, <1>4 DEF Readers
<1>6. CASE call.phase \in Tries /\ reader.got # "closed"
  <2>1. Answered(lock, reader.got, reader.foreign)
    BY <1>6 DEF Judge, Tries
  <2>2. reader.got \in {"yes", "no"}
    BY <1>1, <1>5, <1>6 DEF Telling, Codes
  <2>3. job[lock] = "rename" /\ th[lock].k \in {1, 2} /\ reader.got = "no" => <<lock, th[lock].k>> \in unseen
    <3>1. ThisRun.who = lock /\ ThisRun.k = th[lock].k /\ ThisRun.phase = call.phase
      BY DEF ThisRun
    <3> QED
      BY <1>5, <1>6, <3>1 DEF Telling, Looks
  <2>4. OneAlive'
    BY <1>1 DEF IInv, OneAlive
  <2> QED
    BY <1>1, <1>2, <1>4, <2>1, <2>2, <2>3, <2>4, Ends DEF Types
<1>7. CASE ~(call.phase \in Tries /\ reader.got # "closed")
  <2>1. /\ UNCHANGED <<th, lock>>
        /\ \/ /\ reader.got # "closed"
              /\ call' = [step |-> "write", phase |-> IF call.phase = "id1" THEN "try1" ELSE "try2"]
           \/ Goto("sink") \/ Goto("failed")
    BY <1>7 DEF Judge, Tries
  <2>2. call' \in CallRecords /\ call'.step \in {"write", "sink", "failed"} /\ call'.phase \in Phases
    <3>1. CASE call' = [step |-> "write", phase |-> IF call.phase = "id1" THEN "try1" ELSE "try2"]
      BY <3>1 DEF CallRecords, Phases, Tries
    <3>2. CASE Goto("sink")
      BY <1>2, <3>2, GotoFacts
    <3>3. CASE Goto("failed")
      BY <1>2, <3>3, GotoFacts
    <3> QED
      BY <2>1, <3>1, <3>2, <3>3
  <2>3. Advance
    BY <1>1, <1>2, <2>1, StandStill DEF world
  <2>4. Types' /\ TargetKept'
    BY <1>1, <1>2, <1>4, <2>1, <2>2, <2>3, HolderPart DEF Types
  <2>5. call' # NoCall /\ call'.phase # "close" /\ call'.phase # "none"
    BY <2>2 DEF NoCall, Phases, Probes, Tries
  <2>6. Calling'
    BY <1>1, <1>2, <1>3, <2>1, <2>2, <2>5 DEF Calling
  <2>7. OneAlive'
    BY <1>1 DEF IInv, OneAlive
  <2> QED
    BY <2>4, <2>6, <2>7 DEF IInv
<1> QED
  BY <1>6, <1>7

LEMMA FailedStep == ASSUME IInv, Failed PROVE IInv'
<1>1. call.step = "failed" /\ UNCHANGED <<job, proc, pool, reader, shell, world, cat>>
  BY DEF Failed
<1>2. Types /\ Calling /\ lock # Nobody /\ call.phase # "close" /\ call.phase # "none"
  BY <1>1, HoldingFacts DEF IInv, Calling
<1>3. CASE call.phase \in CleansUp
  <2>1. Goto("sink") /\ HolderOnly
    BY <1>1, <1>3 DEF Failed, HolderOnly
  <2> QED
    BY <1>1, <1>2, <2>1, MovesOn DEF Types
<1>4. CASE call.phase \notin CleansUp
  <2>1. Answered(lock, "lost", FALSE) /\ pool
    BY <1>1, <1>2, <1>4 DEF Failed, CleansUp, Calling
  <2>2. OneAlive'
    BY <1>1 DEF IInv, OneAlive
  <2> QED
    BY <1>1, <1>2, <2>1, <2>2, Ends DEF Types
<1> QED
  BY <1>3, <1>4

LEMMA ClosingFacts ==
  ASSUME NEW o \in Shells
  PROVE  /\ [o EXCEPT !.sink = FALSE] \in Shells /\ [o EXCEPT !.sink = FALSE].up = o.up
         /\ [o EXCEPT !.source = FALSE, !.out = <<>>] \in Shells
         /\ [o EXCEPT !.source = FALSE, !.out = <<>>].up = o.up
<1> DEFINE r == [o EXCEPT !.sink = FALSE]
           q == [o EXCEPT !.source = FALSE, !.out = <<>>]
<1>1. o \in ShellRecords /\ <<>> \in Seq(Items) /\ <<>> \in Seq(Told)
  BY ShellFields
<1>2. r \in ShellRecords /\ r.stdin = o.stdin /\ r.out = o.out /\ r.run = o.run
      /\ r.stage = o.stage /\ r.code = o.code /\ r.up = o.up
  BY <1>1 DEF ShellRecords
<1>3. q \in ShellRecords /\ q.stdin = o.stdin /\ q.out = <<>> /\ q.run = o.run
      /\ q.stage = o.stage /\ q.code = o.code /\ q.up = o.up
  BY <1>1 DEF ShellRecords
<1> HIDE DEF r, q
<1>4. r \in Shells /\ q \in Shells
  BY <1>1, <1>2, <1>3 DEF Shells
<1> QED
  BY <1>2, <1>3, <1>4 DEF r, q

LEMMA CloseSinkStep == ASSUME IInv, CloseSink PROVE IInv'
<1>1. call.step = "sink" /\ HolderOnly /\ UNCHANGED <<proc, pool, reader>> /\ Goto("source")
      /\ shell' = IF proc = NoSession THEN shell ELSE [shell EXCEPT ![proc].sink = FALSE]
  BY DEF CloseSink
<1>2. shell \in [Sessions -> Shells] /\ proc \in Sessions \cup {NoSession}
  BY DEF IInv, Types
<1>3. shell' \in [Sessions -> Shells] /\ \A s \in Sessions : shell'[s].up = shell[s].up
  BY <1>1, <1>2, ClosingFacts
<1> QED
  BY <1>1, <1>3, MovesOn

LEMMA CloseSourceStep == ASSUME IInv, CloseSource PROVE IInv'
<1>1. call.step = "source" /\ HolderOnly /\ UNCHANGED <<proc, pool, reader>> /\ Goto("destroy")
      /\ shell' = IF proc = NoSession THEN shell ELSE [shell EXCEPT ![proc].source = FALSE, ![proc].out = <<>>]
  BY DEF CloseSource
<1>2. shell \in [Sessions -> Shells] /\ proc \in Sessions \cup {NoSession}
  BY DEF IInv, Types
<1>3. CASE proc = NoSession
  BY <1>1, <1>2, <1>3, MovesOn
<1>4. CASE proc # NoSession
  <2> DEFINE r == [shell[proc] EXCEPT !.source = FALSE, !.out = <<>>]
  <2>1. shell' = [shell EXCEPT ![proc] = r]
    BY <1>1, <1>2, <1>4 DEF Shells, ShellRecords
  <2>2. r \in Shells /\ r.up = shell[proc].up
    BY <1>2, <1>4, ClosingFacts
  <2> HIDE DEF r
  <2>3. shell' \in [Sessions -> Shells] /\ \A s \in Sessions : shell'[s].up = shell[s].up
    BY <1>2, <1>4, <2>1, <2>2
  <2> QED
    BY <1>1, <2>3, MovesOn
<1> QED
  BY <1>3, <1>4

LEMMA DestroyStep == ASSUME IInv, Destroy PROVE IInv'
<1>1. call.step = "destroy" /\ UNCHANGED <<job, reader, world, cat>> /\ proc' = NoSession
  BY DEF Destroy
<1>2. /\ Types /\ Calling /\ lock # Nobody /\ lock \in Threads /\ call \in CallRecords /\ call.phase # "none"
      /\ shell \in [Sessions -> Shells] /\ proc \in Sessions \cup {NoSession}
  BY <1>1, HoldingFacts DEF IInv, Calling, Types
<1>3. shell' \in [Sessions -> Shells] /\ \A s \in Sessions : ~shell'[s].up
  <2>1. CASE proc = NoSession
    BY <1>2, <2>1, RunFacts DEF Destroy, IInv, OneAlive
  <2>2. CASE proc # NoSession
    <3>1. PICK r \in Killed(shell[proc]) : shell' = [shell EXCEPT ![proc] = r]
      BY <2>2 DEF Destroy, Shell
    <3>2. r \in Shells /\ ~r.up /\ proc \in Sessions
      BY <1>2, <2>2, KilledFacts
    <3>3. \A s \in Sessions : s # proc => ~shell[s].up
      BY DEF IInv, OneAlive
    <3> QED
      BY <1>2, <3>1, <3>2, <3>3
  <2> QED
    BY <2>1, <2>2
<1>4. OneAlive'
  BY <1>3 DEF OneAlive
<1>5. CASE call.phase = "close"
  <2>1. pool' = FALSE /\ lock' = Nobody /\ call' = NoCall /\ th' = [th EXCEPT ![lock].pc = "done"]
    BY <1>5 DEF Destroy
  <2>2. job[lock] = "close" /\ th[lock] \in ThreadRecords /\ th[lock] \in Placed(lock)
    BY <1>2, <1>5 DEF Calling, Types
  <2> DEFINE v == [th[lock] EXCEPT !.pc = "done"]
  <2>3. v \in ThreadRecords /\ v.k = th[lock].k /\ v.lost = th[lock].lost /\ v.got = th[lock].got
    BY <2>2 DEF ThreadRecords
  <2>4. th' = [th EXCEPT ![lock] = v]
    BY <2>1
  <2> HIDE DEF v
  <2>5. v \in Placed(lock)
    BY <2>2, <2>3 DEF Placed
  <2>6. \A u \in Threads : Placed(u)' = Placed(u)
    BY <1>1 DEF Placed, PassedBy, world
  <2>7. Advance
    <3>1. th \in [Threads -> ThreadRecords] /\ \A u \in Threads : th[u] \in Placed(u) /\ th[u] \in ThreadRecords
      BY <1>2 DEF Types
    <3>2. ASSUME NEW u \in Threads PROVE th[u].k <= th[u].k
      <4>1. th[u] \in ThreadRecords
        BY <3>1
      <4>2. th[u].k \in 1..3
        BY <4>1 DEF ThreadRecords
      <4> QED
        BY <4>2
    <3>3. th' \in [Threads -> ThreadRecords] /\ th'[lock] = v /\ \A u \in Threads : u # lock => th'[u] = th[u]
      BY <1>2, <2>3, <2>4, <3>1
    <3>4. ASSUME NEW u \in Threads
          PROVE  th'[u] \in Placed(u)' /\ th[u].k <= th'[u].k /\ th[u].lost \subseteq th'[u].lost
      <4>1. CASE u = lock
        BY <2>3, <2>5, <2>6, <3>2, <3>3, <4>1
      <4>2. CASE u # lock
        BY <2>6, <3>1, <3>2, <3>3, <4>2
      <4> QED
        BY <4>1, <4>2
    <3> QED
      BY <3>3, <3>4 DEF Advance
  <2>8. call' \in CallRecords /\ call'.step = "none" /\ call'.phase = "none"
    BY <2>1 DEF NoCall, CallRecords
  <2>9. Types' /\ TargetKept'
    BY <1>1, <1>2, <1>3, <2>1, <2>7, <2>8, HolderPart DEF Types
  <2>10. Calling'
    BY <1>1, <2>1, <2>8 DEF Calling
  <2> QED
    BY <1>4, <2>9, <2>10 DEF IInv
<1>6. CASE call.phase = "try1"
  <2>1. call' = [step |-> "spawn", phase |-> "id2"] /\ UNCHANGED <<pool, lock, th>>
    BY <1>6 DEF Destroy
  <2>2. call' \in CallRecords /\ call' # NoCall /\ call'.step = "spawn" /\ call'.phase = "id2"
    BY <2>1 DEF CallRecords, NoCall, Phases, Probes
  <2>3. Advance
    BY <1>1, <1>2, <2>1, StandStill DEF world
  <2>4. Types' /\ TargetKept'
    BY <1>1, <1>2, <1>3, <2>1, <2>2, <2>3, HolderPart DEF Types
  <2>5. job[lock] \in Operations /\ pool
    BY <1>2, <1>6 DEF Calling
  <2>6. Calling'
    BY <1>1, <1>2, <2>1, <2>2, <2>5 DEF Calling, Probes
  <2> QED
    BY <1>4, <2>4, <2>6 DEF IInv
<1>7. CASE call.phase \notin {"close", "try1"}
  <2>1. Answered(lock, "lost", FALSE) /\ UNCHANGED pool
    BY <1>7 DEF Destroy
  <2> QED
    BY <1>1, <1>2, <1>3, <1>4, <1>7, <2>1, Ends DEF Types
<1> QED
  BY <1>5, <1>6, <1>7

-----------------------------------------------------------------------------
(* Every step keeps the invariant.                                          *)

\* Something appears at the target: the looks that ran before it have seen nothing,
\* and that is on record.
LEMMA AppearsStep == ASSUME IInv, Appears PROVE IInv'
<1>1. target = "none" /\ target' \in {"there", "hidden"}
      /\ UNCHANGED <<job, th, lock, call, proc, pool, reader, shell, dir, source, unseen, cat>>
  BY DEF Appears
<1>2. Shells' = Shells /\ Readers' = Readers /\ \A t \in Threads : Placed(t)' = Placed(t)
  BY <1>1 DEF Shells, Readers, Placed, PassedBy, Begun, Told, Telling, Looks
<1>3. Types'
  BY <1>1, <1>2 DEF IInv, Types, World
<1>4. Calling' /\ OneAlive' /\ TargetKept'
  BY <1>1 DEF IInv, Calling, OneAlive, TargetKept
<1> QED
  BY <1>3, <1>4 DEF IInv

LEMMA StutterStep == ASSUME IInv, UNCHANGED vars PROVE IInv'
<1>1. Shells' = Shells /\ Readers' = Readers /\ \A t \in Threads : Placed(t)' = Placed(t)
  BY DEF vars, world, Shells, Readers, Placed, PassedBy, Begun, Told, Telling, Looks
<1>2. Types'
  BY <1>1 DEF vars, world, IInv, Types, World
<1>3. Calling' /\ OneAlive' /\ TargetKept'
  BY DEF vars, world, IInv, Calling, OneAlive, TargetKept, Doing
<1> QED
  BY <1>2, <1>3 DEF IInv

\* The inductive invariant holds in every state.
THEOREM Invariant == Spec => []IInv
<1>1. ASSUME IInv, Next PROVE IInv'
  <2>1. CASE HolderStep
    BY <1>1, <2>1, SpawnStep, WriteStep, JudgeStep, FailedStep, CloseSinkStep, CloseSourceStep, DestroyStep
       DEF HolderStep
  <2>2. CASE TimesOut
    BY <1>1, <2>2, TimesOutStep
  <2>3. CASE ReaderStep
    BY <1>1, <2>3, TakeTaskStep, EnterReadLineStep, ReadLineStep DEF ReaderStep
  <2>4. CASE CatWrites \/ CatEnds
    BY <1>1, <2>4, CatSteps
  <2>5. ASSUME NEW t \in Threads, ThreadStep(t) PROVE IInv'
    BY <1>1, <2>5, EnterStep, ReadSteps DEF ThreadStep
  <2>6. ASSUME NEW s \in Sessions, ShellStep(s) \/ Dies(s) \/ Drain(s) PROVE IInv'
    BY <1>1, <2>6, ShellSteps
  <2>7. CASE Appears
    BY <1>1, <2>7, AppearsStep
  <2> QED
    BY <1>1, <2>1, <2>2, <2>3, <2>4, <2>5, <2>6, <2>7 DEF Next
<1>2. IInv /\ [Next]_vars => IInv'
  BY <1>1, StutterStep
<1> QED
  BY <1>2, InitInv, PTL DEF Spec

LEMMA TypesGiven == IInv => TypeOK
<1> SUFFICES ASSUME IInv PROVE TypeOK
  OBVIOUS
<1>1. Types /\ Calling
  BY DEF IInv
<1>2. ASSUME NEW t \in Threads
      PROVE  th[t].pc \in {"start", "reading", "done"} /\ th[t].k \in 1..3
             /\ th[t].lost \subseteq 1..2 /\ th[t].got \in 0..cat.sent
  <2>1. th[t] \in ThreadRecords /\ th[t].got <= cat.sent /\ cat.sent \in Nat
    BY <1>1 DEF Types, Placed, World
  <2> QED
    BY <2>1 DEF ThreadRecords
<1>3. ASSUME NEW s \in Sessions
      PROVE  /\ shell[s].stdin \in Seq(Runs) /\ shell[s].out \in Seq(Items)
             /\ shell[s].run \in Runs \cup {NoRun} /\ (shell[s].run = NoRun) = (shell[s].stage = "none")
  <2>1. shell[s] \in Shells
    BY <1>1 DEF Types
  <2> QED
    BY <2>1 DEF Shells, ShellRecords
<1>4. reader.at \in {"idle", "read", "inside"} /\ (reader.at # "idle" => reader.session \in Sessions)
  BY <1>1 DEF Types, Readers, ReaderRecords
<1>5. job \in Teams /\ lock \in Threads \cup {Nobody} /\ (lock = Nobody) = (call = NoCall)
      /\ proc \in Sessions \cup {NoSession} /\ pool \in BOOLEAN
      /\ (call.step \in {"write", "wait"} => proc # NoSession)
  BY <1>1 DEF Types, Calling
<1> QED
  BY <1>2, <1>3, <1>4, <1>5 DEF TypeOK

\* At most one privileged shell lives, and none once close() has shut the pool
\* and nobody is inside (PrivilegedShell.connect, shutdown and close).
THEOREM OneShellAlive == Spec => []OneShell
<1>1. IInv => OneShell
  <2> SUFFICES ASSUME IInv PROVE OneShell
    OBVIOUS
  <2>1. OneAlive /\ (~pool /\ lock = Nobody => proc = NoSession)
    BY DEF IInv, Calling
  <2>2. \A r, s \in Sessions : shell[r].up /\ shell[s].up => r = s
    BY <2>1 DEF OneAlive
  <2>3. ~pool /\ lock = Nobody => \A s \in Sessions : ~shell[s].up
    BY <2>1, RunFacts DEF OneAlive
  <2> QED
    BY <2>2, <2>3, TypesGiven DEF OneShell
<1> QED
  BY <1>1, Invariant, PTL

\* What a rename replaces, neither of its looks could see: each was lost, or ran
\* when nothing was to be seen there.  In every behaviour, for any number of threads
\* and shells, whenever another program or thread brings the target into being
\* (LocalFileSystem.rename, PrivilegedFs.rename and exists).
THEOREM RenameLooks == Spec => []TargetKept
<1>1. IInv => TargetKept
  BY DEF IInv
<1> QED
  BY <1>1, Invariant, PTL

-----------------------------------------------------------------------------
(* What is answered: the second invariant, on top of the first.  Runs are   *)
(* never repeated, so what the reader still does for a call that has given  *)
(* up is not taken for the present one; the session of a call holds nothing *)
(* but that call's command or its output; and what a code claims about the  *)
(* files is so, and stays so.                                               *)

\* The tries of one command, in their order.
Rank(phase) == CASE phase = "id1" -> 1 [] phase = "try1" -> 2 [] phase = "id2" -> 3 [] OTHER -> 4

\* A run that has been written, or has been overtaken.
Past(r) ==
  \/ r.k < th[r.who].k
  \/ th[r.who].pc = "done"
  \/ r.who = lock /\ r.k = th[lock].k /\ Rank(r.phase) < Rank(call.phase)
  \/ r.who = lock /\ r = ThisRun /\ call.step \notin {"spawn", "write"}

\* Nothing is under way in a session, or the command of one run only.
Empty(o) == o.stdin = <<>> /\ o.run = NoRun /\ o.out = <<>>
Holds(o, r) ==
  \/ Empty(o)
  \/ o.stdin = <<r>> /\ o.run = NoRun /\ o.out = <<>>
  \/ o.stdin = <<>> /\ o.run = r /\ o.out = <<>>
  \/ o.stdin = <<>> /\ o.run = NoRun /\ Len(o.out) = 1 /\ o.out[1].run = r

Exchange ==
  /\ \A s \in Sessions : ~shell[s].up => shell[s].stdin = <<>>
  /\ reader.run # NoRun => Past(reader.run)
  /\ proc # NoSession /\ call.step # "destroy" => shell[proc].source
  /\ proc # NoSession /\ call.step \in {"none", "write"} => Empty(shell[proc])
  /\ call.step = "failed" => proc # NoSession /\ (call.phase \in CleansUp \/ Empty(shell[proc]))
  /\ call.step = "wait" => Holds(shell[proc], ThisRun)
  /\ call.step = "wait" /\ reader.run = ThisRun =>
       reader.session = proc /\ ~reader.foreign /\ (reader.got # "none" => Empty(shell[proc]))

\* What the exit status of a run says of the files.
Supports(r, code) ==
  /\ Command(r) = "mkdir" /\ code \in {"yes", "no"} => dir
  /\ Command(r) = "mv" /\ code = "yes" => ~source /\ target \in {"moved", "replaced"}
  /\ Command(r) = "test" /\ code = "yes" => target # "none"

Supported(o) ==
  /\ o.run # NoRun => Supports(o.run, o.code)
  /\ \A n \in DOMAIN o.out : Supports(o.out[n].run, o.out[n].code)

Truth ==
  /\ \A s \in Sessions : Supported(shell[s])
  /\ reader.run # NoRun => Supports(reader.run, reader.got)

\* The process of a read says "ok" only after its last block, and no more.
Whole == (cat.up => cat.code = "none") /\ (cat.code = "ok" => cat.sent = Size)

\* An answer is its caller's own, and supported.
Replied(t) ==
  /\ ~th[t].foreign
  /\ th[t].pc = "reading" => job[t] = "read"
  /\ job[t] = "read" /\ th[t].answer = "yes" => th[t].pc = "done" /\ th[t].got = Size
  /\ th[t].pc = "done" =>
       /\ job[t] = "mkdir" /\ th[t].answer \in {"yes", "no"} => dir
       /\ job[t] = "rename" /\ th[t].answer = "yes" => ~source /\ target \in {"moved", "replaced"}
       /\ job[t] = "rename" /\ th[t].answer = "refused" => target # "none"

Honest == Exchange /\ Truth /\ Whole /\ \A t \in Threads : Replied(t)

\* The files only go forward.
Grows ==
  /\ dir => dir'
  /\ target # "none" => target' # "none"
  /\ ~source /\ target \in {"moved", "replaced"} => ~source' /\ target' \in {"moved", "replaced"}

LEMMA SupportsGrow ==
  ASSUME UNCHANGED job, Grows, NEW r, NEW code, Supports(r, code)
  PROVE  Supports(r, code)'
<1>1. Command(r)' = Command(r)
  BY DEF Command
<1> QED
  BY <1>1 DEF Supports, Grows

LEMMA SupportedGrow ==
  ASSUME UNCHANGED job, Grows, NEW o, Supported(o)
  PROVE  Supported(o)'
BY SupportsGrow DEF Supported

LEMMA RepliedGrow ==
  ASSUME Grows, NEW t, UNCHANGED <<job, th[t]>>, Replied(t)
  PROVE  Replied(t)'
BY DEF Replied, Grows

\* The fields of what the reader can be.
LEMMA ReaderFields ==
  ASSUME NEW q \in Readers
  PROVE  /\ q \in ReaderRecords /\ q.run \in Begun \cup {NoRun} /\ q.foreign \in BOOLEAN
         /\ q.at # "idle" => q.session \in Sessions /\ q.run # NoRun
BY DEF Readers, ReaderRecords

\* A step of a shell's process.
LEMMA HonestShell ==
  ASSUME IInv, Honest, ShellOnly, Grows,
         NEW s \in Sessions, NEW o, o = shell[s], NEW r, Shell(s, r),
         r.source = o.source, ~r.up => r.stdin = <<>>, Empty(o) => Empty(r),
         \A x : Holds(o, x) => Holds(r, x), Supported(r)'
  PROVE  Honest'
<1>1. shell' = [shell EXCEPT ![s] = r] /\ shell \in [Sessions -> Shells]
  BY DEF Shell, IInv, Types
<1>2. shell'[s] = r /\ \A n \in Sessions : n # s => shell'[n] = shell[n]
  BY <1>1
<1>3. proc \in Sessions \cup {NoSession} /\ (call.step = "wait" => proc # NoSession)
  BY DEF IInv, Types, Calling
<1>4. UNCHANGED <<job, th, lock, call, proc, pool, reader, cat>>
  BY DEF ShellOnly
<1>5. ThisRun' = ThisRun /\ (Past(reader.run) => Past(reader.run)')
  BY <1>4 DEF ThisRun, Past
<1>6. /\ \A n \in Sessions : ~shell'[n].up => shell'[n].stdin = <<>>
      /\ proc # NoSession /\ call.step # "destroy" => shell'[proc].source
      /\ \A n \in Sessions : Empty(shell[n]) => Empty(shell'[n])
      /\ \A n \in Sessions : \A x : Holds(shell[n], x) => Holds(shell'[n], x)
  BY <1>2, <1>3 DEF Honest, Exchange
<1>7. Exchange'
  BY <1>3, <1>4, <1>5, <1>6 DEF Honest, Exchange
<1>8. Truth'
  <2>1. \A n \in Sessions : Supported(shell[n])' 
    <3>1. ASSUME NEW n \in Sessions PROVE Supported(shell[n])'
      <4>1. CASE n = s
        BY <1>2, <4>1 DEF Supported, Supports
      <4>2. CASE n # s
        <5>1. PICK p : p = shell[n]
          OBVIOUS
        <5>2. Supported(p)'
          BY <1>4, <5>1, SupportedGrow DEF Honest, Truth
        <5> QED
          BY <1>2, <4>2, <5>1, <5>2 DEF Supported, Supports
      <4> QED
        BY <4>1, <4>2
    <3> QED
      BY <3>1
  <2>2. PICK q : q = reader
    OBVIOUS
  <2>3. q.run # NoRun => Supports(q.run, q.got)'
    BY <1>4, <2>2, SupportsGrow DEF Honest, Truth
  <2>4. reader'.run # NoRun => Supports(reader.run, reader.got)'
    BY <1>4, <2>2, <2>3 DEF Supports, Command
  <2> QED
    BY <2>1, <2>4 DEF Truth
<1>9. Whole' /\ \A t \in Threads : Replied(t)'
  BY <1>4, RepliedGrow DEF Honest, Whole
<1> QED
  BY <1>7, <1>8, <1>9 DEF Honest

LEMMA BeginsHonest ==
  ASSUME IInv, Honest, NEW s \in Sessions, Begins(s)
  PROVE  Honest'
<1>1. PICK o \in Shells : o = shell[s]
  BY DEF IInv, Types
<1> DEFINE r == [o EXCEPT !.run = Head(o.stdin), !.stdin = Tail(o.stdin), !.stage = "begun"]
<1>2. o \in ShellRecords /\ o.stdin \in Seq(Runs) /\ o.up /\ o.run = NoRun /\ o.stdin # <<>> /\ o.code = "none"
  BY <1>1, ShellFields DEF Begins
<1>3. /\ r.run = Head(o.stdin) /\ r.stdin = Tail(o.stdin) /\ r.source = o.source
      /\ r.up = o.up /\ r.out = o.out /\ r.code = o.code
  BY <1>2 DEF ShellRecords
<1>4. Shell(s, r) /\ ShellOnly /\ UNCHANGED world
  BY <1>1 DEF Begins
<1> HIDE DEF r
<1>5. \A x : o.stdin = <<x>> => r.stdin = <<>> /\ r.run = x
  BY <1>3
<1>6. ~Empty(o) /\ \A x : Holds(o, x) => Holds(r, x)
  BY <1>2, <1>3, <1>5 DEF Empty, Holds
<1>7. Grows /\ job' = job
  BY <1>4 DEF Grows, world, ShellOnly
<1>8. Supported(r)'
  <2>1. Supported(o)'
    BY <1>1, <1>7, SupportedGrow DEF Honest, Truth
  <2> QED
    BY <1>2, <1>3, <2>1 DEF Supported, Supports
<1> QED
  BY <1>1, <1>2, <1>3, <1>4, <1>6, <1>7, <1>8, HonestShell

LEMMA TakesEffectHonest ==
  ASSUME IInv, Honest, NEW s \in Sessions, TakesEffect(s)
  PROVE  Honest'
<1>1. PICK o \in Shells : o = shell[s]
  BY DEF IInv, Types
<1>2. PICK cmd : cmd = Command(o.run)
  OBVIOUS
<1>3. PICK code : code = Status(cmd)
  OBVIOUS
<1>4. PICK stage \in {"noisy", "ended"} : Shell(s, [o EXCEPT !.stage = stage, !.code = code])
  BY <1>1, <1>2, <1>3 DEF TakesEffect
<1> DEFINE r == [o EXCEPT !.stage = stage, !.code = code]
<1>5. Acts(o.run) /\ ShellOnly
  BY <1>1, <1>2 DEF TakesEffect
<1>6. o \in ShellRecords
  BY ShellFields
<1>7. /\ r.run = o.run /\ r.stdin = o.stdin /\ r.source = o.source
      /\ r.up = o.up /\ r.out = o.out /\ r.code = code
  BY <1>6 DEF ShellRecords
<1>8. Shell(s, r)
  BY <1>4
<1> HIDE DEF r
<1>9. Grows /\ job' = job /\ Command(o.run)' = cmd
  BY <1>2, <1>5 DEF Grows, Acts, ShellOnly, Command
<1>10. Supports(o.run, code)'
  <2>1. cmd = "mkdir" => dir'
    BY <1>2, <1>5 DEF Acts
  <2>2. cmd = "mv" /\ code = "yes" => ~source' /\ target' \in {"moved", "replaced"}
    BY <1>2, <1>3, <1>5 DEF Acts, Status, Visible
  <2>3. cmd = "test" /\ code = "yes" => target' # "none"
    BY <1>2, <1>3, <1>5 DEF Acts, Status, Visible
  <2> QED
    BY <1>9, <2>1, <2>2, <2>3 DEF Supports
<1>11. Supported(r)'
  <2>1. Supported(o)'
    BY <1>1, <1>9, SupportedGrow DEF Honest, Truth
  <2> QED
    BY <1>7, <1>10, <2>1 DEF Supported, Supports
<1>12. (Empty(o) => Empty(r)) /\ \A x : Holds(o, x) => Holds(r, x)
  BY <1>7 DEF Empty, Holds
<1>13. ~r.up => r.stdin = <<>>
  BY <1>1, <1>7 DEF Honest, Exchange
<1> QED
  BY <1>1, <1>5, <1>7, <1>8, <1>9, <1>11, <1>12, <1>13, HonestShell

LEMMA PrintsHonest ==
  ASSUME IInv, Honest, NEW s \in Sessions, Prints(s)
  PROVE  Honest'
<1>1. PICK o \in Shells : o = shell[s]
  BY DEF IInv, Types
<1> DEFINE item == [run |-> o.run, code |-> IF o.up THEN o.code ELSE "none"]
           out == IF o.source THEN Append(o.out, item) ELSE o.out
           r == [o EXCEPT !.out = out, !.run = NoRun, !.stage = "none", !.code = "none"]
<1>2. o \in ShellRecords /\ o.run # NoRun /\ o.out \in Seq(Items) /\ o.code \in Codes /\ o.run \in Runs
  BY <1>1, ShellFields DEF Prints, ShellRecords
<1>3. item \in Items /\ item.run = o.run /\ item.code \in {o.code, "none"}
  BY <1>2 DEF Items, Codes
<1>4. Shell(s, r) /\ ShellOnly /\ UNCHANGED world
  BY <1>1 DEF Prints
<1> HIDE DEF item
<1>5. out = o.out \/ out = Append(o.out, item)
  OBVIOUS
<1> HIDE DEF out
<1>6. /\ r.run = NoRun /\ r.stdin = o.stdin /\ r.source = o.source
      /\ r.up = o.up /\ r.out = out
  BY <1>2 DEF ShellRecords
<1> HIDE DEF r
<1>7. Grows /\ job' = job
  BY <1>4 DEF Grows, world, ShellOnly
<1>8. Supported(r)'
  <2>1. Supported(o)'
    BY <1>1, <1>7, SupportedGrow DEF Honest, Truth
  <2>2. Supports(item.run, item.code)'
    BY <1>2, <1>3, <2>1 DEF Supported, Supports
  <2>3. ASSUME NEW n \in DOMAIN out PROVE out[n] = item \/ (n \in DOMAIN o.out /\ out[n] = o.out[n])
    BY <1>2, <1>3, <1>5
  <2>4. \A n \in DOMAIN out : Supports(out[n].run, out[n].code)'
    BY <2>1, <2>2, <2>3 DEF Supported, Supports
  <2> QED
    BY <1>6, <2>4 DEF Supported, Supports
<1>9. ~Empty(o) /\ \A x : Holds(o, x) => Holds(r, x)
  <2>1. o.out = <<>> /\ out = Append(o.out, item) => Len(out) = 1 /\ out[1] = item
    BY <1>3
  <2> QED
    BY <1>2, <1>3, <1>5, <1>6, <2>1 DEF Empty, Holds
<1>10. ~r.up => r.stdin = <<>>
  BY <1>1, <1>6 DEF Honest, Exchange
<1> QED
  BY <1>1, <1>4, <1>6, <1>7, <1>8, <1>9, <1>10, HonestShell
\* A shell that only stops, or whose stderr is read: what is in it is as before, or lost.
LEMMA Quieter ==
  ASSUME IInv, Honest, ShellOnly, UNCHANGED world,
         NEW s \in Sessions, NEW o, o = shell[s], NEW r, Shell(s, r),
         r.source = o.source, r.out = o.out,
         (r.run = o.run /\ r.code = o.code) \/ r.run = NoRun,
         r.stdin = <<>> \/ (r.stdin = o.stdin /\ r.up = o.up)
  PROVE  Honest'
<1>1. Grows /\ job' = job
  BY DEF Grows, world, ShellOnly
<1>2. Supported(r)'
  <2>1. Supported(o)'
    BY <1>1, SupportedGrow DEF Honest, Truth
  <2> QED
    BY <2>1 DEF Supported, Supports
<1>3. (Empty(o) => Empty(r)) /\ \A x : Holds(o, x) => Holds(r, x)
  BY DEF Empty, Holds
<1>4. ~r.up => r.stdin = <<>>
  BY DEF Honest, Exchange
<1> QED
  BY <1>1, <1>2, <1>3, <1>4, HonestShell

LEMMA StopsHonest ==
  ASSUME IInv, Honest, NEW s \in Sessions, Exits(s) \/ Dies(s) \/ Drain(s)
  PROVE  Honest'
<1>1. PICK o \in Shells : o = shell[s]
  BY DEF IInv, Types
<1>2. o \in ShellRecords /\ ShellOnly /\ UNCHANGED world
  BY ShellFields DEF Exits, Dies, Drain
<1>3. CASE Exits(s)
  <2> DEFINE r == [o EXCEPT !.up = FALSE]
  <2>1. Shell(s, r) /\ o.stdin = <<>>
    BY <1>1, <1>3 DEF Exits
  <2>2. r.stdin = o.stdin /\ r.run = o.run /\ r.code = o.code /\ r.source = o.source /\ r.out = o.out
    BY <1>2 DEF ShellRecords
  <2> HIDE DEF r
  <2> QED
    BY <1>1, <1>2, <2>1, <2>2, Quieter
<1>4. CASE Dies(s)
  <2>1. PICK r \in Killed(o) : Shell(s, r)
    BY <1>1, <1>4 DEF Dies
  <2>2. o.up
    BY <1>1, <1>4 DEF Dies
  <2> DEFINE alone == [o EXCEPT !.up = FALSE, !.stdin = <<>>]
             quiet == [alone EXCEPT !.run = NoRun, !.stage = "none", !.code = "none"]
  <2>3. r \in {alone, quiet}
    BY <2>1, <2>2 DEF Killed
  <2>4. alone \in ShellRecords /\ alone.stdin = <<>> /\ alone.run = o.run /\ alone.code = o.code
        /\ alone.source = o.source /\ alone.out = o.out
    <3>1. <<>> \in Seq(Runs)
      OBVIOUS
    <3> QED
      BY <1>2, <3>1 DEF ShellRecords
  <2> HIDE DEF alone
  <2>5. quiet.stdin = <<>> /\ quiet.run = NoRun /\ quiet.source = o.source /\ quiet.out = o.out
    BY <2>4 DEF ShellRecords
  <2> HIDE DEF quiet
  <2>6. r.stdin = <<>> /\ r.source = o.source /\ r.out = o.out
        /\ ((r.run = o.run /\ r.code = o.code) \/ r.run = NoRun)
    BY <2>3, <2>4, <2>5
  <2> QED
    BY <1>1, <1>2, <2>1, <2>6, Quieter
<1>5. CASE Drain(s)
  <2> DEFINE r == [o EXCEPT !.stage = "ended"]
  <2>1. Shell(s, r)
    BY <1>1, <1>5 DEF Drain
  <2>2. r.stdin = o.stdin /\ r.run = o.run /\ r.code = o.code /\ r.source = o.source /\ r.out = o.out /\ r.up = o.up
    BY <1>2 DEF ShellRecords
  <2> HIDE DEF r
  <2> QED
    BY <1>1, <1>2, <2>1, <2>2, Quieter
<1> QED
  BY <1>3, <1>4, <1>5

-----------------------------------------------------------------------------
(* The reader takes what is in a session, for the run it was given.         *)

LEMMA TailFacts ==
  ASSUME NEW S, NEW q \in Seq(S), q # <<>>
  PROVE  /\ 1 \in DOMAIN q /\ Head(q) = q[1] /\ Tail(q) \in Seq(S)
         /\ Len(q) = 1 => Tail(q) = <<>>
         /\ \A k \in DOMAIN Tail(q) : k + 1 \in DOMAIN q /\ Tail(q)[k] = q[k + 1]
<1>1. Len(q) \in Nat /\ Len(q) # 0 /\ DOMAIN q = 1..Len(q) /\ Head(q) = q[1]
  OBVIOUS
<1>2. Tail(q) \in Seq(S) /\ Len(Tail(q)) = Len(q) - 1 /\ DOMAIN Tail(q) = 1..(Len(q) - 1)
  BY <1>1
<1>3. \A k \in 1..(Len(q) - 1) : k + 1 \in 1..Len(q) /\ Tail(q)[k] = q[k + 1]
  BY <1>1
<1>4. Len(q) = 1 => Tail(q) = <<>>
  BY <1>2
<1> QED
  BY <1>1, <1>2, <1>3, <1>4

LEMMA HonestReader ==
  ASSUME IInv, Honest, ReaderOnly, NEW q, reader' = q,
         \/ UNCHANGED shell
         \/ \E s \in Sessions : /\ shell[s].out # <<>>
                                /\ Shell(s, [shell[s] EXCEPT !.out = Tail(shell[s].out)]),
         q.run \in {NoRun, reader.run} \/ (call.step = "wait" /\ q.run = ThisRun),
         q.run # NoRun => Supports(q.run, q.got),
         call.step = "wait" /\ q.run = ThisRun =>
           q.session = proc /\ ~q.foreign /\ (q.got # "none" => Empty(shell'[proc]))
  PROVE  Honest'
<1>1. UNCHANGED <<job, th, lock, call, proc, pool, cat, dir, source, target>>
  BY DEF ReaderOnly, world
<1>2. shell \in [Sessions -> Shells] /\ proc \in Sessions \cup {NoSession}
      /\ (call.step = "wait" => proc # NoSession)
  BY DEF IInv, Types, Calling
<1>3. ASSUME NEW n \in Sessions
      PROVE  /\ shell'[n].up = shell[n].up /\ shell'[n].stdin = shell[n].stdin
             /\ shell'[n].source = shell[n].source
             /\ Empty(shell[n]) => Empty(shell'[n])
             /\ \A x : Holds(shell[n], x) => Holds(shell'[n], x)
             /\ Supported(shell[n]) => Supported(shell'[n])
  <2>1. CASE shell'[n] = shell[n]
    BY <2>1
  <2>2. CASE shell'[n] # shell[n]
    <3>1. PICK s \in Sessions : /\ shell[s].out # <<>>
                                /\ Shell(s, [shell[s] EXCEPT !.out = Tail(shell[s].out)])
      BY <2>2
    <3>2. n = s /\ shell'[n] = [shell[n] EXCEPT !.out = Tail(shell[n].out)]
      BY <1>2, <2>2, <3>1 DEF Shell
    <3> DEFINE o == shell[n]
               t == Tail(o.out)
    <3>3. o \in ShellRecords /\ o.out \in Seq(Items) /\ o.out # <<>>
      BY <1>2, <3>1, <3>2, ShellFields
    <3>4. t \in Seq(Items) /\ (Len(o.out) = 1 => t = <<>>) /\ \A k \in DOMAIN t : k + 1 \in DOMAIN o.out /\ t[k] = o.out[k + 1]
      BY <3>3, TailFacts
    <3> HIDE DEF t
    <3>5. /\ shell'[n].up = o.up /\ shell'[n].stdin = o.stdin /\ shell'[n].source = o.source
          /\ shell'[n].run = o.run /\ shell'[n].code = o.code /\ shell'[n].out = t
      BY <3>2, <3>3 DEF ShellRecords, t
    <3>6. Supported(o) => Supported(shell'[n])
      BY <3>4, <3>5 DEF Supported
    <3>7. ~Empty(o) /\ \A x : Holds(o, x) => Holds(shell'[n], x)
      BY <3>3, <3>4, <3>5 DEF Empty, Holds
    <3> QED
      BY <3>5, <3>6, <3>7
  <2> QED
    BY <2>1, <2>2
<1>4. \A r, c : Supports(r, c)' = Supports(r, c)
  BY <1>1 DEF Supports, Command
<1>5. ThisRun' = ThisRun /\ (q.run # NoRun => Past(q.run))
  BY <1>1 DEF ThisRun, Past, Honest, Exchange
<1>6. q.run # NoRun => Past(q.run)'
  BY <1>1, <1>5 DEF Past
<1>7. reader'.run # NoRun => Past(reader.run)'
  BY <1>6 DEF Past
<1>8. Exchange'
  BY <1>1, <1>2, <1>3, <1>5, <1>7 DEF Honest, Exchange
<1>9. Truth'
  <2>1. \A n \in Sessions : Supported(shell'[n])
    BY <1>3 DEF Honest, Truth
  <2>2. \A n \in Sessions : Supported(shell[n])'
    BY <1>4, <2>1 DEF Supported
  <2>3. reader'.run # NoRun => Supports(reader.run, reader.got)'
    BY <1>1 DEF Supports, Command
  <2> QED
    BY <2>2, <2>3 DEF Truth
<1>10. Whole' /\ \A t \in Threads : Replied(t)'
  BY <1>1 DEF Honest, Whole, Replied
<1> QED
  BY <1>8, <1>9, <1>10 DEF Honest

LEMMA RestingSays == Resting.run = NoRun /\ Resting.foreign = FALSE /\ Resting.got = "none"
BY DEF Resting

LEMMA TakeTaskHonest == ASSUME IInv, Honest, TakeTask PROVE Honest'
<1> DEFINE q == [Resting EXCEPT !.at = "read", !.run = ThisRun, !.session = proc]
<1>1. call.step = "wait" /\ reader' = q /\ ReaderOnly /\ UNCHANGED shell
  BY DEF TakeTask
<1>2. q.run = ThisRun /\ q.session = proc /\ ~q.foreign /\ q.got = "none"
  BY DEF Resting
<1> HIDE DEF q
<1>3. Supports(q.run, q.got)
  BY <1>2 DEF Supports
<1> QED
  BY <1>1, <1>2, <1>3, HonestReader

\* The result of a task: it counts only while its own call waits.
LEMMA GivesHonest ==
  ASSUME IInv, Honest, reader.at # "idle", NEW a, NEW q, q = Gives(a),
         reader.run # NoRun => Supports(reader.run, a)
  PROVE  /\ q.run \in {NoRun, reader.run}
         /\ q.run # NoRun => Supports(q.run, q.got)
         /\ call.step = "wait" /\ q.run = ThisRun =>
              q.session = proc /\ ~q.foreign /\ reader.run = ThisRun
<1>1. reader \in Readers /\ reader \in ReaderRecords /\ reader.run # NoRun
  BY ReaderFields DEF IInv, Types
<1>2. CASE q = Resting
  <2>1. q.run = NoRun
    BY <1>2, RestingSays
  <2>2. call.step = "wait" => ThisRun # NoRun
    <3> SUFFICES ASSUME call.step = "wait" PROVE ThisRun # NoRun
      OBVIOUS
    <3>1. lock # Nobody
      BY HoldingFacts DEF IInv
    <3> QED
      BY <3>1 DEF ThisRun, NoRun
  <2> QED
    BY <2>1, <2>2
<1>3. CASE call.step = "wait" /\ reader.run = ThisRun /\ q = [reader EXCEPT !.at = "idle", !.got = a]
  <2>1. q.run = reader.run /\ q.session = reader.session /\ q.foreign = reader.foreign /\ q.got = a
    BY <1>1, <1>3 DEF ReaderRecords
  <2> QED
    BY <1>1, <1>3, <2>1 DEF Honest, Exchange
<1> QED
  BY <1>2, <1>3 DEF Gives

LEMMA EnterReadLineHonest == ASSUME IInv, Honest, EnterReadLine PROVE Honest'
<1>1. reader.at = "read" /\ ReaderOnly /\ UNCHANGED shell
  BY DEF EnterReadLine
<1>2. reader \in ReaderRecords /\ reader.run # NoRun
  BY <1>1, ReaderFields DEF IInv, Types
<1>3. CASE reader' = [reader EXCEPT !.at = "inside"]
  <2>1. PICK q : q = [reader EXCEPT !.at = "inside"]
    OBVIOUS
  <2>2. q.run = reader.run /\ q.session = reader.session /\ q.foreign = reader.foreign /\ q.got = reader.got
    BY <1>2, <2>1 DEF ReaderRecords
  <2>3. q.run # NoRun => Supports(q.run, q.got)
    BY <2>2 DEF Honest, Truth
  <2>4. call.step = "wait" /\ q.run = ThisRun =>
           q.session = proc /\ ~q.foreign /\ (q.got # "none" => Empty(shell'[proc]))
    BY <1>1, <2>2 DEF Honest, Exchange
  <2> QED
    BY <1>1, <1>3, <2>1, <2>2, <2>3, <2>4, HonestReader
<1>4. CASE reader' = Gives("closed") /\ ~shell[reader.session].source
  <2>1. PICK q : q = Gives("closed")
    OBVIOUS
  <2>2. Supports(reader.run, "closed")
    BY DEF Supports
  <2>3. /\ q.run \in {NoRun, reader.run} /\ (q.run # NoRun => Supports(q.run, q.got))
        /\ call.step = "wait" /\ q.run = ThisRun => reader.run = ThisRun
    BY <1>1, <2>1, <2>2, GivesHonest
  <2>4. ~(call.step = "wait" /\ reader.run = ThisRun)
    BY <1>4 DEF Honest, Exchange, IInv, Calling
  <2> QED
    BY <1>1, <1>4, <2>1, <2>3, <2>4, HonestReader
<1> QED
  BY <1>3, <1>4 DEF EnterReadLine

LEMMA ReadLineHonest == ASSUME IInv, Honest, ReadLine PROVE Honest'
<1>1. PICK n : n = reader.session
  OBVIOUS
<1>2. PICK o : o = shell[n]
  OBVIOUS
<1>3. reader.at = "inside" /\ reader \in ReaderRecords /\ reader.run # NoRun /\ n \in Sessions
      /\ o \in Shells /\ ReaderOnly /\ shell \in [Sessions -> Shells]
  BY <1>1, <1>2, ReaderFields DEF ReadLine, IInv, Types
<1>4. call.step = "wait" /\ reader.run = ThisRun => n = proc /\ ~reader.foreign /\ Holds(o, reader.run)
  BY <1>1, <1>2 DEF Honest, Exchange
<1>5. CASE o.out = <<>> /\ ~o.up /\ o.run = NoRun /\ reader' = Gives("closed") /\ UNCHANGED shell
  <2>1. PICK q : q = Gives("closed")
    OBVIOUS
  <2>2. Supports(reader.run, "closed")
    BY DEF Supports
  <2>3. /\ q.run \in {NoRun, reader.run} /\ (q.run # NoRun => Supports(q.run, q.got))
        /\ call.step = "wait" /\ q.run = ThisRun => q.session = proc /\ ~q.foreign /\ reader.run = ThisRun
    BY <1>3, <2>1, <2>2, GivesHonest
  <2>4. Empty(o)
    BY <1>2, <1>3, <1>5 DEF Empty, Honest, Exchange
  <2> QED
    BY <1>2, <1>3, <1>4, <1>5, <2>1, <2>3, <2>4, HonestReader
<1>6. CASE /\ o.out # <<>>
           /\ Shell(n, [o EXCEPT !.out = Tail(o.out)])
           /\ reader' = IF Head(o.out).run = reader.run /\ Head(o.out).code # "none"
                        THEN Gives(Head(o.out).code)
                        ELSE [reader EXCEPT !.at = "read", !.foreign = reader.foreign \/ Head(o.out).run # reader.run]
  <2>1. PICK item : item = Head(o.out)
    OBVIOUS
  <2>2. o \in ShellRecords /\ o.out \in Seq(Items)
    BY <1>3, ShellFields
  <2>3. item = o.out[1] /\ 1 \in DOMAIN o.out /\ (Len(o.out) = 1 => Tail(o.out) = <<>>)
    BY <1>6, <2>1, <2>2, TailFacts
  <2>4. Supports(item.run, item.code)
    BY <1>2, <1>3, <2>3 DEF Honest, Truth, Supported
  <2>5. call.step = "wait" /\ reader.run = ThisRun => item.run = reader.run /\ Empty(shell'[proc])
    <3> SUFFICES ASSUME call.step = "wait", reader.run = ThisRun
                 PROVE  item.run = reader.run /\ Empty(shell'[proc])
      OBVIOUS
    <3>1. o.stdin = <<>> /\ o.run = NoRun /\ Len(o.out) = 1 /\ o.out[1].run = reader.run
      BY <1>4, <1>6 DEF Holds, Empty
    <3> DEFINE r == [o EXCEPT !.out = Tail(o.out)]
    <3>2. r.stdin = <<>> /\ r.run = NoRun /\ r.out = <<>>
      BY <2>2, <2>3, <3>1 DEF ShellRecords
    <3>3. shell'[proc] = r
      BY <1>3, <1>4, <1>6 DEF Shell
    <3> HIDE DEF r
    <3> QED
      BY <2>3, <3>1, <3>2, <3>3 DEF Empty
  <2>6. CASE item.run = reader.run /\ item.code # "none"
    <3>1. PICK q : q = Gives(item.code)
      OBVIOUS
    <3>2. /\ q.run \in {NoRun, reader.run} /\ (q.run # NoRun => Supports(q.run, q.got))
          /\ call.step = "wait" /\ q.run = ThisRun => q.session = proc /\ ~q.foreign /\ reader.run = ThisRun
      BY <1>3, <2>4, <2>6, <3>1, GivesHonest
    <3> QED
      BY <1>2, <1>3, <1>6, <2>1, <2>5, <2>6, <3>1, <3>2, HonestReader
  <2>7. CASE ~(item.run = reader.run /\ item.code # "none")
    <3>1. PICK q : q = [reader EXCEPT !.at = "read", !.foreign = reader.foreign \/ item.run # reader.run]
      OBVIOUS
    <3>2. /\ q.run = reader.run /\ q.session = reader.session /\ q.got = reader.got
          /\ item.run = reader.run => q.foreign = reader.foreign
      BY <1>3, <3>1 DEF ReaderRecords
    <3>3. reader' = q
      BY <1>6, <2>1, <2>7, <3>1
    <3>4. q.run # NoRun => Supports(q.run, q.got)
      BY <3>2 DEF Honest, Truth
    <3>5. call.step = "wait" /\ q.run = ThisRun =>
            q.session = proc /\ ~q.foreign /\ (q.got # "none" => Empty(shell'[proc]))
      BY <1>1, <1>4, <2>5, <3>2
    <3> QED
      BY <1>2, <1>3, <1>6, <3>2, <3>3, <3>4, <3>5, HonestReader
  <2> QED
    BY <2>6, <2>7
<1> QED
  BY <1>1, <1>2, <1>5, <1>6 DEF ReadLine
-----------------------------------------------------------------------------
(* The process of a read.                                                   *)

LEMMA HonestCat ==
  ASSUME IInv, Honest, CatOnly, Whole',
         \A t \in Threads : /\ th'[t].k = th[t].k /\ (th[t].pc = "done" => th'[t].pc = "done")
                            /\ Replied(t)'
  PROVE  Honest'
<1>1. UNCHANGED <<job, lock, call, proc, pool, reader, shell, dir, source, target>>
  BY DEF CatOnly, world
<1>2. /\ reader \in Readers /\ lock \in Threads \cup {Nobody} /\ (call.step # "none" => lock \in Threads)
      /\ proc \in Sessions \cup {NoSession}
  BY HoldingFacts DEF IInv, Types
<1>3. PICK r : r = reader.run
  OBVIOUS
<1>4. lock \in Threads => ThisRun' = ThisRun
  BY <1>1 DEF ThisRun
<1>5. r # NoRun => r.who \in Threads /\ r.who # Nobody
  BY <1>2, <1>3, ReaderFields, RunFacts
<1>6. r # NoRun => Past(r)'
  <2> SUFFICES ASSUME r # NoRun PROVE Past(r)'
    OBVIOUS
  <2>1. Past(r)
    BY <1>3 DEF Honest, Exchange
  <2>2. th'[r.who].k = th[r.who].k /\ (th[r.who].pc = "done" => th'[r.who].pc = "done")
    BY <1>5
  <2>3. CASE r.who = lock
    BY <1>1, <1>4, <1>5, <2>1, <2>2, <2>3 DEF Past
  <2>4. CASE r.who # lock
    BY <2>1, <2>2, <2>4 DEF Past
  <2> QED
    BY <2>3, <2>4
<1>7. reader'.run # NoRun => Past(reader.run)'
  BY <1>1, <1>3, <1>6 DEF Past
<1>8. Exchange'
  BY <1>1, <1>2, <1>4, <1>7 DEF Honest, Exchange
<1>9. Truth'
  <2>1. \A x, c : Supports(x, c)' = Supports(x, c)
    BY <1>1 DEF Supports, Command
  <2>2. \A s \in Sessions : Supported(shell[s])'
    BY <1>1, <2>1 DEF Honest, Truth, Supported
  <2>3. reader'.run # NoRun => Supports(reader.run, reader.got)'
    BY <1>1 DEF Honest, Truth, Supports, Command
  <2> QED
    BY <2>2, <2>3 DEF Truth
<1> QED
  BY <1>8, <1>9 DEF Honest

LEMMA CatStepsHonest == ASSUME IInv, Honest, CatWrites \/ CatEnds PROVE Honest'
<1>1. /\ CatOnly /\ UNCHANGED th /\ cat \in [up : BOOLEAN, sent : Nat, code : {"none", "ok", "bad"}]
      /\ UNCHANGED <<job, dir, source, target>>
  BY DEF CatWrites, CatEnds, IInv, Types, World, CatOnly, world
<1>2. CASE CatWrites
  <2>1. cat' = [cat EXCEPT !.sent = cat.sent + 1] /\ cat.up
    BY <1>2 DEF CatWrites
  <2>2. cat'.up = cat.up /\ cat'.code = cat.code
    BY <1>1, <2>1
  <2>3. Whole'
    BY <2>1, <2>2 DEF Honest, Whole
  <2> QED
    BY <1>1, <2>3, HonestCat DEF Honest, Replied
<1>3. CASE CatEnds
  <2>1. PICK code : /\ code = "bad" \/ (cat.sent = Size /\ code = "ok")
                    /\ cat' = [cat EXCEPT !.up = FALSE, !.code = code]
    BY <1>3 DEF CatEnds
  <2>2. ~cat'.up /\ cat'.code = code /\ cat'.sent = cat.sent
    BY <1>1, <2>1
  <2>3. Whole'
    BY <2>1, <2>2 DEF Whole
  <2> QED
    BY <1>1, <2>3, HonestCat DEF Honest, Replied
<1> QED
  BY <1>2, <1>3

LEMMA ReadStepsHonest ==
  ASSUME IInv, Honest, NEW t \in Threads, StartCat(t) \/ ReadBlock(t) \/ CheckExit(t)
  PROVE  Honest'
<1>1. /\ CatOnly /\ cat \in [up : BOOLEAN, sent : Nat, code : {"none", "ok", "bad"}]
      /\ UNCHANGED <<job, dir, source, target>>
  BY DEF StartCat, ReadBlock, CheckExit, IInv, Types, World, CatOnly, world
<1>2. th \in [Threads -> ThreadRecords] /\ \A u \in Threads : Replied(u)
  BY DEF IInv, Types, Honest
<1>3. PICK o \in ThreadRecords : o = th[t]
  BY <1>2
<1>4. job[t] = "read"
  BY <1>2 DEF StartCat, ReadBlock, CheckExit, Replied
<1>5. cat'.sent = cat.sent /\ cat'.code = cat.code /\ Whole'
  <2>1. CASE StartCat(t)
    <3>1. cat' = [cat EXCEPT !.up = TRUE] /\ cat.code = "none"
      BY <2>1 DEF StartCat
    <3>2. cat'.sent = cat.sent /\ cat'.code = cat.code
      BY <1>1, <3>1
    <3> QED
      BY <3>1, <3>2 DEF Whole
  <2>2. CASE ReadBlock(t) \/ CheckExit(t)
    <3>1. cat' = cat
      BY <2>2 DEF ReadBlock, CheckExit
    <3> QED
      BY <3>1 DEF Honest, Whole
  <2> QED
    BY <2>1, <2>2
<1>6. \E v \in ThreadRecords :
        /\ th' = [th EXCEPT ![t] = v] /\ v.k = o.k /\ v.foreign = o.foreign /\ (o.pc = "done" => v.pc = "done")
        /\ v.answer = "yes" => v.pc = "done" /\ v.got = Size
  <2>1. ~o.foreign /\ (o.answer = "yes" => o.pc = "done" /\ o.got = Size)
    BY <1>2, <1>3, <1>4 DEF Replied
  <2>2. CASE StartCat(t)
    <3> DEFINE v == [o EXCEPT !.pc = "reading"]
    <3>1. v \in ThreadRecords /\ v.k = o.k /\ v.foreign = o.foreign /\ v.answer = o.answer
      BY DEF ThreadRecords
    <3>2. th' = [th EXCEPT ![t] = v] /\ o.pc = "start"
      BY <1>3, <2>2 DEF StartCat
    <3> HIDE DEF v
    <3> QED
      BY <2>1, <3>1, <3>2
  <2>3. CASE ReadBlock(t)
    <3>1. o.got + 1 \in Nat
      BY DEF ThreadRecords
    <3> DEFINE v == [o EXCEPT !.got = o.got + 1]
    <3>2. v \in ThreadRecords /\ v.k = o.k /\ v.foreign = o.foreign /\ v.answer = o.answer /\ v.pc = o.pc
      BY <3>1 DEF ThreadRecords
    <3>3. th' = [th EXCEPT ![t] = v] /\ o.pc = "reading"
      BY <1>3, <2>3 DEF ReadBlock
    <3> HIDE DEF v
    <3> QED
      BY <2>1, <3>2, <3>3
  <2>4. CASE CheckExit(t)
    <3> DEFINE a == IF cat.code = "ok" THEN "yes" ELSE "lost"
               v == [o EXCEPT !.pc = "done", !.answer = a]
    <3>1. a \in {"yes", "lost"} /\ (a = "yes" => o.got = Size)
      BY <1>3, <2>4 DEF CheckExit, Honest, Whole
    <3>2. th' = [th EXCEPT ![t] = v]
      BY <1>3, <2>4 DEF CheckExit
    <3> HIDE DEF a
    <3>3. v \in ThreadRecords /\ v.k = o.k /\ v.foreign = o.foreign /\ v.answer = a /\ v.pc = "done" /\ v.got = o.got
      BY <3>1 DEF ThreadRecords
    <3> HIDE DEF v
    <3> QED
      BY <3>1, <3>2, <3>3
  <2> QED
    BY <2>2, <2>3, <2>4
<1>7. PICK v \in ThreadRecords :
        /\ th' = [th EXCEPT ![t] = v] /\ v.k = o.k /\ v.foreign = o.foreign /\ (o.pc = "done" => v.pc = "done")
        /\ v.answer = "yes" => v.pc = "done" /\ v.got = Size
  BY <1>6
<1>8. th'[t] = v /\ \A u \in Threads : u # t => th'[u] = th[u]
  BY <1>2, <1>7
<1>9. ASSUME NEW u \in Threads
      PROVE  th'[u].k = th[u].k /\ (th[u].pc = "done" => th'[u].pc = "done") /\ Replied(u)'
  <2>1. CASE u = t
    BY <1>1, <1>2, <1>3, <1>4, <1>7, <1>8, <2>1 DEF Replied
  <2>2. CASE u # t
    BY <1>1, <1>2, <1>8, <2>2 DEF Replied
  <2> QED
    BY <2>1, <2>2
<1> QED
  BY <1>1, <1>5, <1>9, HonestCat

-----------------------------------------------------------------------------
(* The holder of the lock, once more.                                       *)

LEMMA HonestHolder ==
  ASSUME IInv, Honest, UNCHANGED <<job, world, cat>>, reader' \in {reader, Resting}, Exchange',
         \A s \in Sessions : Supported(shell[s]) => Supported(shell'[s]),
         \A t \in Threads : Replied(t)'
  PROVE  Honest'
<1>1. \A r, c : Supports(r, c)' = Supports(r, c)
  BY DEF Supports, Command, world
<1>2. \A s \in Sessions : Supported(shell'[s])
  BY DEF Honest, Truth
<1>3. \A s \in Sessions : Supported(shell[s])'
  BY <1>1, <1>2 DEF Supported
<1>4. reader'.run # NoRun => Supports(reader.run, reader.got)'
  BY RestingSays DEF Honest, Truth, Supports, Command, world
<1>5. Whole'
  BY DEF Honest, Whole
<1> QED
  BY <1>3, <1>4, <1>5 DEF Honest, Truth

\* While a call goes on, a run stays written.
LEMMA PastStays ==
  ASSUME UNCHANGED <<th, lock>>, call'.phase = call.phase,
         call'.step \in {"spawn", "write"} => call.step \in {"spawn", "write"},
         NEW r, Past(r)
  PROVE  Past(r)'
<1>1. ThisRun' = ThisRun
  BY DEF ThisRun
<1> QED
  BY <1>1 DEF Past

LEMMA RepliedStays ==
  ASSUME Honest, UNCHANGED <<job, world, th>>
  PROVE  \A t \in Threads : Replied(t)'
BY DEF Honest, Replied, world

\* What an answer does to its thread.
LEMMA AnsweredMore ==
  ASSUME Types, Calling, lock # Nobody, call.phase # "close",
         NEW a \in {"lost", "yes", "no"}, NEW f \in BOOLEAN, Answered(lock, a, f)
  PROVE  \E new \in ThreadRecords :
           /\ th' = [th EXCEPT ![lock] = new] /\ (~th[lock].foreign /\ ~f => ~new.foreign)
           /\ new.pc = "done" \/ (new.pc = "start" /\ new.k = th[lock].k + 1)
           /\ new.pc = "done" /\ new.answer \in {"yes", "no"} =>
                new.answer = a /\ (job[lock] = "rename" => th[lock].k = 3)
           /\ new.answer = "refused" => a = "yes" /\ job[lock] = "rename" /\ th[lock].k \in {1, 2}
<1> DEFINE t == lock
<1>1. PICK o \in ThreadRecords : o = th[t]
  BY HolderFacts
<1>2. t \in Threads /\ job[t] \in Operations /\ o.pc = "start" /\ (job[t] = "mkdir" => o.k = 1) /\ o.k \in {1, 2, 3}
      /\ o.lost \subseteq 1..2
  BY <1>1, HolderFacts DEF Types, Calling, Placed, ThreadRecords
<1> DEFINE me == [o EXCEPT !.answer = a, !.foreign = o.foreign \/ f]
           check == Program(job[t])[o.k] = "test"
<1>3. check = (job[t] = "rename" /\ o.k \in {1, 2})
  <2>1. CASE job[t] = "mkdir"
    <3>1. Program(job[t]) = <<"mkdir">>
      BY <2>1 DEF Program
    <3> QED
      BY <1>2, <2>1, <3>1
  <2>2. CASE job[t] = "rename"
    <3>1. Program(job[t]) = <<"test", "test", "mv">>
      BY <2>2 DEF Program
    <3>2. Program(job[t])[o.k] = IF o.k = 3 THEN "mv" ELSE "test"
      BY <1>2, <3>1
    <3> QED
      BY <1>2, <2>2, <3>2
  <2> QED
    BY <1>2, <2>1, <2>2 DEF Operations
<1>4. me \in ThreadRecords /\ me.k = o.k /\ me.lost = o.lost /\ me.pc = o.pc /\ me.answer = a
      /\ me.foreign = (o.foreign \/ f)
  BY DEF ThreadRecords
<1>5. th' = [th EXCEPT ![t] =
               CASE check /\ a # "yes" -> [me EXCEPT !.k = me.k + 1, !.lost = me.lost \cup IF a = "lost" THEN {me.k} ELSE {}]
                 [] check /\ a = "yes" -> [me EXCEPT !.pc = "done", !.answer = "refused"]
                 [] OTHER -> [me EXCEPT !.pc = "done"]]
  BY <1>1, <1>4 DEF Answered
<1> HIDE DEF me, check
<1>6. CASE check /\ a # "yes"
  <2> DEFINE l == IF a = "lost" THEN {me.k} ELSE {}
             new == [me EXCEPT !.k = me.k + 1, !.lost = me.lost \cup l]
  <2>1. me.k + 1 \in 1..3 /\ me.lost \cup l \subseteq 1..2
    <3>1. o.k \in {1, 2}
      BY <1>3, <1>6
    <3>2. l \subseteq {me.k}
      OBVIOUS
    <3> HIDE DEF l
    <3> QED
      BY <1>2, <1>4, <3>1, <3>2
  <2>2. th' = [th EXCEPT ![t] = new]
    BY <1>5, <1>6
  <2> HIDE DEF l
  <2>3. new \in ThreadRecords /\ new.k = me.k + 1 /\ new.pc = me.pc /\ new.foreign = me.foreign /\ new.answer = me.answer
    BY <1>4, <2>1 DEF ThreadRecords
  <2> HIDE DEF new
  <2> QED
    BY <1>1, <1>2, <1>4, <2>2, <2>3
<1>7. CASE check /\ a = "yes"
  <2> DEFINE new == [me EXCEPT !.pc = "done", !.answer = "refused"]
  <2>1. th' = [th EXCEPT ![t] = new]
    BY <1>5, <1>7
  <2>2. new \in ThreadRecords /\ new.pc = "done" /\ new.foreign = me.foreign /\ new.answer = "refused"
    BY <1>4 DEF ThreadRecords
  <2> HIDE DEF new
  <2> QED
    BY <1>1, <1>3, <1>4, <1>7, <2>1, <2>2
<1>8. CASE ~check
  <2> DEFINE new == [me EXCEPT !.pc = "done"]
  <2>1. th' = [th EXCEPT ![t] = new]
    BY <1>5, <1>8
  <2>2. new \in ThreadRecords /\ new.pc = "done" /\ new.foreign = me.foreign /\ new.answer = a
    BY <1>4 DEF ThreadRecords
  <2> HIDE DEF new
  <2> QED
    BY <1>1, <1>2, <1>3, <1>4, <1>8, <2>1, <2>2
<1> QED
  BY <1>6, <1>7, <1>8

\* A call that ends overtakes all its runs; its answer is true if what it rests on is.
LEMMA AnsweredHonest ==
  ASSUME IInv, Honest, UNCHANGED <<job, world, cat>>, lock # Nobody, call.phase # "close",
         NEW a \in {"lost", "yes", "no"}, Answered(lock, a, FALSE),
         a # "lost" => call.phase \in Tries /\ Supports(ThisRun, a),
         reader' \in {reader, Resting},
         \A s \in Sessions : /\ ~shell'[s].up => shell'[s].stdin = <<>>
                             /\ Supported(shell[s]) => Supported(shell'[s]),
         proc' # NoSession => shell'[proc'].source /\ Empty(shell'[proc'])
  PROVE  Honest'
<1>1. Types /\ Calling /\ lock \in Threads /\ lock' = Nobody /\ call' = NoCall
      /\ UNCHANGED <<dir, source, target>> /\ reader \in Readers
  BY HolderFacts DEF IInv, Answered, world, Types
<1>2. PICK new \in ThreadRecords :
        /\ th' = [th EXCEPT ![lock] = new] /\ ~new.foreign
        /\ new.pc = "done" \/ (new.pc = "start" /\ new.k = th[lock].k + 1)
        /\ new.pc = "done" /\ new.answer \in {"yes", "no"} =>
             new.answer = a /\ (job[lock] = "rename" => th[lock].k = 3)
        /\ new.answer = "refused" => a = "yes" /\ job[lock] = "rename" /\ th[lock].k \in {1, 2}
  <2>1. ~th[lock].foreign
    BY <1>1 DEF Honest, Replied
  <2>2. PICK new \in ThreadRecords :
          /\ th' = [th EXCEPT ![lock] = new] /\ (~th[lock].foreign /\ ~FALSE => ~new.foreign)
          /\ new.pc = "done" \/ (new.pc = "start" /\ new.k = th[lock].k + 1)
          /\ new.pc = "done" /\ new.answer \in {"yes", "no"} =>
               new.answer = a /\ (job[lock] = "rename" => th[lock].k = 3)
          /\ new.answer = "refused" => a = "yes" /\ job[lock] = "rename" /\ th[lock].k \in {1, 2}
    BY <1>1, AnsweredMore
  <2> QED
    BY <2>1, <2>2
<1>3. th'[lock] = new /\ \A u \in Threads : u # lock => th'[u] = th[u]
  BY <1>1, <1>2 DEF Types
<1>4. a # "lost" => /\ job[lock] = "mkdir" => dir
                    /\ job[lock] = "rename" /\ th[lock].k \in {1, 2} /\ a = "yes" => target # "none"
                    /\ job[lock] = "rename" /\ th[lock].k = 3 /\ a = "yes" =>
                         ~source /\ target \in {"moved", "replaced"}
  <2> SUFFICES ASSUME a # "lost"
               PROVE  /\ job[lock] = "mkdir" => Command(ThisRun) = "mkdir"
                      /\ job[lock] = "rename" /\ th[lock].k \in {1, 2} => Command(ThisRun) = "test"
                      /\ job[lock] = "rename" /\ th[lock].k = 3 => Command(ThisRun) = "mv"
    BY DEF Supports
  <2>1. ThisRun.who = lock /\ ThisRun.k = th[lock].k /\ ThisRun.phase = call.phase
    BY DEF ThisRun
  <2>2. Command(ThisRun) = Program(job[lock])[th[lock].k]
    BY <2>1 DEF Command, Tries
  <2>3. job[lock] = "mkdir" => th[lock].k = 1 /\ Program(job[lock]) = <<"mkdir">>
    BY <1>1 DEF Types, Placed, Program
  <2>4. job[lock] = "rename" => Program(job[lock]) = <<"test", "test", "mv">>
    BY DEF Program
  <2> QED
    BY <2>2, <2>3, <2>4
<1>5. ASSUME NEW t \in Threads PROVE Replied(t)'
  <2>1. CASE t # lock
    BY <1>1, <1>3, <2>1 DEF Honest, Replied
  <2>2. CASE t = lock
    <3>1. job[lock] \in Operations /\ ~th[lock].foreign
      BY <1>1, HolderFacts DEF Honest, Replied
    <3> QED
      BY <1>1, <1>2, <1>3, <1>4, <2>2, <3>1 DEF Replied, Operations
  <2> QED
    BY <2>1, <2>2
<1>6. reader'.run # NoRun => Past(reader.run)'
  <2> SUFFICES ASSUME reader'.run # NoRun PROVE Past(reader.run)'
    OBVIOUS
  <2>1. reader' = reader /\ reader.run \in Begun /\ reader.run # NoRun
    BY <1>1, RestingSays, ReaderFields
  <2>2. PICK r \in Begun : r = reader.run
    BY <2>1
  <2>3. Past(r) /\ r \in Runs /\ r.who \in Threads /\ r.k <= th[r.who].k /\ r.k \in Nat
    BY <2>1, <2>2, RunFacts DEF Honest, Exchange, Begun, Runs
  <2>4. th[lock].k \in Nat
    BY <1>1, HolderFacts DEF ThreadRecords
  <2>5. r.k < th'[r.who].k \/ th'[r.who].pc = "done"
    <3>1. CASE r.who = lock
      BY <1>2, <1>3, <2>3, <2>4, <3>1
    <3>2. CASE r.who # lock
      BY <1>3, <2>3, <3>2 DEF Past
    <3> QED
      BY <3>1, <3>2
  <2> QED
    BY <2>1, <2>2, <2>5 DEF Past
<1>7. call'.step = "none"
  BY <1>1 DEF NoCall
<1>8. Exchange'
  BY <1>6, <1>7 DEF Exchange
<1> QED
  BY <1>5, <1>8, HonestHolder

\* A step of the holder that changes nothing but where it is, and closes the session.
LEMMA GoesOnHonest ==
  ASSUME IInv, IInv', Honest, HolderOnly, UNCHANGED proc, reader' \in {reader, Resting},
         NEW step \in {"wait", "failed", "sink", "source", "destroy"}, Goto(step), call.step # "none",
         \A s \in Sessions : /\ ~shell'[s].up => shell'[s].stdin = <<>>
                             /\ Supported(shell[s]) => Supported(shell'[s]),
         proc # NoSession /\ step # "destroy" => shell'[proc].source,
         step = "failed" => proc # NoSession /\ (call.phase \in CleansUp \/ Empty(shell'[proc])),
         step = "wait" => call.step = "write" /\ Holds(shell'[proc], ThisRun)
  PROVE  Honest'
<1>1. call \in CallRecords
  BY DEF IInv, Types
<1>2. call'.step = step /\ call'.phase = call.phase /\ UNCHANGED <<th, lock>>
  BY <1>1, GotoFacts DEF HolderOnly
<1>3. ThisRun' = ThisRun
  BY <1>2 DEF ThisRun
<1>4. reader'.run # NoRun => Past(reader.run)'
  <2> SUFFICES ASSUME reader'.run # NoRun PROVE Past(reader.run)'
    OBVIOUS
  <2>1. reader' = reader /\ Past(reader.run)
    BY RestingSays DEF Honest, Exchange
  <2>2. PICK r : r = reader.run
    OBVIOUS
  <2>3. Past(r)'
    BY <1>2, <2>1, <2>2, PastStays
  <2> QED
    BY <2>1, <2>2, <2>3 DEF Past
<1>5. step = "wait" => reader'.run # ThisRun
  <2> SUFFICES ASSUME step = "wait", reader'.run = ThisRun PROVE FALSE
    OBVIOUS
  <2>1. lock \in Threads /\ ThisRun # NoRun
    <3>1. lock \in Threads /\ lock # Nobody
      BY HoldingFacts DEF IInv
    <3> QED
      BY <3>1 DEF ThisRun, NoRun
  <2>2. Past(ThisRun)
    BY <2>1, RestingSays DEF Honest, Exchange
  <2>3. ThisRun.who = lock /\ ThisRun.k = th[lock].k /\ ThisRun.phase = call.phase
    BY DEF ThisRun
  <2>4. th[lock].pc = "start" /\ th[lock].k \in 1..3
    BY <2>1 DEF IInv, Types, Calling, ThreadRecords
  <2>5. Rank(call.phase) \in Nat
    BY DEF Rank
  <2> QED
    BY <2>2, <2>3, <2>4, <2>5 DEF Past
<1>6. Exchange'
  BY <1>2, <1>3, <1>4, <1>5 DEF Exchange
<1> QED
  BY <1>6, HonestHolder, RepliedStays DEF HolderOnly

LEMMA EnterHonest == ASSUME IInv, Honest, NEW t \in Threads, Enter(t) PROVE Honest'
<1>1. /\ lock = Nobody /\ lock' = t /\ UNCHANGED <<job, th, proc, pool, reader, shell, world, cat>>
      /\ call' = CASE job[t] = "close" -> [step |-> "sink", phase |-> "close"]
                   [] job[t] # "close" /\ Alive -> [step |-> "write", phase |-> "try1"]
                   [] OTHER -> [step |-> "spawn", phase |-> "id1"]
  BY DEF Enter
<1>2. call.step = "none" /\ call'.step \in {"sink", "write", "spawn"}
  BY <1>1 DEF IInv, Calling, NoCall
<1>3. reader'.run # NoRun => Past(reader.run)'
  <2> SUFFICES ASSUME reader.run # NoRun PROVE Past(reader.run)'
    BY <1>1
  <2>1. reader.run.who # lock
    BY <1>1, ReaderFields, RunFacts DEF IInv, Types
  <2> QED
    BY <1>1, <2>1 DEF Past, Honest, Exchange
<1>4. Exchange'
  BY <1>1, <1>2, <1>3 DEF Honest, Exchange
<1> QED
  BY <1>1, <1>4, HonestHolder, RepliedStays

LEMMA SpawnHonest == ASSUME IInv, Honest, Spawn PROVE Honest'
<1>1. call.step = "spawn" /\ UNCHANGED <<job, pool, reader, world, cat>>
  BY DEF Spawn
<1>2. /\ Types /\ Calling /\ lock # Nobody /\ lock \in Threads /\ call \in CallRecords
      /\ proc = NoSession /\ call.phase \in Probes /\ call.phase # "close"
  BY <1>1, HoldingFacts DEF IInv, Calling, Probes
<1>3. ASSUME NEW s \in Sessions, Shell(s, Started), proc' = s, Goto("write"), UNCHANGED <<th, lock>>
      PROVE  Honest'
  <2>1. Started.stdin = <<>> /\ Started.run = NoRun /\ Started.out = <<>> /\ Started.source = TRUE /\ Started.up = TRUE
    BY DEF Started, NotStarted
  <2>2. shell'[s] = Started /\ \A n \in Sessions : n # s => shell'[n] = shell[n]
    BY <1>2, <1>3 DEF Shell, Types
  <2>3. call'.step = "write" /\ call'.phase = call.phase
    BY <1>2, <1>3, GotoFacts
  <2>4. reader'.run # NoRun => Past(reader.run)'
    <3>1. PICK r : r = reader.run
      OBVIOUS
    <3>2. r # NoRun => Past(r)'
      BY <1>1, <1>3, <2>3, <3>1, PastStays DEF Honest, Exchange
    <3> QED
      BY <1>1, <3>1, <3>2 DEF Past
  <2>5. Exchange'
    BY <1>3, <2>1, <2>2, <2>3, <2>4 DEF Honest, Exchange, Empty
  <2>6. Supported(Started)
    BY <2>1 DEF Supported
  <2>7. \A n \in Sessions : Supported(shell[n]) => Supported(shell'[n])
    BY <2>2, <2>6
  <2> QED
    BY <1>1, <1>3, <2>5, <2>7, HonestHolder, RepliedStays
<1>4. ASSUME UNCHANGED <<shell, proc>>, Answered(lock, "lost", FALSE)
      PROVE  Honest'
  BY <1>1, <1>2, <1>4, AnsweredHonest DEF Honest, Exchange
<1> QED
  BY <1>3, <1>4 DEF Spawn

LEMMA WriteHonest == ASSUME IInv, IInv', Honest, Write PROVE Honest'
<1>1. call.step = "write" /\ HolderOnly /\ UNCHANGED <<proc, pool, reader>>
  BY DEF Write
<1>2. /\ proc \in Sessions /\ proc # NoSession /\ lock # Nobody /\ shell \in [Sessions -> Shells]
      /\ call.phase # "close" /\ call.phase # "none"
      /\ pool \/ call.phase = "id1"
  BY <1>1, HoldingFacts, RunFacts DEF IInv, Calling, Types
<1>3. PICK o \in Shells : o = shell[proc]
  BY <1>2
<1>4. Empty(o) /\ o.source
  BY <1>1, <1>2, <1>3 DEF Honest, Exchange
<1>5. \A s \in Sessions : ~shell[s].up => shell[s].stdin = <<>>
  BY DEF Honest, Exchange
<1>6. CASE ~shell[proc].up
  <2>1. UNCHANGED shell /\ Goto("failed")
    BY <1>6 DEF Write
  <2> QED
    BY <1>1, <1>2, <1>3, <1>4, <1>5, <2>1, GoesOnHonest
<1>7. CASE shell[proc].up
  <2>1. PICK w : w = ThisRun
    OBVIOUS
  <2> DEFINE r == [o EXCEPT !.stdin = Append(o.stdin, w)]
  <2>2. o \in ShellRecords
    BY ShellFields
  <2>3. /\ r.stdin = Append(o.stdin, w) /\ r.out = o.out /\ r.run = o.run /\ r.code = o.code
        /\ r.up = o.up /\ r.source = o.source
    BY <2>2 DEF ShellRecords
  <2>4. shell' = [shell EXCEPT ![proc] = r] /\ Goto(IF pool THEN "wait" ELSE "failed")
    BY <1>3, <1>7, <2>1 DEF Write, Shell
  <2> HIDE DEF r
  <2>5. shell'[proc] = r /\ \A s \in Sessions : s # proc => shell'[s] = shell[s]
    BY <1>2, <2>4
  <2>6. r.stdin = <<w>> /\ r.run = NoRun /\ r.out = <<>> /\ r.source /\ r.up /\ Supported(r)
    BY <1>3, <1>4, <1>7, <2>3 DEF Empty, Supported
  <2>7. \A s \in Sessions : /\ ~shell'[s].up => shell'[s].stdin = <<>>
                            /\ Supported(shell[s]) => Supported(shell'[s])
    BY <1>5, <2>5, <2>6
  <2>8. Holds(shell'[proc], ThisRun) /\ shell'[proc].source
    BY <2>1, <2>5, <2>6 DEF Holds
  <2>9. CASE pool
    <3>1. Goto("wait")
      BY <2>4, <2>9
    <3> QED
      BY <1>1, <1>2, <2>7, <2>8, <3>1, GoesOnHonest
  <2>10. CASE ~pool
    <3>1. Goto("failed") /\ call.phase \in CleansUp
      BY <1>2, <2>4, <2>10 DEF CleansUp
    <3> QED
      BY <1>1, <1>2, <2>7, <2>8, <3>1, GoesOnHonest
  <2> QED
    BY <2>9, <2>10
<1> QED
  BY <1>6, <1>7

LEMMA TimesOutHonest == ASSUME IInv, IInv', Honest, TimesOut PROVE Honest'
<1>1. call.step = "wait" /\ HolderOnly /\ UNCHANGED <<proc, pool, reader, shell>> /\ Goto("sink")
  BY DEF TimesOut
<1> QED
  BY <1>1, GoesOnHonest DEF Honest, Exchange

LEMMA JudgeHonest == ASSUME IInv, IInv', Honest, Judge PROVE Honest'
<1>1. /\ call.step = "wait" /\ reader.run = ThisRun /\ reader.got # "none" /\ reader' = Resting
      /\ UNCHANGED <<job, proc, pool, shell, world, cat>>
  BY DEF Judge
<1>2. /\ Types /\ Calling /\ lock # Nobody /\ lock \in Threads /\ call \in CallRecords
      /\ proc # NoSession /\ call.phase # "close" /\ call.phase \in Phases
  BY <1>1, HoldingFacts DEF IInv, Calling, CallRecords
<1>3. /\ Empty(shell[proc]) /\ shell[proc].source /\ ~reader.foreign
      /\ \A s \in Sessions : ~shell[s].up => shell[s].stdin = <<>>
  BY <1>1, <1>2 DEF Honest, Exchange
<1>4. ThisRun # NoRun
  BY <1>2 DEF ThisRun, NoRun
<1>5. Supports(ThisRun, reader.got)
  BY <1>1, <1>4 DEF Honest, Truth
<1>6. CASE call.phase \in Tries /\ reader.got # "closed"
  <2>1. reader.got \in {"yes", "no"}
    BY <1>1, <1>2, <1>6 DEF Types, Readers, ReaderRecords, Codes
  <2>2. reader.foreign = FALSE
    BY <1>2, <1>3, ReaderFields DEF Types
  <2>3. Answered(lock, reader.got, FALSE)
    BY <1>6, <2>2 DEF Judge, Tries
  <2> QED
    BY <1>1, <1>2, <1>3, <1>5, <1>6, <2>1, <2>3, AnsweredHonest
<1>7. CASE ~(call.phase \in Tries /\ reader.got # "closed")
  <2>1. UNCHANGED <<th, lock>>
    BY <1>7 DEF Judge, Tries
  <2>2. CASE Goto("sink") \/ Goto("failed")
    BY <1>1, <1>2, <1>3, <2>1, <2>2, GoesOnHonest DEF HolderOnly
  <2>3. CASE call' = [step |-> "write", phase |-> IF call.phase = "id1" THEN "try1" ELSE "try2"]
    <3>1. call'.step = "write"
      BY <2>3
    <3>2. reader'.run = NoRun
      BY <1>1, RestingSays
    <3>3. Exchange'
      BY <1>1, <1>3, <3>1, <3>2 DEF Exchange
    <3> QED
      BY <1>1, <2>1, <3>3, HonestHolder, RepliedStays
  <2> QED
    BY <1>7, <2>2, <2>3 DEF Judge, Tries
<1> QED
  BY <1>6, <1>7

LEMMA FailedHonest == ASSUME IInv, IInv', Honest, Failed PROVE Honest'
<1>1. call.step = "failed" /\ UNCHANGED <<job, proc, pool, reader, shell, world, cat>>
  BY DEF Failed
<1>2. lock # Nobody /\ call.phase # "close" /\ call.phase # "none"
  BY <1>1, HoldingFacts DEF IInv, Calling
<1>3. /\ proc # NoSession /\ shell[proc].source /\ (call.phase \in CleansUp \/ Empty(shell[proc]))
      /\ \A s \in Sessions : ~shell[s].up => shell[s].stdin = <<>>
  BY <1>1 DEF Honest, Exchange
<1>4. CASE call.phase \in CleansUp
  <2>1. Goto("sink") /\ UNCHANGED <<th, lock>>
    BY <1>4 DEF Failed
  <2> QED
    BY <1>1, <1>3, <2>1, GoesOnHonest DEF HolderOnly
<1>5. CASE call.phase \notin CleansUp
  <2>1. Answered(lock, "lost", FALSE)
    BY <1>5 DEF Failed
  <2> QED
    BY <1>1, <1>2, <1>3, <1>5, <2>1, AnsweredHonest
<1> QED
  BY <1>4, <1>5

LEMMA CloseSinkHonest == ASSUME IInv, IInv', Honest, CloseSink PROVE Honest'
<1>1. call.step = "sink" /\ HolderOnly /\ UNCHANGED <<proc, pool, reader>> /\ Goto("source")
      /\ shell' = IF proc = NoSession THEN shell ELSE [shell EXCEPT ![proc].sink = FALSE]
  BY DEF CloseSink
<1>2. shell \in [Sessions -> Shells] /\ proc \in Sessions \cup {NoSession}
  BY DEF IInv, Types
<1>3. ASSUME NEW s \in Sessions
      PROVE  /\ shell'[s].up = shell[s].up /\ shell'[s].stdin = shell[s].stdin /\ shell'[s].source = shell[s].source
             /\ shell'[s].run = shell[s].run /\ shell'[s].code = shell[s].code /\ shell'[s].out = shell[s].out
  <2>1. shell'[s] = shell[s] \/ shell'[s] = [shell[s] EXCEPT !.sink = FALSE]
    BY <1>1, <1>2
  <2>2. shell[s] \in ShellRecords
    BY <1>2, ShellFields
  <2> QED
    BY <2>1, <2>2 DEF ShellRecords
<1>4. /\ \A s \in Sessions : /\ ~shell'[s].up => shell'[s].stdin = <<>>
                             /\ Supported(shell[s]) => Supported(shell'[s])
      /\ proc # NoSession => shell'[proc].source
  BY <1>1, <1>2, <1>3 DEF Honest, Exchange, Supported
<1> QED
  BY <1>1, <1>4, GoesOnHonest

LEMMA CloseSourceHonest == ASSUME IInv, IInv', Honest, CloseSource PROVE Honest'
<1>1. call.step = "source" /\ HolderOnly /\ UNCHANGED <<proc, pool, reader>> /\ Goto("destroy")
      /\ shell' = IF proc = NoSession THEN shell ELSE [shell EXCEPT ![proc].source = FALSE, ![proc].out = <<>>]
  BY DEF CloseSource
<1>2. shell \in [Sessions -> Shells] /\ proc \in Sessions \cup {NoSession}
  BY DEF IInv, Types
<1>3. ASSUME NEW s \in Sessions
      PROVE  /\ shell'[s].up = shell[s].up /\ shell'[s].stdin = shell[s].stdin
             /\ shell'[s].run = shell[s].run /\ shell'[s].code = shell[s].code
             /\ shell'[s].out = shell[s].out \/ shell'[s].out = <<>>
  <2>1. shell[s] \in ShellRecords
    BY <1>2, ShellFields
  <2>2. shell'[s] = shell[s] \/ shell'[s] = [shell[s] EXCEPT !.source = FALSE, !.out = <<>>]
    BY <1>1, <1>2, <2>1 DEF ShellRecords
  <2> QED
    BY <2>1, <2>2 DEF ShellRecords
<1>4. \A s \in Sessions : /\ ~shell'[s].up => shell'[s].stdin = <<>>
                          /\ Supported(shell[s]) => Supported(shell'[s])
  BY <1>3 DEF Honest, Exchange, Supported
<1> QED
  BY <1>1, <1>4, GoesOnHonest

LEMMA DestroyHonest == ASSUME IInv, Honest, Destroy PROVE Honest'
<1>1. call.step = "destroy" /\ UNCHANGED <<job, reader, world, cat>> /\ proc' = NoSession
  BY DEF Destroy
<1>2. /\ Types /\ Calling /\ lock # Nobody /\ lock \in Threads /\ call.phase # "none"
      /\ shell \in [Sessions -> Shells] /\ proc \in Sessions \cup {NoSession}
      /\ th \in [Threads -> ThreadRecords]
  BY <1>1, HoldingFacts DEF IInv, Calling, Types
<1>3. ASSUME NEW s \in Sessions
      PROVE  /\ ~shell'[s].up => shell'[s].stdin = <<>>
             /\ Supported(shell[s]) => Supported(shell'[s])
  <2>1. CASE shell'[s] = shell[s]
    BY <2>1 DEF Honest, Exchange
  <2>2. CASE shell'[s] # shell[s]
    <3>1. PICK r \in Killed(shell[proc]) : shell' = [shell EXCEPT ![proc] = r]
      BY <2>2 DEF Destroy, Shell
    <3>2. s = proc /\ shell'[s] = r /\ r \in Killed(shell[s])
      BY <1>2, <2>2, <3>1
    <3>3. PICK o \in Shells : o = shell[s]
      BY <1>2
    <3> DEFINE alone == [o EXCEPT !.up = FALSE, !.stdin = <<>>]
               quiet == [alone EXCEPT !.run = NoRun, !.stage = "none", !.code = "none"]
    <3>4. r \in {alone, quiet}
      BY <2>2, <3>2, <3>3 DEF Killed
    <3>5. o \in ShellRecords /\ <<>> \in Seq(Runs)
      BY ShellFields
    <3>6. alone \in ShellRecords /\ alone.stdin = <<>> /\ alone.run = o.run /\ alone.code = o.code /\ alone.out = o.out
      BY <3>5 DEF ShellRecords
    <3> HIDE DEF alone
    <3>7. quiet.stdin = <<>> /\ quiet.run = NoRun /\ quiet.out = o.out
      BY <3>6 DEF ShellRecords
    <3> HIDE DEF quiet
    <3> QED
      BY <3>2, <3>3, <3>4, <3>6, <3>7 DEF Supported
  <2> QED
    BY <2>1, <2>2
<1>4. CASE call.phase = "close"
  <2>1. lock' = Nobody /\ call' = NoCall /\ th' = [th EXCEPT ![lock].pc = "done"] /\ job[lock] = "close"
    BY <1>2, <1>4 DEF Destroy, Calling
  <2>2. PICK o \in ThreadRecords : o = th[lock]
    BY <1>2
  <2> DEFINE v == [o EXCEPT !.pc = "done"]
  <2>3. v.k = o.k /\ v.foreign = o.foreign /\ v.pc = "done"
    BY DEF ThreadRecords
  <2>4. th' = [th EXCEPT ![lock] = v]
    BY <2>1, <2>2
  <2> HIDE DEF v
  <2>5. th'[lock] = v /\ \A u \in Threads : u # lock => th'[u] = th[u]
    BY <1>2, <2>4
  <2>6. \A t \in Threads : Replied(t)'
    BY <1>1, <2>1, <2>2, <2>3, <2>5 DEF Honest, Replied, world
  <2>7. reader'.run # NoRun => Past(reader.run)'
    <3> SUFFICES ASSUME reader.run # NoRun PROVE Past(reader.run)'
      BY <1>1
    <3>1. reader.run \in Begun /\ Past(reader.run)
      BY <1>2, ReaderFields DEF Types, Honest, Exchange
    <3>2. reader.run.who \in Threads /\ reader.run.who # lock
      BY <2>1, <3>1, RunFacts DEF Operations
    <3> QED
      BY <1>1, <2>5, <3>1, <3>2 DEF Past
  <2>8. call'.step = "none"
    BY <2>1 DEF NoCall
  <2>9. Exchange'
    BY <1>1, <1>3, <2>7, <2>8 DEF Honest, Exchange
  <2> QED
    BY <1>1, <1>3, <2>6, <2>9, HonestHolder
<1>5. CASE call.phase = "try1"
  <2>1. call' = [step |-> "spawn", phase |-> "id2"] /\ UNCHANGED <<pool, lock, th>>
    BY <1>5 DEF Destroy
  <2>2. call'.step = "spawn" /\ call'.phase = "id2"
    BY <2>1
  <2>3. reader'.run # NoRun => Past(reader.run)'
    <3> SUFFICES ASSUME reader.run # NoRun PROVE Past(reader.run)'
      BY <1>1
    <3>1. Past(reader.run)
      BY DEF Honest, Exchange
    <3>2. reader.run = ThisRun => reader.run.who = lock /\ reader.run.k = th[lock].k /\ reader.run.phase = "try1"
      BY <1>5 DEF ThisRun
    <3>3. \A p : Rank(p) \in {1, 2, 3, 4}
      BY DEF Rank
    <3>4. Rank("try1") = 2 /\ Rank("id2") = 3
      BY DEF Rank
    <3>5. Rank(reader.run.phase) < Rank("try1") \/ reader.run = ThisRun => Rank(reader.run.phase) < Rank("id2")
      BY <3>2, <3>3, <3>4
    <3> QED
      BY <1>1, <1>5, <2>1, <2>2, <3>1, <3>2, <3>5 DEF Past
  <2>4. Exchange'
    BY <1>1, <1>3, <2>2, <2>3 DEF Exchange
  <2> QED
    BY <1>1, <1>3, <2>1, <2>4, HonestHolder, RepliedStays
<1>6. CASE call.phase \notin {"close", "try1"}
  <2>1. Answered(lock, "lost", FALSE)
    BY <1>6 DEF Destroy
  <2> QED
    BY <1>1, <1>2, <1>3, <1>6, <2>1, AnsweredHonest
<1> QED
  BY <1>4, <1>5, <1>6

-----------------------------------------------------------------------------
(* The answers of the shell are true.                                       *)

LEMMA InitHonest == Init => Honest
<1> SUFFICES ASSUME Init PROVE Honest
  OBVIOUS
<1>1. NotStarted.stdin = <<>> /\ NotStarted.run = NoRun /\ NotStarted.out = <<>>
  BY DEF NotStarted
<1>2. \A s \in Sessions : shell[s] = NotStarted
  BY DEF Init
<1>3. reader.run = NoRun /\ call.step = "none" /\ proc = NoSession
  BY RestingSays DEF Init, NoCall
<1>4. Exchange
  BY <1>1, <1>2, <1>3 DEF Exchange
<1>5. Truth
  BY <1>1, <1>2, <1>3 DEF Truth, Supported
<1>6. Whole
  BY DEF Init, Whole
<1>7. \A t \in Threads : Replied(t)
  BY DEF Init, Replied
<1> QED
  BY <1>4, <1>5, <1>6, <1>7 DEF Honest

LEMMA HonestStep == ASSUME IInv, IInv', Honest, [Next]_vars PROVE Honest'
<1>1. CASE HolderStep
  BY <1>1, SpawnHonest, WriteHonest, JudgeHonest, FailedHonest, CloseSinkHonest, CloseSourceHonest, DestroyHonest DEF HolderStep
<1>2. CASE TimesOut
  BY <1>2, TimesOutHonest
<1>3. CASE ReaderStep
  BY <1>3, TakeTaskHonest, EnterReadLineHonest, ReadLineHonest DEF ReaderStep
<1>4. CASE CatWrites \/ CatEnds
  BY <1>4, CatStepsHonest
<1>5. ASSUME NEW t \in Threads, ThreadStep(t) PROVE Honest'
  BY <1>5, EnterHonest, ReadStepsHonest DEF ThreadStep
<1>6. ASSUME NEW s \in Sessions, ShellStep(s) \/ Dies(s) \/ Drain(s) PROVE Honest'
  BY <1>6, BeginsHonest, TakesEffectHonest, PrintsHonest, StopsHonest DEF ShellStep
<1>7. CASE Appears
  <2>1. UNCHANGED <<job, th, lock, call, proc, pool, reader, shell, dir, source, cat>>
        /\ target = "none" /\ target' \in {"there", "hidden"}
    BY <1>7 DEF Appears
  <2>2. Exchange' = Exchange /\ Whole' = Whole
    BY <2>1 DEF Exchange, Past, ThisRun, Whole
  <2>3. Grows
    BY <2>1 DEF Grows
  <2>4. Truth'
    <3>1. \A x, c : Supports(x, c) => Supports(x, c)'
      BY <2>1, <2>3, SupportsGrow
    <3>2. \A s \in Sessions : Supported(shell[s])'
      BY <2>1, <3>1 DEF Honest, Truth, Supported
    <3> QED
      BY <2>1, <3>1, <3>2 DEF Honest, Truth
  <2>5. \A t \in Threads : Replied(t)'
    BY <2>1, <2>3, RepliedGrow DEF Honest
  <2> QED
    BY <2>2, <2>4, <2>5 DEF Honest
<1>8. CASE UNCHANGED vars
  <2>1. UNCHANGED <<job, th, lock, call, proc, pool, reader, shell, dir, source, target, cat>>
    BY <1>8 DEF vars, world
  <2>2. Exchange' = Exchange
    BY <2>1 DEF Exchange, Past, ThisRun
  <2>3. Truth' = Truth
    BY <2>1 DEF Truth, Supported, Supports, Command
  <2>4. Whole' = Whole /\ \A t \in Threads : Replied(t)' = Replied(t)
    BY <2>1 DEF Whole, Replied
  <2> QED
    BY <2>2, <2>3, <2>4 DEF Honest
<1> QED
  BY <1>1, <1>2, <1>3, <1>4, <1>5, <1>6, <1>7, <1>8 DEF Next

\* Nobody gets the output of another command, however calls time out and shells die;
\* what an operation reports is so; and a file read to its end was read whole
\* (PrivilegedShell.run and exec, PrivilegedFs.mkdir, rename and openInput).
THEOREM AnswersAreTrue == Spec => []AnswerIsTrue
<1>1. Honest => AnswerIsTrue
  BY DEF Honest, Replied, AnswerIsTrue, OwnAnswer, EofIsWhole, Doing
<1>2. Init => Honest
  BY InitHonest
<1>3. IInv /\ IInv' /\ Honest /\ [Next]_vars => Honest'
  BY HonestStep
<1>4. Spec => []IInv
  BY Invariant
<1> QED
  BY <1>1, <1>2, <1>3, <1>4, PTL DEF Spec

=============================================================================
