------------------------------- MODULE SmbPdu -------------------------------
(***************************************************************************)
(* One libsmb2 context as samba_jni.cpp drives it: synchronous calls, one  *)
(* at a time, over the library's asynchronous engine.  A call allocates    *)
(* its callback data, queues requests (PDUs) and services the socket until *)
(* its callback has run or the socket fails; a failed call leaves requests *)
(* behind in the context's queues, and smb2_destroy_context() calls their  *)
(* callbacks later, when the caller is long gone.  The model is about who  *)
(* owns a PDU and its callback data in every one of those orders, about    *)
(* the credits that let a chain of requests be sent, and about what a      *)
(* compound request reports.                                               *)
(*                                                                         *)
(* Sources (src/fs-smb/src/main/cpp/): libsmb2/lib/socket.c, pdu.c,        *)
(* sync.c, init.c, libsmb2.c and samba_jni.cpp.  The server obeys the      *)
(* protocol: it answers the members of a chain in order and once, after at *)
(* most one interim (STATUS_PENDING) reply.  The connection can be cut and *)
(* poll() can fail at any moment; pdu timeouts are off (samba_jni.cpp      *)
(* never sets them).                                                       *)
(***************************************************************************)
EXTENDS Naturals, Sequences, FiniteSets, SequencesExt

CONSTANTS
  MaxCalls,     \* bound: calls made on the context, the connect included
  Kinds,        \* what the calls after the connect may be
  Width,        \* members of a compound request (rename: create, set info, close)
  MaxCharge,    \* bound: the credits the largest read wants
  Window        \* credits the server grants with the negotiate reply

ASSUME SmbPduAssumption ==
  /\ MaxCalls \in Nat \ {0} /\ Width \in Nat \ {0, 1} /\ MaxCharge \in Nat \ {0}
  /\ Window \in Nat /\ Window >= Width
  /\ Kinds \subseteq {"open", "list", "data", "change", "close"}

VARIABLES
  mode,      \* the io thread: "idle", "wait" (wait_for_reply), "destroy" or "gone"
  now,       \* the call in progress, or the last one made
  kind,      \* [call -> what it is]
  charge,    \* [call -> credit charge of each of its PDUs]
  call,      \* [call -> its callback data and its operation data, see NewCall]
  outqueue,  \* smb2->outqueue: the chains not yet sent
  waitqueue, \* smb2->waitqueue: the PDUs sent and not answered
  pdu,       \* smb2->pdu: the PDU whose reply is being read, and that reply's status
  life,      \* [PDU -> "none", "live" or "freed"]
  credits,   \* smb2->credits
  line,      \* the connection: "up" or "cut"
  strays,    \* PDUs that were sent, freed by their caller and not answered
  eased,     \* PDUs whose interim reply brought the credits already
  answered,  \* history: [call -> how many of its PDUs the server answered with success]
  stale      \* history: the freed objects the library has used

vars == << mode, now, kind, charge, call, outqueue, waitqueue, pdu, life, credits,
           line, strays, eased, answered, stale >>

Calls == 1 .. MaxCalls
Disconnect == MaxCalls + 1     \* the call nativeDisconnect makes before it destroys
AllCalls == Calls \cup {Disconnect}
NoPdu == << >>

-----------------------------------------------------------------------------
(* Calls and their PDUs.  <<c, r, k>> is member k of the chain call c sends *)
(* in its round r; the callback of one round queues the next round.         *)

\* connect: negotiate, session setup (twice), tree connect; list: create,
\* query directory, close; disconnect: tree disconnect, logoff.
Rounds(c) == CASE kind[c] = "connect" -> 4 [] kind[c] = "list" -> 3
               [] kind[c] = "disconnect" -> 2 [] OTHER -> 1

Members(c) == IF kind[c] = "change" THEN Width ELSE 1

Chain(c, r) == [k \in 1 .. Members(c) |-> << c, r, k >>]

PDUs == AllCalls \X (1 .. 4) \X (1 .. Width)

\* The negotiate request is free of charge (smb2_allocate_pdu).
Charge(p) == IF kind[p[1]] = "connect" /\ p[2] = 1 THEN 0 ELSE charge[p[1]]

\* smb2_get_credit_charge: what the whole chain costs.
ChainCharge(ch) == IF ch = << >> THEN 0 ELSE Len(ch) * Charge(ch[1])

\* smb2_open and smb2_opendir keep their first PDU and free it themselves.
CallerFrees(p) == kind[p[1]] \in {"open", "list"} /\ p[2] = 1

\* The callback data of connect and disconnect is a field of the context.
NewCall(k) == [status |-> "ok", done |-> k = "disconnect", gave |-> FALSE,
               result |-> "none", op |-> "live",
               cb |-> IF k \in {"connect", "disconnect"} THEN "field" ELSE "live"]

NotMade == [status |-> "ok", done |-> FALSE, gave |-> FALSE, result |-> "none",
            op |-> "none", cb |-> "none"]

Init ==
  /\ mode = "idle" /\ now = 0
  /\ kind = [c \in AllCalls |-> "none"]
  /\ charge = [c \in AllCalls |-> 1]
  /\ call = [c \in AllCalls |-> NotMade]
  /\ outqueue = << >> /\ waitqueue = << >> /\ pdu = << NoPdu, "ok" >>
  /\ life = [p \in PDUs |-> "none"]
  /\ credits = 0 /\ line = "up" /\ strays = {} /\ eased = {}
  /\ answered = [c \in AllCalls |-> 0] /\ stale = {}

-----------------------------------------------------------------------------
(* Queueing and sending                                                     *)

\* SMB2_LIST_REMOVE: nothing is in a queue twice, and it may not be in it at all.
Dequeued(q, x) == RemoveFirst(q, x)

\* smb2_write_to_socket, one chain: sent whole, or (the socket is full, the
\* credits do not cover the whole chain, or the line is cut) left where it is.
CreditsSuffice(o) == o # << >> /\ ChainCharge(Head(o)) <= credits

Spent(o) == ChainCharge(Head(o))

SendHead(o) ==
  /\ line = "up" /\ CreditsSuffice(o)
  /\ outqueue' = Tail(o)
  /\ waitqueue' = waitqueue \o Head(o)
  /\ credits' = credits - Spent(o)

\* smb2_queue_pdu: the chain goes to the end of outqueue, and a chain that is
\* alone there is written at once if it can be; an error there is ignored.
QueueAndTry(ch) ==
  LET o == Append(outqueue, ch) IN
  \/ Len(o) = 1 /\ SendHead(o)
  \/ outqueue' = o /\ UNCHANGED << waitqueue, credits >>

\* A read is cut down to what the credits at hand pay for (smb2_pread_async).
Wanted(w) == w
Clamped(w) == IF w <= credits THEN w ELSE credits

Issue(k) ==
  /\ mode = "idle" /\ now < MaxCalls
  /\ IF now = 0 THEN k = "connect" ELSE k \in Kinds
  /\ LET c == now + 1 IN
       /\ now' = c /\ mode' = "wait"
       /\ kind' = [kind EXCEPT ![c] = k]
       /\ \E w \in IF k = "data" THEN {1, MaxCharge} ELSE {1} :
            charge' = [charge EXCEPT ![c] = IF k = "data" THEN Clamped(w) ELSE w]
       /\ call' = [call EXCEPT ![c] = NewCall(k)]
       /\ outqueue' = Append(outqueue,
                             [i \in 1 .. (IF k = "change" THEN Width ELSE 1) |-> << c, 1, i >>])
       /\ life' = [p \in PDUs |-> IF p \in Range(Last(outqueue')) THEN "live" ELSE life[p]]
  /\ UNCHANGED << waitqueue, pdu, credits, line, strays, eased, answered, stale >>

\* A read fills its caller's buffer and a write is sent from it; a call that gave
\* up has released it.
Released(c) == {x \in {<< "buf", c >>} : kind[c] = "data" /\ call[c].gave}

\* POLLOUT in the wait loop (the write smb2_queue_pdu tries at once is this
\* step taken before any other).
Write ==
  /\ mode = "wait"
  /\ SendHead(outqueue)
  /\ stale' = stale \cup Released(Head(outqueue)[1][1])
  /\ UNCHANGED << mode, now, kind, charge, call, pdu, life, line, strays, eased, answered >>

-----------------------------------------------------------------------------
(* The server and the reader                                                *)

\* A chain's members are answered in order; a member is answered once.
MayAnswer(p) ==
  /\ p \in Range(waitqueue) \cup strays
  /\ \A q \in Range(waitqueue) : q[1] = p[1] /\ q[2] = p[2] => q[3] >= p[3]

\* The server gives back what a request cost, with its interim or its final
\* reply; negotiate brings the window.
Grant(p) == IF kind[p[1]] = "connect" /\ p[2] = 1 THEN Window ELSE Charge(p)

\* smb2_read_from_socket goes on until nothing more is there, also when the
\* callback that is waited for has run.
Reading == mode = "wait" /\ line = "up" /\ pdu[1] = NoPdu

\* SMB2_RECV_HEADER with STATUS_PENDING: the credits count, the rest is skipped.
ReadPending ==
  /\ Reading
  /\ \E p \in (Range(waitqueue) \cup strays) \ eased :
       /\ MayAnswer(p)
       /\ eased' = eased \cup {p} /\ credits' = credits + Grant(p)
  /\ UNCHANGED << mode, now, kind, charge, call, outqueue, waitqueue, pdu, life, line,
                  strays, answered, stale >>

\* What a reply brings whose interim reply has not brought it.
Credit(p) == IF p \in eased THEN 0 ELSE Grant(p)

\* SMB2_RECV_HEADER: the credits count, the PDU leaves waitqueue for smb2->pdu.
ReadHeader ==
  /\ Reading
  /\ \E p \in Range(waitqueue), st \in {"ok", "fail"} :
       /\ MayAnswer(p)
       /\ pdu' = << p, st >>
       /\ waitqueue' = Dequeued(waitqueue, p)
       /\ credits' = credits + Credit(p)
       /\ eased' = eased \ {p}
       /\ answered' = [answered EXCEPT ![p[1]] = @ + (IF st = "ok" THEN 1 ELSE 0)]
  /\ UNCHANGED << mode, now, kind, charge, call, outqueue, life, line, strays, stale >>

\* SMB2_RECV_UNKNOWN: no PDU has the reply's message id; it brings its credits
\* and is skipped.
ReadUnknown ==
  /\ Reading
  /\ \E p \in strays :
       /\ strays' = strays \ {p}
       /\ credits' = credits + Credit(p)
       /\ eased' = eased \ {p}
  /\ UNCHANGED << mode, now, kind, charge, call, outqueue, waitqueue, pdu, life, line,
                  answered, stale >>

-----------------------------------------------------------------------------
(* Callbacks                                                                *)

\* The synchronous callback of call c, whose operation ends with s because of
\* a reply (or shutdown) st: sync_connect_cb, sync_open_cb, sync_opendir_cb,
\* sync_close_cb, sync_generic_status_cb.
SyncCallback(c, s, st) ==
  LET d == call[c]
      end == [d EXCEPT !.done = TRUE, !.status = s] IN
  CASE kind[c] \in {"connect", "disconnect"} -> IF d.gave THEN d ELSE end
    [] kind[c] \in {"data", "change"} -> IF d.gave THEN [d EXCEPT !.cb = "freed"] ELSE end
    [] kind[c] = "open" -> end
    [] kind[c] = "list" -> IF st = "shutdown" THEN d ELSE end
    [] kind[c] = "close" -> IF st = "shutdown" THEN d
                            ELSE IF d.gave THEN [d EXCEPT !.cb = "freed"] ELSE end

\* The sync callbacks that look at their data before they look at the status.
TouchesCb(c, st) == ~(st = "shutdown" /\ kind[c] \in {"list", "close"})

\* A compound reports the first failure of its members (rename_cb_1 to _3,
\* create_cb_1 and _2); any other operation what its last reply says.
LastReply(c, st) == st
FirstFailure(c, st) == IF call[c].status = "ok" THEN st ELSE call[c].status

\* The operation of p's call is over with this reply.
Ends(p, st) == p[3] = Members(p[1]) /\ (st # "ok" \/ p[2] = Rounds(p[1]))
Continues(p, st) == st = "ok" /\ p[2] < Rounds(p[1])

\* pdu->cb: an early member of a compound records its status, the last reply of
\* a round queues the next one, the last reply of all runs the synchronous
\* callback and frees the operation's data (or, an opened file or directory,
\* leaves it in cb_data->ptr, ready for the caller to take).
Callback(p, st, used) ==
  LET c == p[1]
      s == FirstFailure(c, st)
      over == [SyncCallback(c, s, st) EXCEPT
                 !.op = IF s = "ok" /\ kind[c] \in {"open", "list"} THEN "ready" ELSE "freed"]
  IN /\ call' = [call EXCEPT ![c] = IF Ends(p, st) THEN over ELSE [@ EXCEPT !.status = s]]
     /\ stale' = stale \cup used
          \cup {x \in {<< "op", c >>} : call[c].op = "freed"}
          \cup {x \in {<< "cb", c >>} :
                  Ends(p, st) /\ call[c].cb = "freed" /\ TouchesCb(c, st)}

FreePdu(p) == [life EXCEPT ![p] = "freed"]

\* The rest of the reply is in: the callback runs, the PDU is freed unless the
\* caller frees it, smb2->pdu is cleared.  If the caller has freed it already, the
\* context uses what is no longer there; the model follows it no further.
ReadBody ==
  /\ mode = "wait" /\ line = "up" /\ pdu[1] # NoPdu
  /\ LET p == pdu[1]
         next == Chain(p[1], p[2] + 1)
         freed == IF CallerFrees(p) THEN life ELSE FreePdu(p) IN
       IF life[p] = "freed"
         THEN /\ stale' = stale \cup {<< "pdu", p >>}
              /\ UNCHANGED << call, outqueue, waitqueue, credits, life >>
         ELSE /\ Callback(p, pdu[2], Released(p[1]))
              /\ IF Continues(p, pdu[2])
                   THEN /\ QueueAndTry(next)
                        /\ life' = [q \in PDUs |-> IF q \in Range(next) THEN "live" ELSE freed[q]]
                   ELSE life' = freed /\ UNCHANGED << outqueue, waitqueue, credits >>
  /\ pdu' = << NoPdu, "ok" >>
  /\ UNCHANGED << mode, now, kind, charge, line, strays, eased, answered >>

-----------------------------------------------------------------------------
(* The end of a call                                                        *)

\* wait_for_reply returns 0: the caller takes the result and frees what is its.
\* An open's callback data would go with its PDU, but nobody stores its free_cb
\* there: it is leaked.
Return ==
  /\ mode = "wait" /\ call[now].done
  /\ LET d == call[now]
         frees == d.cb = "live" /\ kind[now] # "open" /\ ~(kind[now] = "list" /\ d.status = "ok") IN
       /\ call' = [call EXCEPT ![now] = [d EXCEPT !.result = d.status,
                                                   !.op = IF @ = "ready" THEN "given" ELSE @,
                                                   !.cb = IF frees THEN "freed" ELSE @]]
       /\ life' = [p \in PDUs |-> IF p[1] = now /\ CallerFrees(p) /\ life[p] = "live"
                                  THEN "freed" ELSE life[p]]
       \* a refused connect destroys the context (nativeConnect)
       /\ mode' = IF kind[now] = "connect" /\ d.status # "ok" THEN "destroy" ELSE "idle"
  /\ UNCHANGED << now, kind, charge, outqueue, waitqueue, pdu, credits, line, strays, eased,
                  answered, stale >>

\* wait_for_reply returns -1: open and list free their first PDU, out of whichever
\* queue holds it (smb2->pdu is not one of them); list and close free their
\* callback data, an open's is leaked, the others leave theirs to the callback
\* that is still to come.  What a callback has left in cb_data->ptr stays there.
GivesUpCb(k) == k \in {"list", "close"}

Abandon(r) ==
  /\ mode = "wait"
  /\ LET first == << now, 1, 1 >> IN
       IF CallerFrees(first)
         THEN /\ outqueue' = Dequeued(outqueue, << first >>)
              /\ waitqueue' = Dequeued(waitqueue, first)
              /\ strays' = strays \cup ({first} \cap Range(waitqueue))
              /\ life' = FreePdu(first)
         ELSE UNCHANGED << outqueue, waitqueue, strays, life >>
  /\ call' = [call EXCEPT ![now].gave = TRUE, ![now].result = r,
                          ![now].cb = IF GivesUpCb(kind[now]) THEN "freed" ELSE @]
  /\ mode' = IF kind[now] = "connect" THEN "destroy" ELSE "idle"
  /\ UNCHANGED << now, kind, charge, pdu, credits, line, eased, answered, stale >>

\* smb2_service fails: the connection is gone.  The callback may have run before
\* that, in the same pass; wait_for_reply does not look again.
GiveUp == line = "cut" /\ Abandon("lost")

\* poll() fails (EINTR): the call is given up, the connection is not.
PollFails == mode = "wait" /\ line = "up" /\ ~call[now].done /\ Abandon("polled")

\* The network drops the connection.
Cut ==
  /\ line = "up" /\ mode \in {"idle", "wait"} /\ line' = "cut"
  /\ UNCHANGED << mode, now, kind, charge, call, outqueue, waitqueue, pdu, life, credits,
                  strays, eased, answered, stale >>

-----------------------------------------------------------------------------
(* The end of the context                                                   *)

\* nativeDisconnect: smb2_disconnect_share queues a tree disconnect and waits
\* with connect_cb_data, whose is_finished the connect has set and nobody has
\* cleared: it returns at once, and smb2_destroy_context follows.
NativeDisconnect ==
  /\ mode = "idle" /\ now > 0 /\ mode' = "destroy"
  /\ kind' = [kind EXCEPT ![Disconnect] = "disconnect"]
  /\ call' = [call EXCEPT ![Disconnect] = NewCall("disconnect")]
  /\ QueueAndTry(<< << Disconnect, 1, 1 >> >>)
  /\ life' = [life EXCEPT ![<< Disconnect, 1, 1 >>] = "live"]
  /\ UNCHANGED << now, charge, pdu, line, strays, eased, answered, stale >>

\* nativeDestroy: no farewell.
NativeDestroy ==
  /\ mode = "idle" /\ now > 0 /\ mode' = "destroy"
  /\ UNCHANGED << now, kind, charge, call, outqueue, waitqueue, pdu, life, credits, line,
                  strays, eased, answered, stale >>

\* smb2_destroy_context, first loop: the callback of the head of an unsent
\* chain runs, and the chain is freed with it, the other members unheard.
DestroyOut ==
  /\ mode = "destroy" /\ outqueue # << >>
  /\ LET ch == Head(outqueue) IN
       /\ Callback(ch[1], "shutdown", {})
       /\ life' = [p \in PDUs |-> IF p \in Range(ch) THEN "freed" ELSE life[p]]
  /\ outqueue' = Tail(outqueue)
  /\ UNCHANGED << mode, now, kind, charge, waitqueue, pdu, credits, line, strays, eased, answered >>

DropCurrent ==
  /\ mode = "destroy" /\ outqueue = << >> /\ pdu[1] # NoPdu
  /\ pdu' = << NoPdu, "ok" >>
  /\ UNCHANGED << mode, now, kind, charge, call, outqueue, waitqueue, life, credits, line,
                  strays, eased, answered, stale >>

\* Then the PDU whose reply was being read.  If its caller has freed it, the
\* context uses what is no longer there; the model follows it no further.
DestroyCurrent ==
  /\ mode = "destroy" /\ outqueue = << >> /\ pdu[1] # NoPdu
  /\ IF life[pdu[1]] = "freed"
       THEN stale' = stale \cup {<< "pdu", pdu[1] >>} /\ UNCHANGED << call, life >>
       ELSE Callback(pdu[1], "shutdown", {}) /\ life' = FreePdu(pdu[1])
  /\ pdu' = << NoPdu, "ok" >>
  /\ UNCHANGED << mode, now, kind, charge, outqueue, waitqueue, credits, line, strays, eased, answered >>

\* Then the PDUs that wait for a reply, in the order they were sent.
LastWaiting == Last(waitqueue)
NextWaiting == Head(waitqueue)

DestroyWaiting ==
  /\ mode = "destroy" /\ outqueue = << >> /\ pdu[1] = NoPdu /\ waitqueue # << >>
  /\ LET p == NextWaiting IN
       /\ Callback(p, "shutdown", {})
       /\ life' = FreePdu(p)
       /\ waitqueue' = Dequeued(waitqueue, p)
  /\ UNCHANGED << mode, now, kind, charge, outqueue, pdu, credits, line, strays, eased, answered >>

DestroyEnd ==
  /\ mode = "destroy" /\ outqueue = << >> /\ pdu[1] = NoPdu /\ waitqueue = << >>
  /\ mode' = "gone"
  /\ UNCHANGED << now, kind, charge, call, outqueue, waitqueue, pdu, life, credits, line,
                  strays, eased, answered, stale >>

Next ==
  \/ \E k \in Kinds \cup {"connect"} : Issue(k)
  \/ Write \/ ReadPending \/ ReadHeader \/ ReadUnknown \/ ReadBody
  \/ Return \/ GiveUp \/ PollFails \/ Cut
  \/ NativeDisconnect \/ NativeDestroy
  \/ DestroyOut \/ DestroyCurrent \/ DestroyWaiting \/ DestroyEnd

Spec == Init /\ [][Next]_vars

\* The io thread runs its loop and the server answers what it was sent; nothing
\* makes poll or the network fail, the user go on or the context be destroyed.
FairSpec ==
  /\ Spec
  /\ WF_vars(Write \/ ReadHeader \/ ReadUnknown \/ ReadBody \/ Return \/ GiveUp)

-----------------------------------------------------------------------------
(* Properties                                                               *)

Status == {"ok", "fail", "shutdown"}
Waiting == Range(waitqueue)
Unsent == UNION {Range(outqueue[i]) : i \in DOMAIN outqueue}

\* Types; and credits are never spent that the server has not granted.
TypeOK ==
  /\ mode \in {"idle", "wait", "destroy", "gone"} /\ now \in 0 .. MaxCalls
  /\ line \in {"up", "cut"} /\ credits \in Nat
  /\ call \in [AllCalls -> [status : Status, done : BOOLEAN, gave : BOOLEAN,
                            result : Status \cup {"none", "lost", "polled"},
                            op : {"none", "live", "ready", "given", "freed"},
                            cb : {"none", "field", "live", "freed"}]]
  /\ life \in [PDUs -> {"none", "live", "freed"}]
  /\ Range(waitqueue) \subseteq PDUs /\ strays \subseteq PDUs

\* Whatever order a lost connection, failed calls and the destroy come in, no
\* callback uses operation or callback data that was freed, and no queue leads to a
\* freed PDU.  What the library does use is excepted.  Of a call given up for any
\* reason it is the first PDU of an open or a list whose reply was half read: the
\* caller frees it and smb2->pdu still points to it (sync.c, smb2_open and
\* smb2_opendir; init.c, smb2_destroy_context).  Of a call given up because poll
\* failed, whose reply still comes on the living connection, it is also the
\* callback data smb2_opendir and smb2_close have freed, and the caller's buffer.
Excepted ==
  {<< "pdu", p >> : p \in {q \in PDUs : CallerFrees(q) /\ call[q[1]].gave}}
    \cup {<< "cb", c >> : c \in {e \in Calls : kind[e] \in {"list", "close"} /\ call[e].result = "polled"}}
    \cup {<< "buf", c >> : c \in {e \in Calls : kind[e] = "data" /\ call[e].result = "polled"}}

NothingStale ==
  /\ TypeOK
  /\ stale \subseteq Excepted
  /\ \A p \in Waiting \cup Unsent : life[p] = "live"

\* A call reports success only if the server has answered every one of its PDUs
\* with success, and a failure only if it has not: the later replies of a
\* compound do not hide its first failure.
ResultIsTrue ==
  \A c \in Calls : call[c].result \in {"ok", "fail"} =>
    (call[c].result = "ok" <=> answered[c] = Rounds(c) * Members(c))

\* Once the context is gone nothing that had been sent is left without its
\* callback: every operation has been freed or handed over, but for those the
\* code forgets.  No callback has run for a compound that was never sent, whose
\* last member would have done it, and for an open or list that gave up before its
\* first reply was handled.  And an open or list whose callback had the file or
\* directory ready, but whose wait_for_reply failed all the same (the connection
\* closed behind the reply, or poll failed before it), has left it to nobody.
EveryoneTold ==
  mode = "gone" => \A c \in AllCalls :
    /\ call[c].op = "live" =>
         /\ call[c].gave
         /\ kind[c] = "change" \/ (kind[c] \in {"open", "list"} /\ answered[c] <= 1)
    /\ call[c].op = "ready" =>
         /\ call[c].gave /\ kind[c] \in {"open", "list"}
         /\ answered[c] = Rounds(c)

\* A call comes to an end while the server answers and gives back the credits
\* it takes: in particular a chain never waits for more credits than there are.
CallsEnd == (mode = "wait") ~> (mode # "wait")
=============================================================================
