------------------------------ MODULE RpcClient ------------------------------
(***************************************************************************)
(* The RPC transport of libnfs (socket.c, pdu.c, init.c) for one TCP       *)
(* connection, as nfs_jni.c drives it: one thread, no TLS, no Kerberos,    *)
(* no NFSv4.2.  A call is a PDU.  It is queued on outqueue, written to the *)
(* socket, possibly in pieces, moved to waitpdu, and taken from there when *)
(* the first bytes of its reply arrive; its callback runs when the reply   *)
(* has been read, or when it times out, fails or is purged.                *)
(*                                                                         *)
(* A zero-copy call (READ) leaves the queues with its header and gets its  *)
(* callback after the data has been read too.  High priority calls go      *)
(* ahead of the low priority ones; tailp ends their run in outqueue.       *)
(* nfs_jni.c turns reconnecting and retransmission off; the library's own  *)
(* defaults turn them on.  Both are modes here.                            *)
(***************************************************************************)
EXTENDS Integers, Sequences, FiniteSets

CONSTANTS
  Calls,
  High,        \* queued with PDU_Q_PRIO_HI
  ZeroCopy,    \* READs that land in the caller's buffer
  NoRetry,     \* do_not_retry
  Rejectable,  \* calls a server may answer with an RPC error
  Modes,       \* settings explored: auto_reconnect and retrans
  MaxWait,     \* max_waitpdu_len, 0 for no limit
  None,
  MaxOwed      \* bound on the replies owed to one call, and on its rejections

ASSUME RpcAssumption ==
  /\ High \subseteq Calls /\ ZeroCopy \subseteq Calls /\ NoRetry \subseteq Calls
  /\ Rejectable \subseteq Calls
  /\ Modes \subseteq [auto : Int, retrans : Nat]
  /\ MaxWait \in Nat /\ MaxOwed \in Nat \ {0} /\ None \notin Calls

VARIABLES
  mode,     \* auto_reconnect and retrans
  issued,   \* calls that were queued
  rpc,      \* the queues and the reader of rpc_context
  called,   \* called[x]: how often the callback of x ran
  link,     \* the connection
  over      \* rpc_destroy_context was called

vars == <<mode, issued, rpc, called, link, over>>

Elements(s) == {s[i] : i \in 1..Len(s)}
Position(s, x) == CHOOSE i \in 1..Len(s) : s[i] = x
Without(s, x) == LET i == Position(s, x) IN SubSeq(s, 1, i - 1) \o SubSeq(s, i + 1, Len(s))

(* begun: calls in outqueue of which a part was written (out.num_done).    *)
(* cut: the call of which a part is the last thing on the wire.            *)
Empty == [out |-> <<>>, tailp |-> None, outlen |-> 0, wait |-> <<>>, waitlen |-> 0,
          begun |-> {}, again |-> {}, pdu |-> None, phase |-> "marker"]
NewLink(state, retries) ==
  [state |-> state, retries |-> retries, owed |-> [x \in Calls |-> 0], cut |-> None, torn |-> FALSE]

Init ==
  /\ mode \in Modes
  /\ issued = {} /\ rpc = Empty /\ over = FALSE
  /\ called = [x \in Calls |-> 0]
  /\ link = NewLink("up", 0)

------------------------------------------------------------------------------
(* The queues of pdu.c.                                                    *)

(* Mutants stand before the definition they alter: a defect a maintainer   *)
(* could introduce, against which a property is tested.                    *)
AddHeadDisplacing(r, x) ==
  [r EXCEPT !.out = <<x>> \o @, !.tailp = IF x \in High /\ @ = None THEN x ELSE @, !.outlen = @ + 1]

(* rpc_add_to_outqueue_head: a head that was begun is not displaced.       *)
AddHead(r, x) ==
  [(IF r.out = <<>> \/ Head(r.out) \notin r.begun
      THEN [r EXCEPT !.out = <<x>> \o @,
                     !.tailp = IF x \in High /\ @ = None THEN x ELSE @]
      ELSE [r EXCEPT !.out = <<Head(@), x>> \o Tail(@),
                     !.tailp = IF x \in High /\ @ \in {None, Head(r.out)} THEN x ELSE @])
   EXCEPT !.outlen = @ + 1]

AddHigh(r, x) ==
  IF r.tailp = None THEN AddHead(r, x)
  ELSE LET i == Position(r.out, r.tailp) IN
       [r EXCEPT !.out = SubSeq(@, 1, i) \o <<x>> \o SubSeq(@, i + 1, Len(@)),
                 !.tailp = x, !.outlen = @ + 1]

AddLow(r, x) == [r EXCEPT !.out = Append(@, x), !.outlen = @ + 1]

(* rpc_return_to_outqueue: the whole PDU will be sent again.               *)
Return(r, x) ==
  LET s == AddHead(r, x) IN [s EXCEPT !.again = @ \cup {x}, !.begun = @ \ {x}]

TailpForgotten(r, x) == IF r.tailp # x THEN r.tailp ELSE None

(* The high priority run ends at the predecessor of its last member.       *)
TailpWithout(r, x) ==
  IF r.tailp # x THEN r.tailp
  ELSE LET i == Position(r.out, x) IN
       IF i > 1 /\ r.out[i - 1] \in High THEN r.out[i - 1] ELSE None

RemoveOut(r, x) ==
  [r EXCEPT !.out = Without(@, x), !.tailp = TailpWithout(r, x), !.outlen = @ - 1, !.begun = @ \ {x}]

RemoveWait(r, x) == [r EXCEPT !.wait = Without(@, x), !.waitlen = @ - 1]

(* rpc_purge_all_pdus: both queues are emptied, their callbacks run.  The  *)
(* PDU whose reply is being read is in neither.                            *)
Purge(r) ==
  [r EXCEPT !.out = <<>>, !.tailp = None, !.outlen = 0, !.wait = <<>>, !.waitlen = 0, !.begun = {}]
Purged(r) == Elements(r.out) \cup Elements(r.wait)

Called(s) == [x \in Calls |-> IF x \in s THEN called[x] + 1 ELSE called[x]]

------------------------------------------------------------------------------
(* rpc_write_to_socket: the socket takes the first n PDUs of outqueue and  *)
(* perhaps a part of the next one, as far as max_waitpdu_len allows.       *)

Room(r) == IF MaxWait = 0 THEN Len(r.out) ELSE MaxWait - r.waitlen

Wrote(r, n, part) ==
  LET sent == Elements(SubSeq(r.out, 1, n))
      rest == SubSeq(r.out, n + 1, Len(r.out)) IN
  [r EXCEPT !.out = rest, !.outlen = @ - n,
            !.tailp = IF @ \in sent THEN None ELSE @,
            !.wait = @ \o SubSeq(r.out, 1, n), !.waitlen = @ + n,
            !.begun = (@ \ sent) \cup (IF part THEN {Head(rest)} ELSE {})]

OnTheWire(r, n, part) ==
  LET sent == Elements(SubSeq(r.out, 1, n))
      torn == link.torn \/ (link.cut # None /\ (n > 0 \/ part) /\ Head(r.out) # link.cut) IN
  [link EXCEPT !.torn = torn,
     !.cut = IF part THEN r.out[n + 1] ELSE IF n > 0 THEN None ELSE @,
     !.owed = [x \in Calls |-> IF x \in sent /\ ~torn /\ @[x] < MaxOwed THEN @[x] + 1 ELSE @[x]]]

CanWrite(r, n, part) ==
  /\ n \in 0..Len(r.out)
  /\ part => n < Len(r.out)
  /\ n + (IF part THEN 1 ELSE 0) <= Room(r)

WriteFrom(r) ==
  \E n \in 0..Cardinality(Calls), part \in BOOLEAN :
    /\ CanWrite(r, n, part)
    /\ rpc' = Wrote(r, n, part) /\ link' = OnTheWire(r, n, part)

(* rpc_queue_pdu2: a PDU that lands at the head is written at once; what   *)
(* the write returns is ignored.                                           *)
QueuePdu(x) ==
  /\ ~over /\ x \notin issued
  /\ issued' = issued \cup {x}
  /\ LET r == IF x \in High THEN AddHigh(rpc, x) ELSE AddLow(rpc, x) IN
     IF Head(r.out) = x /\ link.state = "up"
       THEN WriteFrom(r)
       ELSE rpc' = r /\ UNCHANGED link
  /\ UNCHANGED <<mode, called, over>>

ServiceWrite ==
  /\ ~over /\ link.state = "up" /\ rpc.out # <<>>
  /\ WriteFrom(rpc)
  /\ UNCHANGED <<mode, issued, called, over>>

------------------------------------------------------------------------------
(* rpc_reconnect_requeue.  Without auto_reconnect, or when connecting      *)
(* fails at once, everything queued is purged; otherwise what was sent and *)
(* what was half read goes back to outqueue and a connection is begun.     *)

ReturnAll(r) ==
  LET f[i \in 0..Len(r.wait)] ==
        IF i = 0 THEN [r EXCEPT !.begun = {}, !.phase = "marker"] ELSE Return(f[i - 1], r.wait[i])
      s == [f[Len(r.wait)] EXCEPT !.wait = <<>>, !.waitlen = 0]
  IN IF r.pdu = None THEN s ELSE [Return(s, r.pdu) EXCEPT !.pdu = None]

PurgeAll(r, state, done) ==
  /\ rpc' = Purge(r)
  /\ called' = Called(Purged(r) \cup done)
  /\ link' = [link EXCEPT !.state = state]

Retries == IF link.state = "up" THEN mode.auto ELSE link.retries

Reconnect(r, done) ==
  IF mode.auto = 0
    THEN PurgeAll(r, "broken", done)
    ELSE \/ /\ mode.auto < 0 \/ Retries > 0
            /\ rpc' = ReturnAll(r)
            /\ link' = NewLink("connecting", IF mode.auto < 0 THEN 0 ELSE Retries - 1)
            /\ called' = Called(done)
         \/ PurgeAll(ReturnAll(r), "down", done)

(* rpc_service sees POLLERR or POLLHUP, or the socket fails or ends while  *)
(* it is read or written.                                                  *)
LinkFails ==
  /\ ~over /\ link.state \in {"up", "broken"}
  /\ Reconnect(rpc, {})
  /\ UNCHANGED <<mode, issued, over>>

ConnectDone ==
  /\ ~over /\ link.state = "connecting"
  /\ link' = [link EXCEPT !.state = "up"]
  /\ UNCHANGED <<mode, issued, rpc, called, over>>

(* With POLLERR or POLLHUP rpc_service begins the next attempt itself.  An *)
(* error that only getsockopt tells goes to reconnect_cb, which tries      *)
(* again, but rpc_service reports it and the synchronous caller purges     *)
(* what is queued.                                                         *)
ConnectFails ==
  /\ ~over /\ link.state = "connecting"
  /\ \/ Reconnect(rpc, {})
     \/ LET r == ReturnAll(rpc)
            more == mode.auto < 0 \/ link.retries > 0 IN
        /\ rpc' = Purge(r)
        /\ called' = Called(Purged(r))
        /\ link' = NewLink(IF more THEN "connecting" ELSE "down",
                           IF more /\ mode.auto > 0 THEN link.retries - 1 ELSE link.retries)
  /\ UNCHANGED <<mode, issued, over>>

------------------------------------------------------------------------------
(* rpc_read_from_socket.                                                   *)

(* The marker and the xid: rpc_find_pdu takes the PDU out of its queue, an *)
(* unknown xid is skipped.                                                 *)
ReadMarker(x) ==
  /\ ~over /\ link.state = "up" /\ rpc.phase = "marker" /\ link.owed[x] > 0
  /\ link' = [link EXCEPT !.owed[x] = @ - 1]
  /\ rpc' = CASE x \in Elements(rpc.wait) -> [RemoveWait(rpc, x) EXCEPT !.pdu = x, !.phase = "payload"]
              [] x \in Elements(rpc.out) -> [RemoveOut(rpc, x) EXCEPT !.pdu = x, !.phase = "payload"]
              [] OTHER -> [rpc EXCEPT !.pdu = None]
  /\ UNCHANGED <<mode, issued, called, over>>

Finish(r) == [r EXCEPT !.pdu = None, !.phase = "marker"]

(* rpc_process_reply: an ordinary call is finished by its callback; a      *)
(* zero-copy call goes on to its data, unless it all came with the header  *)
(* or the READ itself failed.                                              *)
ReadPayload ==
  /\ ~over /\ link.state = "up" /\ rpc.phase = "payload"
  /\ \/ rpc' = Finish(rpc) /\ called' = Called({rpc.pdu})
     \/ rpc.pdu \in ZeroCopy /\ rpc' = [rpc EXCEPT !.phase = "data"] /\ UNCHANGED called
  /\ UNCHANGED <<mode, issued, link, over>>

(* An RPC error: the callback runs.  For a zero-copy call the reader then  *)
(* looks for data that is not there and gives the connection up, with the  *)
(* call still in hand.                                                     *)
ReadRejected ==
  /\ ~over /\ link.state = "up" /\ rpc.phase = "payload"
  /\ rpc.pdu \in Rejectable /\ called[rpc.pdu] < MaxOwed
  /\ IF rpc.pdu \in ZeroCopy
       THEN Reconnect(rpc, {rpc.pdu})
       ELSE rpc' = Finish(rpc) /\ called' = Called({rpc.pdu}) /\ UNCHANGED link
  /\ UNCHANGED <<mode, issued, over>>

ReadData ==
  /\ ~over /\ link.state = "up" /\ rpc.phase = "data"
  /\ rpc' = Finish(rpc) /\ called' = Called({rpc.pdu})
  /\ UNCHANGED <<mode, issued, link, over>>

------------------------------------------------------------------------------
(* rpc_timeout_scan: the calls in `late` have expired.  They get their     *)
(* callback and are freed; with retrans they are left in outqueue, or put  *)
(* back there, and a server that was silent for long is reconnected to.    *)

Kept(x) == mode.retrans > 0 /\ x \notin NoRetry

ScanOut(r, late) ==
  LET f[i \in 0..Len(r.out)] ==
        IF i = 0 THEN r
        ELSE LET x == r.out[i] IN IF x \in late /\ ~Kept(x) THEN RemoveOut(f[i - 1], x) ELSE f[i - 1]
  IN f[Len(r.out)]

ScanWait(r, late) ==
  LET f[i \in 0..Len(r.wait)] ==
        IF i = 0 THEN r
        ELSE LET x == r.wait[i]
                 s == RemoveWait(f[i - 1], x)
             IN IF x \notin late THEN f[i - 1] ELSE IF Kept(x) THEN Return(s, x) ELSE s
  IN f[Len(r.wait)]

SentAreScanned(late) == late \subseteq Elements(rpc.wait)

Scanned(late) == late \subseteq Purged(rpc)

TimeoutScan(late) ==
  /\ ~over /\ late # {} /\ Scanned(late)
  /\ LET r == ScanWait(ScanOut(rpc, late), late)
         failed == {x \in late : ~Kept(x)} IN
     \/ rpc' = r /\ called' = Called(failed) /\ UNCHANGED link
     \/ /\ \E x \in late \cap Elements(rpc.wait) : Kept(x)
        /\ link.state = "up" /\ mode.auto # 0
        /\ rpc' = ReturnAll(r) /\ called' = Called(failed)
        /\ link' = NewLink("connecting", IF mode.auto < 0 THEN 0 ELSE mode.auto - 1)
  /\ UNCHANGED <<mode, issued, over>>

(* rpc_destroy_context.                                                    *)
Destroy ==
  /\ ~over
  /\ over' = TRUE
  /\ PurgeAll(rpc, "down", {})
  /\ UNCHANGED <<mode, issued>>

------------------------------------------------------------------------------

Next ==
  \/ \E x \in Calls : QueuePdu(x) \/ ReadMarker(x)
  \/ ServiceWrite \/ LinkFails \/ ConnectDone \/ ConnectFails
  \/ ReadPayload \/ ReadRejected \/ ReadData
  \/ \E late \in SUBSET Calls : TimeoutScan(late)
  \/ Destroy

Spec == Init /\ [][Next]_vars

(* Whoever waits calls rpc_service at least every 100 ms, which scans.     *)
Expire(x) == \E late \in SUBSET Calls : x \in late /\ TimeoutScan(late)

FairSpec == Spec /\ \A x \in Calls : WF_vars(Expire(x))

------------------------------------------------------------------------------
(* Properties.                                                             *)

TypeOK ==
  /\ mode \in Modes /\ issued \subseteq Calls /\ over \in BOOLEAN
  /\ rpc.out \in Seq(Calls) /\ rpc.wait \in Seq(Calls)
  /\ rpc.tailp \in Calls \cup {None} /\ rpc.pdu \in Calls \cup {None}
  /\ rpc.outlen \in Nat /\ rpc.waitlen \in Nat
  /\ rpc.begun \subseteq Calls /\ rpc.again \subseteq Calls
  /\ rpc.phase \in {"marker", "payload", "data"}
  /\ called \in [Calls -> Nat]
  /\ link.state \in {"up", "connecting", "broken", "down"} /\ link.retries \in Int
  /\ link.owed \in [Calls -> 0..MaxOwed] /\ link.cut \in Calls \cup {None} /\ link.torn \in BOOLEAN

(* "A pdu is on exactly one of these two queues": a call that was queued   *)
(* and not called back is in one place, once, and one that was called back *)
(* is in none.  A zero-copy call with an RPC error is the exception: it is *)
(* in one place at most, but may be sent and called back again.            *)
Places(x) ==
  Cardinality({i \in 1..Len(rpc.out) : rpc.out[i] = x})
  + Cardinality({i \in 1..Len(rpc.wait) : rpc.wait[i] = x})
  + (IF rpc.pdu = x THEN 1 ELSE 0)

OnePlace ==
  \A x \in issued :
    ~over => IF x \in ZeroCopy \cap Rejectable THEN Places(x) <= 1 ELSE Places(x) + called[x] = 1

(* waitpdu_len and outqueue_len, which the writer's limit and the poll     *)
(* events depend on, are the lengths of the queues.                        *)
Counted == rpc.outlen = Len(rpc.out) /\ rpc.waitlen = Len(rpc.wait)

(* The limit on calls in flight is kept.                                   *)
InFlightBounded == MaxWait > 0 => Len(rpc.wait) <= MaxWait

(* tailp, behind which the next high priority call is inserted, is such a  *)
(* call and still in outqueue, whatever was written, expired or returned;  *)
(* with the settings of nfs_jni.c it ends the run, as pdu.c asserts: the   *)
(* last PDU has high priority exactly when it is tailp.                    *)
TailpEndsRun ==
  /\ rpc.tailp # None => rpc.tailp \in High \cap Elements(rpc.out)
  /\ mode.auto = 0 /\ mode.retrans = 0 /\ rpc.out # <<>> =>
       (rpc.out[Len(rpc.out)] \in High <=> rpc.tailp = rpc.out[Len(rpc.out)])

(* Only the head of outqueue can have been written in part.                *)
OnlyHeadBegun == rpc.begun \subseteq (IF rpc.out = <<>> THEN {} ELSE {Head(rpc.out)})

(* The queues are right after any mix of writes, expiries, reconnects and   *)
(* late replies: each call is in one place, what is counted is so, the      *)
(* limit on calls in flight is kept, and both the high priority run and the *)
(* half-written PDU are where the next insertion looks for them.            *)
QueuesRight == TypeOK /\ OnePlace /\ Counted /\ InFlightBounded /\ TailpEndsRun /\ OnlyHeadBegun

(* "That would interleave bytes from two different PDUs on the wire": what  *)
(* follows the part of a PDU on the wire is the rest of it.  The exception  *)
(* is a half-written PDU that has left outqueue: its timeout frees it, or   *)
(* the late reply to its first transmission ends it, and the stream is torn *)
(* (rpc_timeout_scan, rpc_remove_pdu_from_queue).                           *)
TornOnlyByRemoval ==
  [][link'.torn /\ ~link.torn => link.cut \notin Elements(rpc.out)]_vars

(* Without retransmission no call waits for ever, whatever the server and  *)
(* the connection do: it ends in its callback, unless its reply has begun  *)
(* to arrive, for then it is in no queue that is scanned.                  *)
QueuedCallsEnd ==
  \A x \in Calls :
    mode.retrans = 0 /\ x \in Purged(rpc) ~> called[x] > 0 \/ rpc.pdu = x
==============================================================================
