--------------------------- MODULE SmbPdu_proofs ---------------------------
(***************************************************************************)
(* Proofs about SmbPdu for any number of calls of any kinds, compounds of  *)
(* any width and any window of credits.                                    *)
(*                                                                         *)
(* The invariant is about what is outstanding: the PDUs in outqueue and in *)
(* waitqueue and the one in smb2->pdu.  Queues says how they are ordered,  *)
(* Rest that what is outstanding of a call is the rest of one round of it, *)
(* Owned that what their callbacks will use is there, Awaiting whose they  *)
(* are, GivenUp how a call given up ended, Counted how many replies were   *)
(* counted before the first of them, Heard which operations wait for a     *)
(* callback that will not come, and Ready which were left to nobody.       *)
(***************************************************************************)
EXTENDS SmbPdu, SequenceTheorems, TLAPS

-----------------------------------------------------------------------------
(* The invariant *)

KindNames == {"none", "connect", "open", "list", "data", "change", "close", "disconnect"}
CallRecords ==
  [status : Status, done : BOOLEAN, gave : BOOLEAN, result : Status \cup {"none", "lost", "polled"},
   op : {"none", "live", "ready", "given", "freed"}, cb : {"none", "field", "live", "freed"}]

\* The PDUs that will still get a callback: those in a queue and the one being read.
Current == IF pdu[1] = NoPdu THEN {} ELSE {pdu[1]}
Outstanding == Waiting \cup Unsent \cup Current

Types ==
  /\ TypeOK
  /\ kind \in [AllCalls -> KindNames] /\ charge \in [AllCalls -> Nat]
  /\ pdu \in (PDUs \cup {NoPdu}) \X {"ok", "fail"}
  /\ answered \in [AllCalls -> Nat]

\* Which calls have been made.
Made ==
  /\ \A c \in Calls : kind[c] # "disconnect" /\ (kind[c] = "none" <=> c > now)
  /\ kind[Disconnect] \in {"none", "disconnect"}
  /\ kind[Disconnect] # "none" => mode \in {"destroy", "gone"}
  /\ \A c \in AllCalls : kind[c] = "none" => call[c] = NotMade /\ answered[c] = 0

\* What the chains of o consist of.
Elems(o) == UNION {Range(o[i]) : i \in DOMAIN o}
\* A chain of n members; the chains of o belong to different calls.
Row(c, r, n) == [k \in 1..n |-> << c, r, k >>]
Chains(o) ==
  /\ o \in Seq(Seq(PDUs))
  /\ \A i \in 1..Len(o) : \E c \in AllCalls, r \in 1..4, n \in 1..Width : o[i] = Row(c, r, n)
  /\ \A i, j \in 1..Len(o) : \A p \in Range(o[i]), q \in Range(o[j]) : p[1] = q[1] => i = j

\* The members of a chain are in w in their order, and once.
InOrder(w) ==
  /\ w \in Seq(PDUs)
  /\ \A i, j \in 1..Len(w) : i < j /\ w[i][1] = w[j][1] => w[i][3] < w[j][3]

\* A call has PDUs in the out queue o, or in the wait queue w and in the hands C
\* of the reader, and the reader has the first of them.
QueuesOf(o, w, C) ==
  /\ Chains(o) /\ InOrder(w) /\ C \subseteq PDUs
  /\ \A p \in Elems(o), q \in Range(w) \cup C : p[1] # q[1]
  /\ \A p \in Range(w), q \in C : p[1] = q[1] => q[3] < p[3]
Queues == QueuesOf(outqueue, waitqueue, Current)

\* What is outstanding of a call is the rest of one of its rounds.
RestOf(X) ==
  /\ \A p \in X : kind[p[1]] # "none" /\ p[2] <= Rounds(p[1]) /\ p[3] <= Members(p[1])
  /\ \A p, q \in X : p[1] = q[1] => p[2] = q[2]
  /\ \A p \in X : p[3] < Members(p[1]) => \E q \in X : q[1] = p[1] /\ q[3] = p[3] + 1
Rest == RestOf(Outstanding)

\* While a callback is to come, the operation's data is there, and the callback's
\* data too, unless the callback will not look at it.
Owned ==
  /\ \A p \in Waiting \cup Unsent : life[p] = "live"
  /\ \A p \in Current :
       life[p] = "live" \/ (life[p] = "freed" /\ CallerFrees(p) /\ call[p[1]].gave)
  /\ \A p \in Outstanding :
       /\ call[p[1]].op = "live"
       /\ call[p[1]].cb = "freed" => call[p[1]].gave /\ kind[p[1]] \in {"list", "close"}
  /\ stale \subseteq Excepted

\* A callback is awaited, or will come late or when the context is destroyed.
Abandoned(c) == call[c].gave
Awaiting ==
  /\ mode = "wait" => now # 0 /\ ~call[now].gave /\ call[now].result = "none"
  /\ mode = "wait" /\ ~call[now].done => \E p \in Outstanding : p[1] = now
  /\ \A p \in Outstanding :
       \/ mode = "wait" /\ p[1] = now /\ ~call[now].done
       \/ Abandoned(p[1])
       \/ p[1] = Disconnect
  /\ mode = "gone" => Outstanding = {}

\* A call is given up because the line was cut or poll failed, and on a line that
\* is up only because poll failed.
GivenUp ==
  \A c \in AllCalls : call[c].gave =>
    call[c].result \in {"lost", "polled"} /\ (line = "up" => call[c].result = "polled")

\* The replies counted, and what they come to.
First(p) == \A q \in Outstanding : q[1] = p[1] => p[3] <= q[3]
Before(p) == p[2] + p[3] - 2
InHand(p) == IF pdu = << p, "ok" >> THEN 1 ELSE 0
Tally(p) ==
  /\ call[p[1]].status \in {"ok", "fail"}
  /\ call[p[1]].status = "ok" => answered[p[1]] = Before(p) + InHand(p)
  /\ call[p[1]].status = "fail" => answered[p[1]] < Before(p) + InHand(p)
Counted ==
  /\ mode \in {"idle", "wait"} => \A p \in Outstanding : First(p) => Tally(p)
  /\ \A p \in Outstanding : CallerFrees(p) => answered[p[1]] <= InHand(p)
  /\ mode = "wait" /\ call[now].done =>
       /\ call[now].status \in {"ok", "fail"}
       /\ call[now].status = "ok" <=> answered[now] = Rounds(now) * Members(now)

\* An operation whose data is still there is to get a callback, or was forgotten.
Forgotten(c) == call[c].gave /\ (kind[c] = "change" \/ (kind[c] \in {"open", "list"} /\ answered[c] <= 1))
Heard == \A c \in AllCalls : call[c].op = "live" => Forgotten(c) \/ \E p \in Outstanding : p[1] = c

\* What a callback has made ready is the caller's to take, or was left to nobody.
LeftReady(c) ==
  /\ kind[c] \in {"open", "list"} /\ answered[c] = Rounds(c)
  /\ call[c].gave \/ (mode = "wait" /\ c = now)
Ready == \A c \in AllCalls : call[c].op = "ready" => LeftReady(c)

IInv ==
  /\ Types /\ Made /\ Queues /\ Rest /\ Owned /\ Awaiting /\ GivenUp /\ Counted /\ Heard
  /\ Ready /\ ResultIsTrue

-----------------------------------------------------------------------------
(* Queues *)

\* Taking an element that occurs once out of a sequence.
LEMMA RemoveFacts ==
  ASSUME NEW S, NEW q \in Seq(S), NEW i \in 1..Len(q),
         \A j \in 1..Len(q) : q[j] = q[i] => j = i
  PROVE  LET d == Dequeued(q, q[i]) IN
         /\ d \in Seq(S) /\ Len(d) = Len(q) - 1
         /\ \A j \in 1..Len(d) : d[j] = IF j < i THEN q[j] ELSE q[j + 1]
<1> DEFINE a == SubSeq(q, 1, i - 1)
           b == SubSeq(q, i + 1, Len(q))
<1>1. SelectInSeq(q, LAMBDA v : v = q[i]) = i
  <2>1. {j \in 1..Len(q) : q[j] = q[i]} = {i}
    OBVIOUS
  <2>2. Min({i}) = i
    BY DEF Min
  <2> QED BY <2>1, <2>2 DEF SelectInSeq
<1>2. Dequeued(q, q[i]) = a \o b
  BY <1>1 DEF Dequeued, RemoveFirst, RemoveAt
<1>3. a \in Seq(S) /\ Len(a) = i - 1 /\ \A j \in 1..(i - 1) : a[j] = q[j]
  OBVIOUS
<1>4. b \in Seq(S) /\ Len(b) = Len(q) - i /\ \A j \in 1..(Len(q) - i) : b[j] = q[i + j]
  OBVIOUS
<1> HIDE DEF a, b
<1>5. /\ a \o b \in Seq(S) /\ Len(a \o b) = Len(q) - 1
      /\ \A j \in 1..(Len(q) - 1) : (a \o b)[j] = IF j <= i - 1 THEN a[j] ELSE b[j - (i - 1)]
  <2>1. /\ a \o b \in Seq(S) /\ Len(a \o b) = Len(a) + Len(b)
        /\ \A j \in 1..(Len(a) + Len(b)) : (a \o b)[j] = IF j <= Len(a) THEN a[j] ELSE b[j - Len(a)]
    BY <1>3, <1>4, ConcatProperties
  <2>2. Len(q) \in Nat /\ Len(a) = i - 1 /\ Len(a) + Len(b) = Len(q) - 1
    BY <1>3, <1>4, LenProperties
  <2> QED BY <2>1, <2>2
<1>6. \A j \in 1..(Len(q) - 1) : (a \o b)[j] = IF j < i THEN q[j] ELSE q[j + 1]
  <2> TAKE j \in 1..(Len(q) - 1)
  <2>1. CASE j < i
    BY <2>1, <1>3, <1>5
  <2>2. CASE ~(j < i)
    <3>1. (j - (i - 1)) \in 1..(Len(q) - i) /\ i + (j - (i - 1)) = j + 1
      BY <2>2
    <3>2. b[j - (i - 1)] = q[j + 1]
      BY <3>1, <1>4
    <3> QED BY <2>2, <3>2, <1>5
  <2> QED BY <2>1, <2>2
<1> QED BY <1>2, <1>5, <1>6

\* Taking out what is not there changes nothing.
LEMMA NotThere ==
  ASSUME NEW S, NEW q \in Seq(S), NEW x, \A j \in 1..Len(q) : q[j] # x
  PROVE  Dequeued(q, x) = q
  BY DEF Dequeued, RemoveFirst

\* d is q without its i-th element.
Without(S, q, d, i) ==
  /\ d \in Seq(S) /\ Len(d) = Len(q) - 1
  /\ \A j \in 1..Len(d) : d[j] = IF j < i THEN q[j] ELSE q[j + 1]

\* The tail is the sequence without its first element.
LEMMA TailFacts ==
  ASSUME NEW S, NEW q \in Seq(S), q # << >>
  PROVE  Without(S, q, Tail(q), 1) /\ 1 \in 1..Len(q) /\ Head(q) = q[1] /\ q[1] \in S
<1>1. Len(q) \in Nat \ {0}
  BY LenProperties, EmptySeq
<1>2. /\ Head(q) \in S /\ Tail(q) \in Seq(S) /\ Len(Tail(q)) = Len(q) - 1
      /\ \A i \in 1 .. Len(Tail(q)) : Tail(q)[i] = q[i + 1]
  BY HeadTailProperties
<1>3. Head(q) = q[1]
  BY <1>1
<1> QED BY <1>1, <1>2, <1>3 DEF Without

\* What a sequence contains.
LEMMA RangeFacts ==
  ASSUME NEW S, NEW q \in Seq(S)
  PROVE  /\ Len(q) \in Nat /\ DOMAIN q = 1..Len(q)
         /\ Range(q) \subseteq S /\ \A x : x \in Range(q) <=> \E i \in 1..Len(q) : q[i] = x
<1>1. Len(q) \in Nat /\ DOMAIN q = 1..Len(q)
  BY LenProperties
<1> QED BY <1>1, ElementOfSeq DEF Range

\* What a sequence contains after one element was taken out.
LEMMA RangeWithout ==
  ASSUME NEW S, NEW q \in Seq(S), NEW i \in 1..Len(q), NEW d, Without(S, q, d, i)
  PROVE  \A x : x \in Range(d) <=> \E j \in 1..Len(q) : j # i /\ q[j] = x
<1>1. /\ Len(d) \in Nat /\ Len(q) \in Nat /\ Len(d) = Len(q) - 1
      /\ \A x : x \in Range(d) <=> \E j \in 1..Len(d) : d[j] = x
  BY RangeFacts DEF Without
<1>2. ASSUME NEW x, x \in Range(d) PROVE \E j \in 1..Len(q) : j # i /\ q[j] = x
  <2>1. PICK k \in 1..Len(d) : d[k] = x
    BY <1>1, <1>2
  <2>2. CASE k < i
    BY <1>1, <2>1, <2>2 DEF Without
  <2>3. CASE ~(k < i)
    <3>1. k + 1 \in 1..Len(q) /\ k + 1 # i /\ q[k + 1] = x
      BY <1>1, <2>1, <2>3 DEF Without
    <3> QED BY <3>1
  <2> QED BY <2>2, <2>3
<1>3. ASSUME NEW x, NEW j \in 1..Len(q), j # i, q[j] = x PROVE x \in Range(d)
  <2>1. CASE j < i
    <3>1. j \in 1..Len(d) /\ d[j] = x
      BY <1>1, <1>3, <2>1 DEF Without
    <3> QED BY <1>1, <3>1
  <2>2. CASE ~(j < i)
    <3>1. j - 1 \in 1..Len(d) /\ ~(j - 1 < i) /\ (j - 1) + 1 = j
      BY <1>1, <1>3, <2>2
    <3>2. d[j - 1] = x
      BY <1>3, <3>1 DEF Without
    <3> QED BY <1>1, <3>1, <3>2
  <2> QED BY <2>1, <2>2
<1> QED BY <1>2, <1>3

\* No PDU is twice in a wait queue in order.
LEMMA Distinct ==
  ASSUME NEW w, InOrder(w)
  PROVE  \A j, k \in 1..Len(w) : w[j] = w[k] => j = k
<1>1. \A j, k \in 1..Len(w) : j < k => w[j] # w[k]
  <2> SUFFICES ASSUME NEW j \in 1..Len(w), NEW k \in 1..Len(w), j < k, w[j] = w[k] PROVE FALSE
    OBVIOUS
  <2>1. w[j][3] < w[k][3] /\ w[j] \in PDUs
    BY ElementOfSeq DEF InOrder
  <2> QED BY <2>1 DEF PDUs
<1>2. Len(w) \in Nat
  BY LenProperties DEF InOrder
<1> QED BY <1>1, <1>2

\* A wait queue stays in order when a PDU is taken out.
LEMMA InOrderWithout ==
  ASSUME NEW w, InOrder(w), NEW i \in 1..Len(w), NEW d, Without(PDUs, w, d, i)
  PROVE  InOrder(d) /\ Range(d) = Range(w) \ {w[i]} /\ \A j \in 1..Len(w) : w[j] = w[i] => j = i
<1>1. Len(d) \in Nat /\ Len(w) \in Nat /\ Len(d) = Len(w) - 1 /\ w \in Seq(PDUs)
  BY RangeFacts DEF Without, InOrder
<1>2. \A j \in 1..Len(w) : w[j] = w[i] => j = i
  BY Distinct
<1>3. Range(d) = Range(w) \ {w[i]}
  BY <1>1, <1>2, RangeWithout, RangeFacts
<1>4. ASSUME NEW j \in 1..Len(d), NEW k \in 1..Len(d), j < k, d[j][1] = d[k][1]
      PROVE  d[j][3] < d[k][3]
  <2> DEFINE at(n) == IF n < i THEN n ELSE n + 1
  <2>1. at(j) \in 1..Len(w) /\ at(k) \in 1..Len(w) /\ at(j) < at(k)
    BY <1>1, <1>4
  <2>2. d[j] = w[at(j)] /\ d[k] = w[at(k)]
    BY <1>4 DEF Without
  <2> HIDE DEF at
  <2> QED BY <1>4, <2>1, <2>2 DEF InOrder
<1> QED BY <1>2, <1>3, <1>4 DEF InOrder, Without

\* What the chains of an out queue contain.
LEMMA ElemFacts ==
  ASSUME NEW o \in Seq(Seq(PDUs))
  PROVE  /\ \A x : x \in Elems(o) <=> \E i \in 1..Len(o) : x \in Range(o[i])
         /\ \A i \in 1..Len(o) : o[i] \in Seq(PDUs) /\ Range(o[i]) \subseteq PDUs
         /\ Elems(o) \subseteq PDUs
<1>1. DOMAIN o = 1..Len(o)
  BY RangeFacts
<1>2. \A i \in 1..Len(o) : o[i] \in Seq(PDUs)
  BY ElementOfSeq
<1>3. \A i \in 1..Len(o) : Range(o[i]) \subseteq PDUs
  BY <1>2, RangeFacts
<1>4. \A x : x \in Elems(o) <=> \E i \in 1..Len(o) : x \in Range(o[i])
  BY <1>1 DEF Elems
<1> QED BY <1>2, <1>3, <1>4

\* An out queue from which a chain was taken.
LEMMA ChainsWithout ==
  ASSUME NEW o, Chains(o), NEW i \in 1..Len(o), NEW d, Without(Seq(PDUs), o, d, i)
  PROVE  Chains(d) /\ Elems(d) = Elems(o) \ Range(o[i])
<1>1. /\ Len(d) \in Nat /\ Len(o) \in Nat /\ Len(d) = Len(o) - 1
      /\ o \in Seq(Seq(PDUs)) /\ d \in Seq(Seq(PDUs))
  BY RangeFacts DEF Without, Chains
<1>2. \A x : x \in Range(d) <=> \E j \in 1..Len(o) : j # i /\ o[j] = x
  BY <1>1, RangeWithout
<1>3. ASSUME NEW j \in 1..Len(d)
      PROVE  \E c \in AllCalls, r \in 1..4, n \in 1..Width : d[j] = Row(c, r, n)
  <2>1. \E k \in 1..Len(o) : d[j] = o[k]
    <3>1. j + 1 \in 1..Len(o) /\ j \in 1..Len(o)
      BY <1>1, <1>3
    <3> QED BY <1>3, <3>1 DEF Without
  <2>2. PICK k \in 1..Len(o) : d[j] = o[k]
    BY <2>1
  <2>3. \E c \in AllCalls, r \in 1..4, n \in 1..Width : o[k] = Row(c, r, n)
    BY <2>2 DEF Chains
  <2> QED BY ONLY <2>2, <2>3
<1>4. ASSUME NEW j \in 1..Len(d), NEW k \in 1..Len(d), NEW p \in Range(d[j]), NEW q \in Range(d[k]), p[1] = q[1]
      PROVE  j = k
  <2> DEFINE at(n) == IF n < i THEN n ELSE n + 1
  <2>1. at(j) \in 1..Len(o) /\ at(k) \in 1..Len(o)
    <3>1. \A n \in 1..Len(d) : at(n) \in 1..Len(o)
      BY <1>1
    <3> QED BY <3>1
  <2>2. d[j] = o[at(j)] /\ d[k] = o[at(k)]
    BY DEF Without
  <2> HIDE DEF at
  <2>3. at(j) = at(k)
    BY <1>4, <2>1, <2>2 DEF Chains
  <2>4. j \in Nat /\ k \in Nat /\ i \in Nat
    BY <1>1, <1>4
  <2> QED BY <2>3, <2>4 DEF at
<1>5. ASSUME NEW x, x \in Elems(d) PROVE x \in Elems(o) /\ x \notin Range(o[i])
  <2>1. PICK j \in 1..Len(d) : x \in Range(d[j])
    BY <1>1, <1>5, ElemFacts
  <2>2. d[j] \in Range(d)
    BY <1>1, RangeFacts
  <2>3. PICK k \in 1..Len(o) : k # i /\ o[k] = d[j]
    BY <1>2, <2>2
  <2>4. x \notin Range(o[i])
    BY <2>1, <2>3 DEF Chains
  <2> QED BY <1>1, <2>1, <2>3, <2>4, ElemFacts
<1>6. ASSUME NEW x \in Elems(o), x \notin Range(o[i]) PROVE x \in Elems(d)
  <2>1. PICK k \in 1..Len(o) : x \in Range(o[k])
    BY <1>1, ElemFacts
  <2>2. o[k] \in Range(d)
    BY <1>2, <1>6, <2>1
  <2>3. PICK j \in 1..Len(d) : d[j] = o[k]
    BY <1>1, <2>2, RangeFacts
  <2> QED BY <1>1, <2>1, <2>3, ElemFacts
<1> QED BY <1>1, <1>3, <1>4, <1>5, <1>6 DEF Chains

\* The sets calls and PDUs come from.
LEMMA Bounds ==
  /\ MaxCalls \in Nat \ {0} /\ Width \in Nat \ {0, 1} /\ Window \in Nat
  /\ Calls \subseteq AllCalls /\ Disconnect \in AllCalls /\ Disconnect \notin Calls
  /\ AllCalls \subseteq Nat \ {0} /\ NoPdu \notin PDUs
  /\ \A p \in PDUs : p[1] \in AllCalls /\ p[2] \in 1..4 /\ p[3] \in 1..Width /\ p = << p[1], p[2], p[3] >>
  /\ \A c \in AllCalls, r \in 1..4, k \in 1..Width : << c, r, k >> \in PDUs
<1>1. NoPdu \notin PDUs
  <2> SUFFICES ASSUME NEW c, NEW r, NEW k, << c, r, k >> = << >> PROVE FALSE
    BY DEF NoPdu, PDUs
  <2>1. Len(<< c, r, k >>) = 3 /\ Len(<< >>) = 0
    OBVIOUS
  <2> QED BY <2>1
<1>2. /\ MaxCalls \in Nat \ {0} /\ Width \in Nat \ {0, 1} /\ Window \in Nat
      /\ Calls \subseteq AllCalls /\ Disconnect \in AllCalls /\ Disconnect \notin Calls
      /\ AllCalls \subseteq Nat \ {0}
  BY SmbPduAssumption DEF Calls, AllCalls, Disconnect
<1> QED BY <1>1, <1>2 DEF PDUs

\* The members of a chain.
LEMMA RowFacts ==
  ASSUME NEW c \in AllCalls, NEW r \in 1..4, NEW n \in 1..Width
  PROVE  /\ Row(c, r, n) \in Seq(PDUs) /\ Len(Row(c, r, n)) = n
         /\ Row(c, r, n) # << >> /\ Row(c, r, n)[1] = << c, r, 1 >>
         /\ Head(Row(c, r, n)) = << c, r, 1 >>
         /\ \A k \in 1..n : Row(c, r, n)[k] = << c, r, k >>
         /\ Range(Row(c, r, n)) = {<< c, r, k >> : k \in 1..n}
<1>2. \A k \in 1..n : << c, r, k >> \in PDUs
  BY Bounds
<1>3. /\ Row(c, r, n) \in [1..n -> PDUs] /\ n \in Nat \ {0}
      /\ \A k \in 1..n : Row(c, r, n)[k] = << c, r, k >>
  BY Bounds, <1>2 DEF Row
<1>4. Row(c, r, n) \in Seq(PDUs) /\ Len(Row(c, r, n)) = n
  BY <1>3
<1>5. Range(Row(c, r, n)) = {<< c, r, k >> : k \in 1..n}
  BY <1>3 DEF Range
<1>6. Row(c, r, n) # << >>
  BY <1>3, <1>4
<1>7. Head(Row(c, r, n)) = Row(c, r, n)[1] /\ Row(c, r, n)[1] = << c, r, 1 >>
  BY <1>3, <1>4, <1>6, TailFacts
<1> QED BY <1>3, <1>4, <1>5, <1>6, <1>7

\* A call has several rounds or several members in a round, and not both.
LEMMA ChainFacts ==
  ASSUME kind \in [AllCalls -> KindNames], NEW c \in AllCalls
  PROVE  /\ Rounds(c) \in 1..4 /\ Members(c) \in 1..Width /\ (Rounds(c) = 1 \/ Members(c) = 1)
         /\ \A r : Chain(c, r) = Row(c, r, Members(c))
<1>1. kind[c] \in KindNames
  OBVIOUS
<1>2. Rounds(c) \in 1..4 /\ Members(c) \in 1..Width /\ (Rounds(c) = 1 \/ Members(c) = 1)
  BY <1>1, Bounds DEF Rounds, Members, KindNames
<1> QED BY <1>2 DEF Chain, Row

\* An out queue to which the chain of another call is added.
LEMMA ChainsAppend ==
  ASSUME NEW o, Chains(o), NEW c \in AllCalls, NEW r \in 1..4, NEW n \in 1..Width,
         \A p \in Elems(o) : p[1] # c
  PROVE  /\ Chains(Append(o, Row(c, r, n)))
         /\ Elems(Append(o, Row(c, r, n))) = Elems(o) \cup Range(Row(c, r, n))
<1> DEFINE ch == Row(c, r, n)
           a == Append(o, ch)
<1>1. ch \in Seq(PDUs) /\ \A p \in Range(ch) : p[1] = c
  BY RowFacts
<1>2. o \in Seq(Seq(PDUs)) /\ Len(o) \in Nat
  BY RangeFacts DEF Chains
<1> HIDE DEF ch
<1>3. /\ a \in Seq(Seq(PDUs)) /\ Len(a) = Len(o) + 1 /\ a[Len(o) + 1] = ch
      /\ \A i \in 1..Len(o) : a[i] = o[i]
  BY <1>1, <1>2, AppendProperties
<1> HIDE DEF a
<1>4. ASSUME NEW i \in 1..Len(a) PROVE i \in 1..Len(o) \/ i = Len(o) + 1
  BY <1>2, <1>3
<1>5. ASSUME NEW i \in 1..Len(a)
      PROVE  \E e \in AllCalls, l \in 1..4, m \in 1..Width : a[i] = Row(e, l, m)
  <2>1. CASE i \in 1..Len(o)
    <3>1. \E e \in AllCalls, l \in 1..4, m \in 1..Width : o[i] = Row(e, l, m)
      BY <2>1 DEF Chains
    <3> QED BY <2>1, <3>1, <1>3
  <2>2. CASE i = Len(o) + 1
    BY <2>2, <1>3 DEF ch
  <2> QED BY <1>4, <2>1, <2>2
<1>6. ASSUME NEW i \in 1..Len(a), NEW j \in 1..Len(a), NEW p \in Range(a[i]), NEW q \in Range(a[j]), p[1] = q[1]
      PROVE  i = j
  <2>1. CASE i \in 1..Len(o) /\ j \in 1..Len(o)
    BY <2>1, <1>3, <1>6 DEF Chains
  <2>2. CASE i \in 1..Len(o) /\ j = Len(o) + 1
    BY <2>2, <1>1, <1>2, <1>3, <1>6, ElemFacts
  <2>3. CASE j \in 1..Len(o) /\ i = Len(o) + 1
    BY <2>3, <1>1, <1>2, <1>3, <1>6, ElemFacts
  <2> QED BY <1>4, <2>1, <2>2, <2>3
<1>7. Elems(a) = Elems(o) \cup Range(ch)
  <2>1. \A x : x \in Elems(a) <=> \E i \in 1..Len(a) : x \in Range(a[i])
    BY <1>3, ElemFacts
  <2>2. \A x : x \in Elems(o) <=> \E i \in 1..Len(o) : x \in Range(o[i])
    BY <1>2, ElemFacts
  <2>3. Len(o) + 1 \in 1..Len(a) /\ \A i \in 1..Len(o) : i \in 1..Len(a)
    BY <1>2, <1>3
  <2>4. \A x : x \in Elems(a) => x \in Elems(o) \/ x \in Range(ch)
    BY <2>1, <2>2, <1>3, <1>4
  <2>5. \A x : x \in Elems(o) \/ x \in Range(ch) => x \in Elems(a)
    BY <2>1, <2>2, <2>3, <1>3
  <2> QED BY <2>4, <2>5
<1> QED BY <1>3, <1>5, <1>6, <1>7 DEF Chains, a, ch

\* A wait queue to which the chain of another call is added.
LEMMA InOrderConcat ==
  ASSUME NEW w, InOrder(w), NEW c \in AllCalls, NEW r \in 1..4, NEW n \in 1..Width,
         \A p \in Range(w) : p[1] # c
  PROVE  /\ InOrder(w \o Row(c, r, n))
         /\ Range(w \o Row(c, r, n)) = Range(w) \cup Range(Row(c, r, n))
<1> DEFINE ch == Row(c, r, n)
<1>1. /\ ch \in Seq(PDUs) /\ Len(ch) \in Nat
      /\ \A k \in 1..Len(ch) : ch[k][1] = c /\ ch[k][3] = k
  <2>1. ch \in Seq(PDUs) /\ Len(ch) = n /\ \A k \in 1..n : ch[k] = << c, r, k >>
    BY RowFacts
  <2> HIDE DEF ch
  <2> QED BY <2>1, Bounds
<1>2. w \in Seq(PDUs) /\ Len(w) \in Nat /\ \A i \in 1..Len(w) : w[i] \in Range(w)
  BY RangeFacts DEF InOrder
<1> HIDE DEF ch
<1>3. /\ w \o ch \in Seq(PDUs) /\ Len(w \o ch) = Len(w) + Len(ch)
      /\ \A i \in 1 .. Len(w) + Len(ch) : (w \o ch)[i] = IF i <= Len(w) THEN w[i] ELSE ch[i - Len(w)]
  BY <1>1, <1>2, ConcatProperties
<1>4. Range(w \o ch) = Range(w) \cup Range(ch)
  BY <1>1, <1>2, RangeConcatenation
<1>5. ASSUME NEW i \in 1..Len(w \o ch), NEW j \in 1..Len(w \o ch), i < j, (w \o ch)[i][1] = (w \o ch)[j][1]
      PROVE  (w \o ch)[i][3] < (w \o ch)[j][3]
  <2>1. i \in 1..(Len(w) + Len(ch)) /\ j \in 1..(Len(w) + Len(ch))
    BY <1>3
  <2>2. CASE j <= Len(w)
    <3>1. i \in 1..Len(w) /\ j \in 1..Len(w) /\ (w \o ch)[i] = w[i] /\ (w \o ch)[j] = w[j]
      BY <2>1, <2>2, <1>2, <1>3, <1>5
    <3> QED BY <3>1, <1>5 DEF InOrder
  <2>3. CASE i <= Len(w) /\ ~(j <= Len(w))
    <3>1. i \in 1..Len(w) /\ j - Len(w) \in 1..Len(ch) /\ (w \o ch)[i] = w[i] /\ (w \o ch)[j] = ch[j - Len(w)]
      BY <2>1, <2>3, <1>1, <1>2, <1>3
    <3> QED BY <3>1, <1>1, <1>2, <1>5
  <2>4. CASE ~(i <= Len(w)) /\ ~(j <= Len(w))
    <3>1. /\ i - Len(w) \in 1..Len(ch) /\ j - Len(w) \in 1..Len(ch)
          /\ (w \o ch)[i] = ch[i - Len(w)] /\ (w \o ch)[j] = ch[j - Len(w)]
      BY <2>1, <2>4, <1>1, <1>2, <1>3
    <3>2. ch[i - Len(w)][3] = i - Len(w) /\ ch[j - Len(w)][3] = j - Len(w)
      BY <3>1, <1>1
    <3> QED BY <3>1, <3>2, <1>2, <1>5
  <2> QED BY <2>1, <2>2, <2>3, <2>4, <1>2, <1>5
<1> QED BY <1>3, <1>4, <1>5 DEF InOrder, ch

\* Sending the first chain keeps the queues in order and loses nothing (smb2_write_to_socket).
LEMMA Sending ==
  ASSUME NEW o, NEW w, NEW C, QueuesOf(o, w, C), o # << >>
  PROVE  /\ \E c \in AllCalls, r \in 1..4, n \in 1..Width : Head(o) = Row(c, r, n)
         /\ QueuesOf(Tail(o), w \o Head(o), C)
         /\ Elems(Tail(o)) \cup Range(w \o Head(o)) = Elems(o) \cup Range(w)
<1>1. o \in Seq(Seq(PDUs)) /\ Chains(o) /\ InOrder(w)
  BY DEF QueuesOf, Chains
<1>2. /\ Without(Seq(PDUs), o, Tail(o), 1) /\ 1 \in 1..Len(o) /\ Head(o) = o[1]
      /\ Range(Head(o)) \subseteq Elems(o)
  BY <1>1, TailFacts, ElemFacts
<1>3. Chains(Tail(o)) /\ Elems(Tail(o)) = Elems(o) \ Range(Head(o))
  BY <1>1, <1>2, ChainsWithout
<1>4. PICK c \in AllCalls, r \in 1..4, n \in 1..Width : Head(o) = Row(c, r, n)
  BY <1>1, <1>2 DEF Chains
<1>5. \A p \in Range(Head(o)) : p[1] = c
  BY <1>4, RowFacts
<1>6. << c, r, 1 >> \in Range(Head(o))
  <2>1. 1 \in 1..n
    BY Bounds
  <2> QED BY <1>4, <2>1, RowFacts
<1>7. \A p \in Range(w) \cup C : p[1] # c
  BY <1>2, <1>6 DEF QueuesOf
<1>8. InOrder(w \o Head(o)) /\ Range(w \o Head(o)) = Range(w) \cup Range(Head(o))
  BY <1>1, <1>4, <1>7, InOrderConcat
<1>9. \A p \in Elems(Tail(o)) : p[1] # c
  <2> SUFFICES ASSUME NEW p \in Elems(Tail(o)), p[1] = c PROVE FALSE
    OBVIOUS
  <2>1. p \in Elems(o) /\ p \notin Range(o[1])
    BY <1>2, <1>3
  <2>2. PICK i \in 1..Len(o) : p \in Range(o[i])
    BY <1>1, <2>1, ElemFacts
  <2>3. i = 1
    BY <1>1, <1>2, <1>5, <1>6, <2>2 DEF Chains
  <2> QED BY <2>1, <2>2, <2>3
<1>10. QueuesOf(Tail(o), w \o Head(o), C)
  BY <1>3, <1>5, <1>7, <1>8, <1>9 DEF QueuesOf
<1> QED BY <1>2, <1>3, <1>4, <1>8, <1>10

\* So does queueing a chain of a call that has nothing outstanding.
LEMMA Queueing ==
  ASSUME NEW o, NEW w, NEW C, QueuesOf(o, w, C), NEW c \in AllCalls, NEW r \in 1..4, NEW n \in 1..Width,
         \A p \in Elems(o) \cup Range(w) \cup C : p[1] # c
  PROVE  /\ QueuesOf(Append(o, Row(c, r, n)), w, C)
         /\ Elems(Append(o, Row(c, r, n))) = Elems(o) \cup Range(Row(c, r, n))
<1>1. /\ Chains(Append(o, Row(c, r, n)))
      /\ Elems(Append(o, Row(c, r, n))) = Elems(o) \cup Range(Row(c, r, n))
  BY ChainsAppend DEF QueuesOf
<1>2. \A p \in Range(Row(c, r, n)) : p[1] = c
  BY RowFacts
<1> QED BY <1>1, <1>2 DEF QueuesOf

\* So does taking one PDU out of the wait queue.
LEMMA DroppingOne ==
  ASSUME NEW o, NEW w, NEW C, QueuesOf(o, w, C), NEW p
  PROVE  QueuesOf(o, Dequeued(w, p), C) /\ Range(Dequeued(w, p)) = Range(w) \ {p}
<1>1. w \in Seq(PDUs) /\ InOrder(w)
  BY DEF QueuesOf, InOrder
<1>2. CASE p \in Range(w)
  <2>1. PICK i \in 1..Len(w) : w[i] = p
    BY <1>1, <1>2, RangeFacts
  <2>2. \A j \in 1..Len(w) : w[j] = w[i] => j = i
    BY <1>1, Distinct
  <2>3. Without(PDUs, w, Dequeued(w, p), i)
    BY <1>1, <2>1, <2>2, RemoveFacts DEF Without
  <2>4. InOrder(Dequeued(w, p)) /\ Range(Dequeued(w, p)) = Range(w) \ {p}
    BY <1>1, <2>1, <2>3, InOrderWithout
  <2> QED BY <2>4 DEF QueuesOf
<1>3. CASE p \notin Range(w)
  <2>1. Dequeued(w, p) = w
    BY <1>1, <1>3, NotThere, RangeFacts
  <2> QED BY <1>3, <2>1
<1> QED BY <1>2, <1>3

\* Reading the header of a reply to the first PDU of its call.
LEMMA Taking ==
  ASSUME NEW o, NEW w, QueuesOf(o, w, {}), NEW p \in Range(w),
         \A q \in Range(w) : q[1] = p[1] => q[3] >= p[3]
  PROVE  QueuesOf(o, Dequeued(w, p), {p}) /\ Range(Dequeued(w, p)) = Range(w) \ {p}
<1>1. w \in Seq(PDUs) /\ InOrder(w)
  BY DEF QueuesOf, InOrder
<1>2. PICK i \in 1..Len(w) : w[i] = p
  BY <1>1, RangeFacts
<1>5. QueuesOf(o, Dequeued(w, p), {}) /\ Range(Dequeued(w, p)) = Range(w) \ {p}
  BY DroppingOne
<1>6. p \in PDUs /\ Range(w) \subseteq PDUs
  BY <1>1, RangeFacts
<1>7. \A q \in Range(w) \ {p} : q[1] = p[1] => p[3] < q[3]
  <2> SUFFICES ASSUME NEW q \in Range(w), q # p, q[1] = p[1] PROVE p[3] < q[3]
    OBVIOUS
  <2>1. PICK j \in 1..Len(w) : w[j] = q
    BY <1>1, RangeFacts
  <2>2. i < j \/ j < i
    BY <1>1, <1>2, <2>1
  <2>3. p[3] < q[3] \/ q[3] < p[3]
    BY <1>1, <1>2, <2>1, <2>2 DEF InOrder
  <2>4. q[3] >= p[3] /\ q[3] \in Nat /\ p[3] \in Nat
    BY <1>6, Bounds
  <2> QED BY <2>3, <2>4
<1> QED BY <1>5, <1>6, <1>7 DEF QueuesOf

\* Taking a chain out of the out queue.
LEMMA DroppingChain ==
  ASSUME NEW o, NEW w, NEW C, QueuesOf(o, w, C), NEW i \in 1..Len(o), NEW d, Without(Seq(PDUs), o, d, i)
  PROVE  QueuesOf(d, w, C) /\ Elems(d) = Elems(o) \ Range(o[i])
<1>1. Chains(d) /\ Elems(d) = Elems(o) \ Range(o[i])
  BY ChainsWithout DEF QueuesOf
<1> QED BY <1>1 DEF QueuesOf
-----------------------------------------------------------------------------
(* What is outstanding *)

\* What is left when the first PDUs of a call are gone is still the rest of a round.
LEMMA RestShrinks ==
  ASSUME NEW X, RestOf(X), X \subseteq PDUs, NEW Y \in SUBSET X,
         \A p \in Y, q \in X \ Y : p[1] = q[1] => q[3] < p[3]
  PROVE  RestOf(Y)
<1>1. ASSUME NEW p \in Y, p[3] < Members(p[1]) PROVE \E q \in Y : q[1] = p[1] /\ q[3] = p[3] + 1
  <2>1. PICK q \in X : q[1] = p[1] /\ q[3] = p[3] + 1
    BY <1>1 DEF RestOf
  <2>2. p[3] \in Nat
    BY Bounds
  <2> QED BY <2>1, <2>2
<1> QED BY <1>1 DEF RestOf

\* The states the steps below start from.
LEMMA Known ==
  ASSUME IInv
  PROVE  /\ Waiting \subseteq PDUs /\ Unsent \subseteq PDUs /\ Current \subseteq PDUs
         /\ Outstanding \subseteq PDUs /\ Unsent = Elems(outqueue)
         /\ outqueue \in Seq(Seq(PDUs)) /\ waitqueue \in Seq(PDUs)
         /\ kind \in [AllCalls -> KindNames] /\ call \in [AllCalls -> CallRecords]
         /\ pdu \in (PDUs \cup {NoPdu}) \X {"ok", "fail"}
         /\ \A c \in AllCalls : Rounds(c) \in 1..4 /\ Members(c) \in 1..Width /\ (Rounds(c) = 1 \/ Members(c) = 1)
         /\ QueuesOf(outqueue, waitqueue, Current) /\ RestOf(Outstanding)
<1>1. /\ outqueue \in Seq(Seq(PDUs)) /\ waitqueue \in Seq(PDUs) /\ Unsent = Elems(outqueue)
      /\ kind \in [AllCalls -> KindNames] /\ pdu \in (PDUs \cup {NoPdu}) \X {"ok", "fail"}
      /\ QueuesOf(outqueue, waitqueue, Current) /\ RestOf(Outstanding)
  BY DEF IInv, Types, Queues, QueuesOf, Chains, InOrder, Elems, Unsent, Rest
<1>2. call \in [AllCalls -> CallRecords]
  BY DEF IInv, Types, TypeOK, CallRecords
<1>3. Waiting \subseteq PDUs /\ Unsent \subseteq PDUs
  BY <1>1, RangeFacts, ElemFacts DEF Waiting
<1>4. Current \subseteq PDUs
  BY <1>1 DEF Current
<1> QED BY <1>1, <1>2, <1>3, <1>4, ChainFacts DEF Outstanding

\* What is outstanding is a PDU of a call, with numbers for its round and place.
LEMMA Numbers ==
  ASSUME IInv
  PROVE  \A q \in Outstanding : q \in PDUs /\ q[1] \in AllCalls /\ q[2] \in Nat /\ q[3] \in Nat
<1>1. \A q \in Outstanding : q \in PDUs
  BY Known
<1>2. \A q \in PDUs : q[1] \in AllCalls /\ q[2] \in Nat /\ q[3] \in Nat
  BY Bounds
<1> QED BY <1>1, <1>2

\* What a callback does to its call and to the record of freed objects used.
LEMMA Callbacks ==
  ASSUME kind \in [AllCalls -> KindNames], call \in [AllCalls -> CallRecords], NEW p \in PDUs, NEW st \in Status,
         NEW used, Callback(p, st, used), kind[p[1]] # "none"
  PROVE  /\ call' \in [AllCalls -> CallRecords]
         /\ \A c \in AllCalls : c # p[1] => call'[c] = call[c]
         /\ call'[p[1]].gave = call[p[1]].gave /\ call'[p[1]].result = call[p[1]].result
         /\ call'[p[1]].cb = "freed" => call[p[1]].cb = "freed" \/ call[p[1]].gave
         /\ Ends(p, st) => call'[p[1]].op \in {"ready", "freed"}
         /\ Ends(p, st) /\ call'[p[1]].op = "ready" =>
              FirstFailure(p[1], st) = "ok" /\ kind[p[1]] \in {"open", "list"}
         /\ ~Ends(p, st) =>
              /\ call'[p[1]].op = call[p[1]].op /\ call'[p[1]].cb = call[p[1]].cb
              /\ call'[p[1]].done = call[p[1]].done
              /\ call'[p[1]].status = FirstFailure(p[1], st)
         /\ Ends(p, st) /\ ~call[p[1]].gave /\ st # "shutdown" =>
              call'[p[1]].done /\ call'[p[1]].status = FirstFailure(p[1], st)
         /\ call[p[1]].op = "live" /\ (call[p[1]].cb = "freed" => ~TouchesCb(p[1], st)) =>
              stale' = stale \cup used
         /\ call[p[1]].op = "live" =>
              \A x \in stale' : x \in stale \/ x \in used
                 \/ (x = << "cb", p[1] >> /\ call[p[1]].cb = "freed")
<1> DEFINE c == p[1]
           s == FirstFailure(c, st)
           d == call[c]
<1>1. c \in AllCalls /\ d \in CallRecords /\ kind[c] \in KindNames \ {"none"} /\ s \in Status
  BY Bounds DEF FirstFailure, CallRecords
<1>2. /\ SyncCallback(c, s, st) \in CallRecords
      /\ SyncCallback(c, s, st).gave = d.gave /\ SyncCallback(c, s, st).result = d.result
      /\ SyncCallback(c, s, st).cb = "freed" => d.cb = "freed" \/ d.gave
      /\ ~d.gave /\ st # "shutdown" => SyncCallback(c, s, st).done /\ SyncCallback(c, s, st).status = s
  <2>1. d.done \in BOOLEAN /\ d.gave \in BOOLEAN
    BY <1>1 DEF CallRecords
  <2>2. CASE kind[c] \in {"connect", "disconnect"}
    BY <1>1, <2>1, <2>2 DEF SyncCallback, CallRecords
  <2>3. CASE kind[c] \in {"data", "change"}
    BY <1>1, <2>1, <2>3 DEF SyncCallback, CallRecords
  <2>4. CASE kind[c] = "open"
    BY <1>1, <2>1, <2>4 DEF SyncCallback, CallRecords
  <2>5. CASE kind[c] = "list"
    BY <1>1, <2>1, <2>5 DEF SyncCallback, CallRecords
  <2>6. CASE kind[c] = "close"
    BY <1>1, <2>1, <2>6 DEF SyncCallback, CallRecords
  <2> QED BY <1>1, <2>2, <2>3, <2>4, <2>5, <2>6 DEF KindNames
<1> DEFINE over == [SyncCallback(c, s, st) EXCEPT !.op = IF s = "ok" /\ kind[c] \in {"open", "list"} THEN "ready" ELSE "freed"]
           early == [d EXCEPT !.status = s]
<1>3. call' = [call EXCEPT ![c] = IF Ends(p, st) THEN over ELSE early]
  BY DEF Callback
<1>4. stale' = stale \cup used \cup {x \in {<< "op", c >>} : d.op = "freed"}
                \cup {x \in {<< "cb", c >>} : Ends(p, st) /\ d.cb = "freed" /\ TouchesCb(c, st)}
  BY DEF Callback
<1>5. over \in CallRecords /\ over.gave = d.gave /\ over.result = d.result
      /\ over.op = (IF s = "ok" /\ kind[c] \in {"open", "list"} THEN "ready" ELSE "freed")
      /\ over.cb = SyncCallback(c, s, st).cb /\ over.done = SyncCallback(c, s, st).done
      /\ over.status = SyncCallback(c, s, st).status
  <2> HIDE DEF s
  <2>1. PICK e \in CallRecords : e = SyncCallback(c, s, st)
    BY <1>2
  <2> QED BY <1>2, <2>1 DEF CallRecords
<1>6. early \in CallRecords /\ early.gave = d.gave /\ early.result = d.result /\ early.op = d.op
      /\ early.cb = d.cb /\ early.done = d.done /\ early.status = s
  <2> HIDE DEF s
  <2> QED BY <1>1 DEF CallRecords
<1>7. call'[c] = IF Ends(p, st) THEN over ELSE early
  BY <1>1, <1>3
<1>8. /\ call' \in [AllCalls -> CallRecords]
      /\ \A e \in AllCalls : e # c => call'[e] = call[e]
  <2> HIDE DEF over, early, c, d, s
  <2> QED BY <1>1, <1>3, <1>5, <1>6
<1>9. /\ d.op = "live" /\ (d.cb = "freed" => ~TouchesCb(c, st)) => stale' = stale \cup used
      /\ d.op = "live" =>
           \A x \in stale' : x \in stale \/ x \in used \/ (x = << "cb", c >> /\ d.cb = "freed")
  BY <1>4
<1> HIDE DEF over, early
<1> QED BY <1>2, <1>5, <1>6, <1>7, <1>8, <1>9
-----------------------------------------------------------------------------
(* A new call *)

\* The call in progress has been made.
LEMMA NowMade ==
  ASSUME IInv, mode = "wait"
  PROVE  now \in Calls /\ now \in AllCalls /\ now # Disconnect /\ kind[now] \in KindNames \ {"none", "disconnect"}
<1>1. now \in Calls
  BY DEF IInv, Types, TypeOK, Awaiting, Calls
<1>2. now \in AllCalls /\ now # Disconnect /\ now \in Nat
  BY <1>1, Bounds
<1>3. kind[now] \in KindNames /\ kind[now] # "disconnect" /\ (kind[now] = "none" <=> now > now)
  BY <1>1, <1>2 DEF IInv, Types, Made
<1> QED BY <1>1, <1>2, <1>3

\* What may be used although it was freed stays what it is.
LEMMA ExceptedKept ==
  ASSUME \A c \in AllCalls : kind[c] # "none" => kind'[c] = kind[c],
         \A c \in AllCalls : call[c].gave => call'[c].gave,
         \A c \in AllCalls : call[c].result = "polled" => call'[c].result = "polled"
  PROVE  Excepted \subseteq Excepted'
<1>1. \A p \in PDUs : p[1] \in AllCalls
  BY Bounds
<1>2. \A p \in PDUs : CallerFrees(p) /\ call[p[1]].gave => CallerFrees(p)' /\ call'[p[1]].gave
  BY <1>1 DEF CallerFrees
<1>3. \A c \in Calls : kind[c] \in {"list", "close"} /\ call[c].result = "polled" =>
                       kind'[c] \in {"list", "close"} /\ call'[c].result = "polled"
  BY Bounds
<1>4. \A c \in Calls : kind[c] = "data" /\ call[c].result = "polled" =>
                       kind'[c] = "data" /\ call'[c].result = "polled"
  BY Bounds
<1> QED BY <1>2, <1>3, <1>4 DEF Excepted

\* On a line that is up a call given up was given up by poll: its buffer, and the
\* callback data of a list or a close, are among what is excepted.
LEMMA LateUse ==
  ASSUME IInv, line = "up", kind[Disconnect] = "none", NEW c \in AllCalls, kind[c] # "none"
  PROVE  /\ Released(c) \subseteq Excepted
         /\ call[c].gave /\ kind[c] \in {"list", "close"} => << "cb", c >> \in Excepted
<1>1. c \in Calls
  BY DEF AllCalls
<1>2. call[c].gave => call[c].result = "polled"
  BY DEF IInv, GivenUp
<1> QED BY <1>1, <1>2 DEF Released, Excepted

\* Naming the kind of one call leaves the other calls alone.
LEMMA KindKept ==
  ASSUME kind \in [AllCalls -> KindNames], NEW c \in AllCalls, NEW k \in KindNames,
         kind' = [kind EXCEPT ![c] = k]
  PROVE  /\ kind' \in [AllCalls -> KindNames] /\ kind'[c] = k
         /\ \A e \in AllCalls : e # c =>
              /\ kind'[e] = kind[e] /\ Rounds(e)' = Rounds(e) /\ Members(e)' = Members(e)
         /\ \A p \in PDUs : p[1] # c => CallerFrees(p)' = CallerFrees(p)
         /\ Rounds(c)' \in 1..4 /\ Members(c)' \in 1..Width
         /\ Members(c)' = IF k = "change" THEN Width ELSE 1
<1>1. kind' \in [AllCalls -> KindNames] /\ kind'[c] = k /\ \A e \in AllCalls : e # c => kind'[e] = kind[e]
  OBVIOUS
<1>2. \A p \in PDUs : p[1] \in AllCalls
  BY Bounds
<1>3. Rounds(c)' \in 1..4 /\ Members(c)' \in 1..Width /\ Members(c)' = IF k = "change" THEN Width ELSE 1
  BY <1>1, Bounds DEF Rounds, Members, KindNames
<1> QED BY <1>1, <1>2, <1>3 DEF Rounds, Members, CallerFrees

\* A call made of a chain of its first round is well begun.
LEMMA Beginning ==
  ASSUME IInv, NEW c \in AllCalls, kind[c] = "none", NEW k \in KindNames \ {"none"},
         kind' = [kind EXCEPT ![c] = k], NEW n \in 1..Width, n = Members(c)',
         call' = [call EXCEPT ![c] = NewCall(k)], Current' = Current,
         Outstanding' = Outstanding \cup Range(Row(c, 1, n)),
         Waiting' \cup Unsent' = Waiting \cup Unsent \cup Range(Row(c, 1, n)),
         life' = [p \in PDUs |-> IF p \in Range(Row(c, 1, n)) THEN "live" ELSE life[p]],
         stale' = stale, answered' = answered, line' = line, mode = "idle"
  PROVE  /\ call' \in [AllCalls -> CallRecords] /\ life' \in [PDUs -> {"none", "live", "freed"}]
         /\ \A p \in Outstanding : p[1] # c
         /\ \A p \in Range(Row(c, 1, n)) : p \in PDUs /\ p[1] = c /\ p[2] = 1
         /\ << c, 1, 1 >> \in Outstanding'
         /\ Rest' /\ Owned' /\ GivenUp' /\ Heard' /\ Ready'
<1>1. \A p \in Outstanding : p[1] # c
  BY DEF IInv, Rest, RestOf
<1>2. /\ \A p \in Range(Row(c, 1, n)) : p \in PDUs /\ p[1] = c /\ p[2] = 1 /\ p[3] \in 1..n
      /\ \A i \in 1..n : << c, 1, i >> \in Range(Row(c, 1, n))
      /\ n \in Nat /\ 1 \in 1..n
  <2>1. n \in Nat /\ 1 \in 1..n /\ \A i \in 1..n : i \in 1..Width
    BY Bounds
  <2>2. Range(Row(c, 1, n)) = {<< c, 1, i >> : i \in 1..n}
    BY RowFacts
  <2>3. \A i \in 1..n : << c, 1, i >> \in PDUs
    BY <2>1, Bounds
  <2> QED BY <2>1, <2>2, <2>3
<1>3. /\ kind' \in [AllCalls -> KindNames] /\ kind'[c] = k
      /\ \A e \in AllCalls : e # c => kind'[e] = kind[e] /\ Rounds(e)' = Rounds(e) /\ Members(e)' = Members(e)
      /\ \A p \in PDUs : p[1] # c => CallerFrees(p)' = CallerFrees(p)
      /\ Rounds(c)' \in 1..4 /\ Members(c)' \in 1..Width
  BY Known, KindKept
<1>4. NewCall(k) \in CallRecords /\ NewCall(k).op = "live" /\ NewCall(k).cb # "freed" /\ ~NewCall(k).gave
  BY DEF NewCall, CallRecords, Status
<1>5. /\ call' \in [AllCalls -> CallRecords] /\ call'[c] = NewCall(k)
      /\ \A e \in AllCalls : e # c => call'[e] = call[e]
  BY <1>4, Known
<1>6. life' \in [PDUs -> {"none", "live", "freed"}]
  BY DEF IInv, Types, TypeOK
<1>7. \A p \in Outstanding : p \in PDUs /\ p[1] \in AllCalls /\ p[1] # c
  BY <1>1, Numbers
<1>8. Rest'
  <2>1. \A p \in Outstanding' :
          kind'[p[1]] # "none" /\ p[2] <= Rounds(p[1])' /\ p[3] <= Members(p[1])'
    <3>1. ASSUME NEW p \in Outstanding
          PROVE  kind'[p[1]] # "none" /\ p[2] <= Rounds(p[1])' /\ p[3] <= Members(p[1])'
      BY <1>3, <1>7 DEF IInv, Rest, RestOf
    <3>2. ASSUME NEW p \in Range(Row(c, 1, n))
          PROVE  kind'[p[1]] # "none" /\ p[2] <= Rounds(p[1])' /\ p[3] <= Members(p[1])'
      BY <1>2, <1>3
    <3> QED BY <3>1, <3>2
  <2>2. \A p, q \in Outstanding' : p[1] = q[1] => p[2] = q[2]
    BY <1>2, <1>7 DEF IInv, Rest, RestOf
  <2>3. ASSUME NEW p \in Outstanding', p[3] < Members(p[1])'
        PROVE  \E q \in Outstanding' : q[1] = p[1] /\ q[3] = p[3] + 1
    <3>1. CASE p \in Outstanding
      <4>1. \E q \in Outstanding : q[1] = p[1] /\ q[3] = p[3] + 1
        BY <3>1, <2>3, <1>3, <1>7 DEF IInv, Rest, RestOf
      <4> QED BY <4>1
    <3>2. CASE p \in Range(Row(c, 1, n))
      <4>1. p[1] = c /\ p[3] \in 1..n /\ p[3] + 1 \in 1..n
        BY <3>2, <2>3, <1>2
      <4>2. << c, 1, p[3] + 1 >> \in Outstanding'
        BY <4>1, <1>2
      <4> QED BY <4>1, <4>2
    <3> QED BY <3>1, <3>2
  <2> QED BY <2>1, <2>2, <2>3 DEF Rest, RestOf
<1>9. Owned'
  <2>1. \A p \in (Waiting \cup Unsent)' : life'[p] = "live"
    <3>1. (Waiting \cup Unsent)' = Waiting \cup Unsent \cup Range(Row(c, 1, n)) /\ Waiting \cup Unsent \subseteq PDUs
      BY Known
    <3> QED BY <3>1, <1>2 DEF IInv, Owned
  <2>2. \A p \in Current' :
          life'[p] = "live" \/ (life'[p] = "freed" /\ CallerFrees(p)' /\ call'[p[1]].gave)
    <3>1. \A p \in Current :
            life'[p] = life[p] /\ CallerFrees(p)' = CallerFrees(p) /\ call'[p[1]] = call[p[1]]
      BY <1>2, <1>3, <1>5, <1>7, Known DEF Outstanding
    <3> QED BY <3>1 DEF IInv, Owned
  <2>3. ASSUME NEW p \in Outstanding'
        PROVE  /\ call'[p[1]].op = "live"
               /\ call'[p[1]].cb = "freed" => call'[p[1]].gave /\ kind'[p[1]] \in {"list", "close"}
    <3>1. CASE p \in Outstanding
      <4>1. /\ call[p[1]].op = "live"
            /\ call[p[1]].cb = "freed" => call[p[1]].gave /\ kind[p[1]] \in {"list", "close"}
        BY <3>1 DEF IInv, Owned
      <4>2. call'[p[1]] = call[p[1]] /\ kind'[p[1]] = kind[p[1]]
        BY <3>1, <1>3, <1>5, <1>7
      <4> QED BY <4>1, <4>2
    <3>2. CASE p \in Range(Row(c, 1, n))
      BY <3>2, <1>2, <1>4, <1>5
    <3> QED BY <3>1, <3>2
  <2>4. stale' \subseteq Excepted'
    <3>1. call[c] = NotMade /\ NotMade.result # "polled" /\ ~NotMade.gave
      BY DEF IInv, Made, NotMade
    <3>2. Excepted \subseteq Excepted'
      BY <3>1, <1>3, <1>5, ExceptedKept
    <3> QED BY <3>2 DEF IInv, Owned
  <2> QED BY <2>1, <2>2, <2>3, <2>4 DEF Owned
<1>10. << c, 1, 1 >> \in Outstanding'
  BY <1>2
<1>11. Heard'
  <2>1. ASSUME NEW e \in AllCalls, call'[e].op = "live"
        PROVE  Forgotten(e)' \/ \E p \in Outstanding' : p[1] = e
    <3>1. CASE e = c
      BY <3>1, <1>10
    <3>2. CASE e # c
      <4>1. Forgotten(e) \/ \E p \in Outstanding : p[1] = e
        BY <2>1, <3>2, <1>5 DEF IInv, Heard
      <4>2. call'[e] = call[e] /\ kind'[e] = kind[e]
        BY <3>2, <1>3, <1>5
      <4> QED BY <4>1, <4>2 DEF Forgotten
    <3> QED BY <3>1, <3>2
  <2> QED BY <2>1 DEF Heard
<1>12. GivenUp'
  BY <1>4, <1>5 DEF IInv, GivenUp
<1>13. Ready'
  <2> SUFFICES ASSUME NEW e \in AllCalls, call'[e].op = "ready" PROVE LeftReady(e)'
    BY DEF Ready
  <2>1. e # c /\ call'[e] = call[e]
    BY <1>4, <1>5
  <2>2. kind[e] \in {"open", "list"} /\ answered[e] = Rounds(e) /\ call[e].gave
    BY <2>1 DEF IInv, Ready, LeftReady
  <2> QED BY <2>1, <2>2, <1>3 DEF LeftReady
<1> QED BY <1>1, <1>2, <1>5, <1>6, <1>8, <1>9, <1>10, <1>11, <1>12, <1>13

\* A call of the Kotlin side allocates its data and queues its first chain.
LEMMA Issuing ==
  ASSUME IInv, NEW k \in Kinds \cup {"connect"}, Issue(k)
  PROVE  IInv'
<1>0. PICK c \in Calls : c = now + 1
  <2>1. now \in 0..MaxCalls /\ now < MaxCalls
    BY DEF Issue, IInv, Types, TypeOK
  <2> QED BY <2>1, Bounds DEF Calls
<1> DEFINE n == IF k = "change" THEN Width ELSE 1
           ch == Row(c, 1, n)
<1>1. /\ c \in AllCalls /\ c # 0 /\ c # Disconnect /\ kind[c] = "none" /\ mode = "idle"
      /\ call[c] = NotMade /\ answered[c] = 0 /\ now \in Nat
  <2>1. c \in AllCalls /\ c # 0 /\ c # Disconnect /\ now \in Nat /\ c > now
    BY <1>0, Bounds DEF IInv, Types, TypeOK
  <2>2. kind[c] = "none"
    BY <2>1 DEF IInv, Made
  <2>3. mode = "idle"
    BY DEF Issue
  <2> QED BY <2>1, <2>2, <2>3 DEF IInv, Made
<1>2. /\ k \in KindNames \ {"none"} /\ k # "disconnect" /\ n \in 1..Width
      /\ kind' = [kind EXCEPT ![c] = k] /\ call' = [call EXCEPT ![c] = NewCall(k)]
      /\ now' = c /\ mode' = "wait" /\ answered' = answered /\ stale' = stale
      /\ waitqueue' = waitqueue /\ pdu' = pdu /\ line' = line /\ credits' = credits
      /\ strays' = strays
  <2>1. k \in KindNames \ {"none"} /\ k # "disconnect"
    BY SmbPduAssumption DEF KindNames
  <2>2. n \in 1..Width
    BY Bounds
  <2> QED BY <1>0, <2>1, <2>2 DEF Issue
<1>3. outqueue' = Append(outqueue, ch)
  BY <1>0 DEF Issue, Row
<1>4. ch \in Seq(PDUs) /\ ch # << >> /\ outqueue \in Seq(Seq(PDUs))
  <2> HIDE DEF n
  <2>1. 1 \in 1..4
    OBVIOUS
  <2> QED BY <1>1, <1>2, <2>1, RowFacts, Known
<1>5. Last(outqueue') = ch
  <2> HIDE DEF ch
  <2>1. Len(Append(outqueue, ch)) = Len(outqueue) + 1 /\ Append(outqueue, ch)[Len(outqueue) + 1] = ch
    BY <1>4, AppendProperties
  <2> QED BY <1>3, <2>1 DEF Last
<1>6. life' = [p \in PDUs |-> IF p \in Range(ch) THEN "live" ELSE life[p]]
  BY <1>5 DEF Issue
<1>7. \A p \in Outstanding : p[1] # c
  BY <1>1 DEF IInv, Rest, RestOf
<1>8. QueuesOf(outqueue', waitqueue, Current) /\ Elems(outqueue') = Elems(outqueue) \cup Range(ch)
  <2>1. \A p \in Elems(outqueue) \cup Range(waitqueue) \cup Current : p[1] # c
    BY <1>7, Known DEF Outstanding, Waiting
  <2> QED BY <1>1, <1>2, <1>3, <2>1, Known, Queueing
<1>9. /\ Unsent' = Unsent \cup Range(ch) /\ Waiting' = Waiting /\ Current' = Current
      /\ Outstanding' = Outstanding \cup Range(ch)
      /\ Waiting' \cup Unsent' = Waiting \cup Unsent \cup Range(ch)
  <2>1. Unsent' = Unsent \cup Range(ch)
    BY <1>8, Known DEF Unsent, Elems
  <2> QED BY <1>2, <2>1 DEF Waiting, Current, Outstanding
<1>10. /\ kind' \in [AllCalls -> KindNames] /\ kind'[c] = k /\ n = Members(c)'
       /\ \A e \in AllCalls : e # c => kind'[e] = kind[e] /\ Rounds(e)' = Rounds(e) /\ Members(e)' = Members(e)
       /\ \A p \in PDUs : p[1] # c => CallerFrees(p)' = CallerFrees(p)
  BY <1>1, <1>2, Known, KindKept
<1>11. /\ call' \in [AllCalls -> CallRecords] /\ life' \in [PDUs -> {"none", "live", "freed"}]
       /\ \A p \in Range(ch) : p \in PDUs /\ p[1] = c /\ p[2] = 1
       /\ << c, 1, 1 >> \in Outstanding'
       /\ Rest' /\ Owned' /\ GivenUp' /\ Heard' /\ Ready'
  <2>1. PICK m \in 1..Width : m = n
    BY <1>2
  <2>2. /\ life' = [p \in PDUs |-> IF p \in Range(Row(c, 1, m)) THEN "live" ELSE life[p]]
        /\ Outstanding' = Outstanding \cup Range(Row(c, 1, m)) /\ m = Members(c)'
        /\ Waiting' \cup Unsent' = Waiting \cup Unsent \cup Range(Row(c, 1, m))
    BY <2>1, <1>6, <1>9, <1>10
  <2>3. /\ call' \in [AllCalls -> CallRecords] /\ life' \in [PDUs -> {"none", "live", "freed"}]
        /\ \A p \in Range(Row(c, 1, m)) : p \in PDUs /\ p[1] = c /\ p[2] = 1
        /\ << c, 1, 1 >> \in Outstanding'
        /\ Rest' /\ Owned' /\ GivenUp' /\ Heard' /\ Ready'
    <3> HIDE DEF n
    <3>1. /\ IInv /\ c \in AllCalls /\ kind[c] = "none" /\ k \in KindNames \ {"none"}
          /\ kind' = [kind EXCEPT ![c] = k] /\ m \in 1..Width /\ m = Members(c)'
          /\ call' = [call EXCEPT ![c] = NewCall(k)] /\ Current' = Current
          /\ Outstanding' = Outstanding \cup Range(Row(c, 1, m))
          /\ Waiting' \cup Unsent' = Waiting \cup Unsent \cup Range(Row(c, 1, m))
          /\ life' = [p \in PDUs |-> IF p \in Range(Row(c, 1, m)) THEN "live" ELSE life[p]]
          /\ stale' = stale /\ answered' = answered /\ line' = line /\ mode = "idle"
      BY <1>1, <1>2, <1>9, <2>2
    <3>2. Heard' /\ Rest' /\ Owned' /\ GivenUp' /\ Ready'
      BY ONLY <3>1, Beginning
    <3>3. call' \in [AllCalls -> CallRecords] /\ life' \in [PDUs -> {"none", "live", "freed"}]
      BY ONLY <3>1, Beginning
    <3>4. << c, 1, 1 >> \in Outstanding' /\ \A p \in Range(Row(c, 1, m)) : p \in PDUs /\ p[1] = c /\ p[2] = 1
      <4>1. 1 \in 1..m /\ (\A i \in 1..m : i \in 1..Width) /\ 1 \in 1..4
        BY Bounds
      <4>2. Range(Row(c, 1, m)) = {<< c, 1, i >> : i \in 1..m}
        BY ONLY <3>1, <4>1, RowFacts
      <4>3. \A p \in Range(Row(c, 1, m)) : p \in PDUs /\ p[1] = c /\ p[2] = 1
        BY ONLY <3>1, <4>1, <4>2, Bounds
      <4>4. << c, 1, 1 >> \in Range(Row(c, 1, m))
        BY <4>1, <4>2
      <4> QED BY <3>1, <4>3, <4>4
    <3> QED BY <3>2, <3>3, <3>4
  <2> QED BY <2>1, <2>3
<1>12. call'[c] = NewCall(k) /\ \A e \in AllCalls : e # c => call'[e] = call[e]
  BY <1>1, <1>2, Known
<1>13. NewCall(k).status = "ok" /\ ~NewCall(k).done /\ ~NewCall(k).gave /\ NewCall(k).result = "none"
  BY <1>2 DEF NewCall
<1>14. Types'
  <2>1. charge' \in [AllCalls -> Nat]
    <3>1. charge \in [AllCalls -> Nat] /\ credits \in Nat /\ MaxCharge \in Nat
      BY SmbPduAssumption DEF IInv, Types, TypeOK
    <3>2. PICK w \in (IF k = "data" THEN {1, MaxCharge} ELSE {1}) :
            charge' = [charge EXCEPT ![c] = IF k = "data" THEN Clamped(w) ELSE w]
      BY <1>0 DEF Issue
    <3>3. (IF k = "data" THEN Clamped(w) ELSE w) \in Nat
      BY <3>1, <3>2 DEF Clamped
    <3> QED BY <3>1, <3>2, <3>3
  <2>2. TypeOK'
    <3>1. now' \in 0..MaxCalls
      BY <1>0, <1>1, <1>2, Bounds DEF Calls
    <3>2. Range(waitqueue)' \subseteq PDUs
      BY <1>2 DEF IInv, Types, TypeOK
    <3> QED BY <1>2, <1>11, <3>1, <3>2 DEF IInv, Types, TypeOK, CallRecords
  <2> QED BY <1>2, <1>10, <2>1, <2>2 DEF IInv, Types
<1>15. Made'
  <2>1. ASSUME NEW e \in Calls PROVE kind'[e] # "disconnect" /\ (kind'[e] = "none" <=> e > now')
    <3>1. e \in Nat /\ e \in AllCalls
      BY Bounds
    <3>2. kind[e] # "disconnect" /\ (kind[e] = "none" <=> e > now)
      BY DEF IInv, Made
    <3> QED BY <3>1, <3>2, <1>0, <1>1, <1>2, <1>10
  <2>2. kind'[Disconnect] = kind[Disconnect] /\ kind[Disconnect] = "none"
    BY <1>1, <1>10, Bounds DEF IInv, Made
  <2>3. \A e \in AllCalls : kind'[e] = "none" => call'[e] = NotMade /\ answered'[e] = 0
    BY <1>2, <1>10, <1>12 DEF IInv, Made
  <2> QED BY <2>1, <2>2, <2>3 DEF Made
<1>16. Queues'
  BY <1>2, <1>8, <1>9 DEF Queues
<1>17. Awaiting'
  <2>1. \A p \in Outstanding' :
          \/ p[1] = now' /\ ~call'[now'].done
          \/ Abandoned(p[1])' \/ p[1] = Disconnect
    <3>1. ASSUME NEW p \in Outstanding PROVE Abandoned(p[1])' \/ p[1] = Disconnect
      <4>1. p[1] \in AllCalls /\ call'[p[1]] = call[p[1]]
        BY <1>7, <1>12, Numbers
      <4>2. Abandoned(p[1]) \/ p[1] = Disconnect
        BY <1>1 DEF IInv, Awaiting
      <4> QED BY <4>1, <4>2, <1>2 DEF Abandoned
    <3> QED BY <3>1, <1>2, <1>9, <1>11, <1>12, <1>13
  <2>2. \E p \in Outstanding' : p[1] = now'
    BY <1>2, <1>11
  <2> QED BY <2>1, <2>2, <1>1, <1>2, <1>12, <1>13 DEF Awaiting
<1>18. Counted'
  <2>0. ASSUME NEW p \in Outstanding, First(p)' PROVE Tally(p)'
    <3>1. p[1] \in AllCalls /\ p[1] # c
      BY <1>7, Numbers
    <3>2. First(p)
      BY <2>0, <1>9 DEF First
    <3>3. Tally(p)
      BY <3>2, <1>1 DEF IInv, Counted
    <3> QED BY <3>1, <3>3, <1>2, <1>12 DEF Tally, InHand
  <2>1. ASSUME NEW p \in Outstanding', p[1] = c, First(p)'
        PROVE  Before(p) + InHand(p)' = 0
    <3>1. p \in Range(ch) /\ p \in PDUs
      BY <2>1, <1>7, <1>9, <1>11
    <3>2. p[2] = 1 /\ p[3] = 1
      <4>1. p[3] <= 1
        BY <2>1, <1>11 DEF First
      <4> QED BY <3>1, <4>1, <1>11, Bounds
    <3>3. InHand(p)' = 0
      <4>1. pdu[1] # p
        BY <2>1, <1>7, <3>1, Bounds DEF Current, Outstanding
      <4> QED BY <4>1, <1>2 DEF InHand
    <3> QED BY <3>2, <3>3 DEF Before
  <2>2. ASSUME NEW p \in Outstanding', CallerFrees(p)' PROVE answered'[p[1]] <= InHand(p)'
    <3>1. CASE p \in Outstanding
      <4>1. CallerFrees(p)
        BY <3>1, <2>2, <1>7, <1>10, Known
      <4> QED BY <3>1, <4>1, <1>2 DEF IInv, Counted, InHand
    <3>2. CASE p \in Range(ch)
      <4>1. answered'[p[1]] = 0
        BY <3>2, <1>1, <1>2, <1>11
      <4> QED BY <4>1 DEF InHand
    <3> QED BY <3>1, <3>2, <1>9
  <2>3. ASSUME NEW p \in Range(ch), First(p)' PROVE Tally(p)'
    <3>1. p \in Outstanding' /\ p[1] = c
      BY <1>9, <1>11
    <3> QED BY <2>1, <2>3, <3>1, <1>1, <1>2, <1>12, <1>13 DEF Tally
  <2> QED BY <2>0, <2>2, <2>3, <1>1, <1>2, <1>9, <1>12, <1>13 DEF Counted
<1>19. ResultIsTrue'
  <2> SUFFICES ASSUME NEW e \in Calls, call'[e].result \in {"ok", "fail"}
               PROVE  call'[e].result = "ok" <=> answered'[e] = Rounds(e)' * Members(e)'
    BY DEF ResultIsTrue
  <2>1. e # c /\ e \in AllCalls
    BY <1>12, <1>13, Bounds
  <2> QED BY <2>1, <1>2, <1>10, <1>12 DEF IInv, ResultIsTrue
<1> QED BY <1>11, <1>14, <1>15, <1>16, <1>17, <1>18, <1>19 DEF IInv

-----------------------------------------------------------------------------
(* Sending and reading *)

\* What a step keeps that changes nothing outstanding and no call.
LEMMA Keeping ==
  ASSUME IInv, UNCHANGED << now, kind, call, pdu, life, answered >>, stale' \subseteq Excepted,
         Waiting' \cup Unsent' = Waiting \cup Unsent, line' \in {line, "cut"},
         mode' = mode \/ (mode = "idle" /\ mode' = "destroy")
                      \/ (mode = "destroy" /\ mode' = "gone" /\ Outstanding = {})
  PROVE  /\ Made' /\ Rest' /\ Owned' /\ Awaiting' /\ GivenUp' /\ Counted' /\ Heard' /\ Ready'
         /\ ResultIsTrue'
<1>1. /\ Current' = Current /\ Outstanding' = Outstanding
      /\ \A p : CallerFrees(p)' = CallerFrees(p) /\ InHand(p)' = InHand(p)
      /\ \A c : Rounds(c)' = Rounds(c) /\ Members(c)' = Members(c) /\ Forgotten(c)' = Forgotten(c)
  BY DEF Current, Outstanding, CallerFrees, InHand, Rounds, Members, Forgotten
<1>2. \A p : First(p)' = First(p) /\ Tally(p)' = Tally(p)
  BY <1>1 DEF First, Tally
<1>3. Made'
  BY DEF IInv, Made
<1>4. Rest'
  BY <1>1 DEF IInv, Rest, RestOf
<1>5. Owned'
  <2>1. Excepted' = Excepted
    BY DEF Excepted, CallerFrees
  <2> QED BY <2>1, <1>1 DEF IInv, Owned
<1>6. Awaiting'
  BY <1>1 DEF IInv, Awaiting, Abandoned
<1>7. Counted'
  BY <1>1, <1>2 DEF IInv, Counted
<1>8. Heard'
  BY <1>1 DEF IInv, Heard
<1>9. ResultIsTrue'
  BY <1>1 DEF IInv, ResultIsTrue
<1>10. GivenUp'
  BY DEF IInv, GivenUp
<1>11. Ready'
  BY <1>1 DEF IInv, Ready, LeftReady
<1> QED BY <1>3, <1>4, <1>5, <1>6, <1>7, <1>8, <1>9, <1>10, <1>11

\* Steps that touch nothing but the line, the credits, the strays and the mode.
LEMMA Resting ==
  ASSUME IInv, UNCHANGED << now, kind, charge, call, outqueue, waitqueue, pdu, life, answered, stale >>,
         line' \in {line, "cut"}, credits' \in Nat, strays' \subseteq strays,
         mode' = mode \/ (mode = "idle" /\ mode' = "destroy")
                      \/ (mode = "destroy" /\ mode' = "gone" /\ Outstanding = {})
  PROVE  IInv'
<1>1. Waiting' \cup Unsent' = Waiting \cup Unsent
  BY DEF Waiting, Unsent
<1>2. Types'
  BY DEF IInv, Types, TypeOK
<1>3. Queues'
  BY DEF IInv, Queues, Current
<1>4. /\ Made' /\ Rest' /\ Owned' /\ Awaiting' /\ GivenUp' /\ Counted' /\ Heard' /\ Ready'
      /\ ResultIsTrue'
  <2>1. stale' \subseteq Excepted
    BY DEF IInv, Owned
  <2> QED BY <1>1, <2>1, Keeping
<1> QED BY <1>2, <1>3, <1>4 DEF IInv

\* Credits are natural numbers.
LEMMA Charges ==
  ASSUME IInv
  PROVE  /\ credits \in Nat /\ \A p \in PDUs : Charge(p) \in Nat /\ Grant(p) \in Nat
         /\ \A c \in AllCalls, r \in 1..4, n \in 1..Width : ChainCharge(Row(c, r, n)) \in Nat
<1>1. credits \in Nat
  BY DEF IInv, Types, TypeOK
<1>2. \A p \in PDUs : Charge(p) \in Nat /\ Grant(p) \in Nat
  BY Bounds DEF IInv, Types, Charge, Grant
<1>3. ASSUME NEW c \in AllCalls, NEW r \in 1..4, NEW n \in 1..Width
      PROVE  ChainCharge(Row(c, r, n)) \in Nat
  <2>1. 1 \in 1..Width /\ n \in Nat
    BY Bounds
  <2>2. Charge(<< c, r, 1 >>) \in Nat
    BY <1>2, <2>1, Bounds
  <2>3. ChainCharge(Row(c, r, n)) = n * Charge(<< c, r, 1 >>)
    BY RowFacts DEF ChainCharge
  <2>4. \A x, y \in Nat : x * y \in Nat
    OBVIOUS
  <2> QED BY <2>1, <2>2, <2>3, <2>4
<1> QED BY <1>1, <1>2, <1>3

\* An interim reply brings credits.
LEMMA Pending ==
  ASSUME IInv, ReadPending
  PROVE  IInv'
<1>1. PICK p \in Range(waitqueue) \cup strays : credits' = credits + Grant(p)
  BY DEF ReadPending
<1>2. p \in PDUs
  BY <1>1, Known DEF Waiting, IInv, Types, TypeOK
<1>3. credits' \in Nat
  BY <1>1, <1>2, Charges
<1> QED BY <1>3, Resting DEF ReadPending

\* So does a reply nobody asked for any more.
LEMMA Skipping ==
  ASSUME IInv, ReadUnknown
  PROVE  IInv'
<1>1. PICK p \in strays : strays' = strays \ {p} /\ credits' = credits + Credit(p)
  BY DEF ReadUnknown
<1>2. p \in PDUs
  BY <1>1 DEF IInv, Types, TypeOK
<1>3. credits' \in Nat
  BY <1>1, <1>2, Charges DEF Credit
<1> QED BY <1>1, <1>3, Resting DEF ReadUnknown

\* The wait loop sends a chain, perhaps from a buffer that was released.
LEMMA Writing ==
  ASSUME IInv, Write
  PROVE  IInv'
<1>1. /\ UNCHANGED << mode, now, kind, charge, call, pdu, life, line, strays, answered >>
      /\ mode = "wait" /\ line = "up"
      /\ outqueue # << >> /\ outqueue' = Tail(outqueue) /\ waitqueue' = waitqueue \o Head(outqueue)
      /\ ChainCharge(Head(outqueue)) <= credits /\ credits' = credits - ChainCharge(Head(outqueue))
      /\ stale' = stale \cup Released(Head(outqueue)[1][1])
  BY DEF Write, SendHead, CreditsSuffice, Spent
<1>2. /\ \E c \in AllCalls, r \in 1..4, n \in 1..Width : Head(outqueue) = Row(c, r, n)
      /\ QueuesOf(outqueue', waitqueue', Current)
      /\ Elems(outqueue') \cup Range(waitqueue') = Elems(outqueue) \cup Range(waitqueue)
  BY <1>1, Known, Sending
<1>3. credits' \in Nat
  <2>1. ChainCharge(Head(outqueue)) \in Nat /\ credits \in Nat
    BY <1>2, Charges
  <2> QED BY <1>1, <2>1
<1>4. Waiting' \cup Unsent' = Waiting \cup Unsent
  BY <1>2 DEF Waiting, Unsent, Elems
<1>5. Types'
  <2>1. Range(waitqueue') \subseteq PDUs
    <3>1. Range(waitqueue') \subseteq Elems(outqueue) \cup Range(waitqueue)
      BY <1>2
    <3> QED BY <3>1, Known DEF Waiting
  <2> QED BY <1>1, <1>3, <2>1 DEF IInv, Types, TypeOK
<1>6. Queues'
  BY <1>1, <1>2 DEF Queues, Current
<1>7. stale' \subseteq Excepted
  <2>1. PICK c \in AllCalls, r \in 1..4, n \in 1..Width : Head(outqueue) = Row(c, r, n)
    BY <1>2
  <2>2. Head(outqueue)[1] = << c, r, 1 >> /\ << c, r, 1 >> \in Range(Head(outqueue))
    <3>1. 1 \in 1..n
      BY Bounds
    <3> QED BY <2>1, <3>1, RowFacts
  <2>3. << c, r, 1 >> \in Outstanding
    <3>1. /\ Without(Seq(PDUs), outqueue, Tail(outqueue), 1) /\ 1 \in 1..Len(outqueue)
          /\ Head(outqueue) = outqueue[1]
      BY <1>1, Known, TailFacts
    <3>2. << c, r, 1 >> \in Unsent
      BY <2>2, <3>1, Known, ElemFacts
    <3> QED BY <3>2 DEF Outstanding
  <2>4. kind[c] # "none" /\ kind[Disconnect] = "none"
    BY <2>3, <1>1 DEF IInv, Rest, RestOf, Made
  <2>5. Released(c) \subseteq Excepted
    BY <2>4, <1>1, LateUse
  <2>6. Head(outqueue)[1][1] = c
    BY <2>2
  <2> QED BY <2>5, <2>6, <1>1 DEF IInv, Owned
<1>8. /\ Made' /\ Rest' /\ Owned' /\ Awaiting' /\ GivenUp' /\ Counted' /\ Heard' /\ Ready'
      /\ ResultIsTrue'
  BY <1>1, <1>4, <1>7, Keeping
<1> QED BY <1>5, <1>6, <1>8 DEF IInv

\* An open or a list has one PDU outstanding at a time.
LEMMA Alone ==
  ASSUME IInv, NEW p \in Outstanding, NEW q \in Outstanding, p[1] = q[1],
         Members(p[1]) = 1 \/ p[3] = q[3]
  PROVE  p = q
<1>1. p[2] = q[2] /\ p[3] <= Members(p[1]) /\ q[3] <= Members(p[1])
  BY DEF IInv, Rest, RestOf
<1>2. p \in PDUs /\ q \in PDUs
  BY Known
<1>3. p[3] \in Nat \ {0} /\ q[3] \in Nat \ {0}
  BY <1>2, Bounds
<1>4. p[3] = q[3]
  BY <1>1, <1>3
<1> QED BY <1>1, <1>2, <1>4, Bounds

\* The header of a reply moves its PDU from the wait queue to smb2->pdu.
LEMMA Heading ==
  ASSUME IInv, ReadHeader
  PROVE  IInv'
<1>1. PICK p \in Range(waitqueue), st \in {"ok", "fail"} :
        /\ MayAnswer(p) /\ pdu' = << p, st >> /\ waitqueue' = Dequeued(waitqueue, p)
        /\ credits' = credits + Credit(p)
        /\ answered' = [answered EXCEPT ![p[1]] = @ + (IF st = "ok" THEN 1 ELSE 0)]
  BY DEF ReadHeader
<1>2. /\ UNCHANGED << mode, now, kind, charge, call, outqueue, life, line, strays, stale >>
      /\ mode = "wait" /\ line = "up" /\ pdu[1] = NoPdu
  BY DEF ReadHeader, Reading
<1> DEFINE c == p[1]
<1>3. p \in PDUs /\ c \in AllCalls /\ p \in Outstanding /\ p \in Waiting
  BY <1>1, Known, Bounds DEF Waiting, Outstanding
<1>4. Current = {} /\ Current' = {p}
  BY <1>1, <1>2, <1>3, Bounds DEF Current
<1>5. \A q \in Range(waitqueue) : q[1] = c => q[3] >= p[3]
  <2>1. \A q \in Range(waitqueue) : q \in Outstanding
    BY DEF Waiting, Outstanding
  <2> QED BY <1>1, <1>3, <2>1 DEF MayAnswer, IInv, Rest, RestOf
<1>6. QueuesOf(outqueue, waitqueue', {p}) /\ Range(waitqueue') = Range(waitqueue) \ {p}
  BY <1>1, <1>4, <1>5, Known, Taking
<1>7. /\ Waiting' = Waiting \ {p} /\ Unsent' = Unsent /\ Outstanding' = Outstanding
      /\ Waiting' \cup Unsent' \subseteq Waiting \cup Unsent
  <2>1. Waiting' = Waiting \ {p} /\ Unsent' = Unsent
    BY <1>2, <1>6 DEF Waiting, Unsent
  <2> QED BY <2>1, <1>3, <1>4 DEF Outstanding
<1>8. /\ answered' \in [AllCalls -> Nat] /\ answered'[c] = answered[c] + (IF st = "ok" THEN 1 ELSE 0)
      /\ \A e \in AllCalls : e # c => answered'[e] = answered[e]
      /\ answered[c] \in Nat
  BY <1>1, <1>3 DEF IInv, Types
<1>9. /\ \A q : CallerFrees(q)' = CallerFrees(q)
      /\ \A e : Rounds(e)' = Rounds(e) /\ Members(e)' = Members(e)
      /\ \A q : First(q)' = First(q)
  BY <1>2, <1>7 DEF CallerFrees, Rounds, Members, First
<1>10. First(p)
  <2>1. ASSUME NEW q \in Outstanding, q[1] = c PROVE p[3] <= q[3]
    <3>1. q \in Waiting \/ q \in Unsent
      BY <1>4 DEF Outstanding
    <3>2. q \notin Unsent
      BY <1>3, <2>1, Known DEF QueuesOf, Waiting
    <3>3. q[3] \in Nat /\ p[3] \in Nat
      <4>1. q \in PDUs
        BY Known
      <4> QED BY <4>1, <1>3, Bounds
    <3>4. q \in Range(waitqueue)
      BY <3>1, <3>2 DEF Waiting
    <3>5. q[3] >= p[3]
      BY <2>1, <3>4, <1>5
    <3> QED BY ONLY <3>3, <3>5
  <2> QED BY <2>1 DEF First
<1>11. \A q \in Outstanding : q[1] = c /\ (First(q) \/ Members(c) = 1) => q = p
  <2> SUFFICES ASSUME NEW q \in Outstanding, q[1] = c, First(q) \/ Members(c) = 1 PROVE q = p
    OBVIOUS
  <2>1. CASE Members(c) = 1
    BY <2>1, <1>3, Alone
  <2>2. CASE First(q)
    <3>1. p[3] <= q[3] /\ q[3] <= p[3] /\ p[3] \in Nat /\ q[3] \in Nat
      BY <2>2, <1>3, <1>10, Numbers DEF First
    <3> QED BY <3>1, <1>3, Alone
  <2> QED BY <2>1, <2>2
<1>12. Types'
  <2>1. credits' \in Nat
    BY <1>1, <1>3, Charges DEF Credit
  <2>2. Range(waitqueue') \subseteq PDUs
    BY <1>6, Known DEF Waiting
  <2> QED BY <1>1, <1>2, <1>3, <1>8, <2>1, <2>2 DEF IInv, Types, TypeOK
<1>13. kind[c] # "none" /\ call[c].op = "live"
  BY <1>3 DEF IInv, Rest, RestOf, Owned
<1>14. Made'
  BY <1>2, <1>8, <1>13 DEF IInv, Made
<1>15. Queues'
  BY <1>2, <1>4, <1>6 DEF Queues
<1>16. Rest'
  BY <1>7, <1>9, <1>2 DEF IInv, Rest, RestOf
<1>17. Owned'
  <2>1. life'[p] = "live"
    BY <1>2, <1>3 DEF IInv, Owned
  <2>2. Excepted' = Excepted
    BY <1>2 DEF Excepted, CallerFrees
  <2> QED BY <2>1, <2>2, <1>2, <1>4, <1>7, <1>9 DEF IInv, Owned
<1>18. Awaiting'
  BY <1>2, <1>7 DEF IInv, Awaiting, Abandoned
<1>19. InHand(p) = 0 /\ InHand(p)' = (IF st = "ok" THEN 1 ELSE 0) /\ \A q : q # p => InHand(q)' = 0
  <2>1. pdu # << p, "ok" >>
    BY <1>2, <1>3, Bounds
  <2> QED BY <2>1, <1>1 DEF InHand
<1>20. \A q \in Outstanding : q \in PDUs /\ q[1] \in AllCalls /\ (q # p => InHand(q) = 0)
  <2>1. \A q \in Outstanding : q \in PDUs /\ q[1] \in AllCalls
    BY Numbers
  <2>2. \A q \in PDUs : pdu # << q, "ok" >>
    BY <1>2, Bounds
  <2> QED BY <2>1, <2>2 DEF InHand
<1>21. Counted'
  <2>1. ASSUME NEW q \in Outstanding', First(q)' PROVE Tally(q)'
    <3>1. q \in Outstanding /\ First(q) /\ Tally(q)
      BY <2>1, <1>2, <1>7, <1>9 DEF IInv, Counted
    <3>2. CASE q = p
      <4>1. Before(p) \in Int
        BY <1>3, Bounds DEF Before
      <4> QED BY <3>1, <3>2, <4>1, <1>2, <1>8, <1>19 DEF Tally
    <3>3. CASE q # p
      <4>1. q[1] # c /\ q[1] \in AllCalls /\ InHand(q) = 0 /\ InHand(q)' = 0
        BY <3>1, <3>3, <1>11, <1>19, <1>20
      <4> QED BY <3>1, <4>1, <1>2, <1>8 DEF Tally
    <3> QED BY <3>2, <3>3
  <2>2. ASSUME NEW q \in Outstanding', CallerFrees(q)' PROVE answered'[q[1]] <= InHand(q)'
    <3>1. q \in Outstanding /\ CallerFrees(q) /\ answered[q[1]] <= InHand(q)
      BY <2>2, <1>7, <1>9 DEF IInv, Counted
    <3>2. CASE q = p
      <4>1. answered[c] <= 0
        BY <3>1, <3>2, <1>19
      <4> QED BY <3>2, <4>1, <1>8, <1>19
    <3>3. CASE q # p
      <4>1. Members(q[1]) = 1
        BY <3>1 DEF CallerFrees, Members
      <4>2. q[1] # c /\ q[1] \in AllCalls /\ InHand(q) = 0 /\ InHand(q)' = 0
        BY <3>1, <3>3, <4>1, <1>11, <1>19, <1>20
      <4> QED BY <3>1, <4>2, <1>8
    <3> QED BY <3>2, <3>3
  <2>3. call[now].done => c # now
    BY <1>2, <1>3, NowMade DEF IInv, Awaiting, Abandoned
  <2>4. now \in AllCalls
    BY <1>2, NowMade
  <2> QED BY <2>1, <2>2, <2>3, <2>4, <1>2, <1>8, <1>9 DEF IInv, Counted
<1>22. Heard'
  <2>1. \A e \in AllCalls : e # c => Forgotten(e)' = Forgotten(e)
    BY <1>2, <1>8 DEF Forgotten
  <2>2. \E q \in Outstanding' : q[1] = c
    BY <1>3, <1>7
  <2> QED BY <2>1, <2>2, <1>2, <1>7 DEF IInv, Heard
<1>23. Ready'
  BY <1>2, <1>8, <1>9, <1>13 DEF IInv, Ready, LeftReady
<1>24. ResultIsTrue'
  <2>1. call[c].result \notin {"ok", "fail"} \/ c = Disconnect
    BY <1>2, <1>3 DEF IInv, Awaiting, Abandoned, GivenUp
  <2>2. \A e \in Calls : e \in AllCalls /\ e # Disconnect
    BY Bounds
  <2> QED BY <2>1, <2>2, <1>2, <1>8, <1>9 DEF IInv, ResultIsTrue
<1>25. GivenUp'
  BY <1>2 DEF IInv, GivenUp
<1> QED BY <1>12, <1>14, <1>15, <1>16, <1>17, <1>18, <1>21, <1>22, <1>23, <1>24, <1>25 DEF IInv
-----------------------------------------------------------------------------
(* The end of the context *)

\* A callback told of the shutdown: it is the first of its call's that is
\* outstanding, and what goes with it are PDUs of the same call.
LEMMA ShuttingDown ==
  ASSUME IInv, mode = "destroy", NEW p \in Outstanding, First(p), life[p] = "live", Callback(p, "shutdown", {}),
         NEW R \in SUBSET Outstanding, p \in R, \A q \in R : q[1] = p[1],
         \A q \in Outstanding \ R, r \in R : q[1] = r[1] => r[3] < q[3],
         Outstanding' = Outstanding \ R, Current' \subseteq Current,
         Waiting' \cup Unsent' \subseteq Waiting \cup Unsent,
         \A q \in Outstanding' : pdu = << q, "ok" >> => pdu' = pdu,
         life' = [q \in PDUs |-> IF q \in R THEN "freed" ELSE life[q]],
         UNCHANGED << mode, now, kind, charge, line, answered >>
  PROVE  /\ call' \in [AllCalls -> CallRecords] /\ life' \in [PDUs -> {"none", "live", "freed"}]
         /\ Made' /\ Rest' /\ Owned' /\ Awaiting' /\ GivenUp' /\ Counted' /\ Heard' /\ Ready' /\ ResultIsTrue'
<1> DEFINE c == p[1]
<1>1. /\ p \in PDUs /\ c \in AllCalls /\ kind[c] # "none" /\ "shutdown" \in Status
      /\ kind \in [AllCalls -> KindNames] /\ call \in [AllCalls -> CallRecords]
      /\ Outstanding \subseteq PDUs /\ \A q \in Outstanding : q[1] \in AllCalls /\ q[3] \in Nat
      /\ p[3] \in Nat /\ Members(c) \in Nat /\ p[3] <= Members(c)
  <2>1. p \in PDUs /\ c \in AllCalls /\ p[3] \in Nat /\ Members(c) \in Nat
    <3>1. p \in PDUs
      BY Known
    <3>2. c \in AllCalls /\ p[3] \in Nat
      BY <3>1, Bounds
    <3>3. Members(c) \in 1..Width
      BY <3>2, Known
    <3> QED BY <3>1, <3>2, <3>3, Bounds
  <2>2. Outstanding \subseteq PDUs /\ \A q \in Outstanding : q[1] \in AllCalls /\ q[3] \in Nat
    BY Numbers
  <2>3. kind[c] # "none" /\ p[3] <= Members(c)
    BY DEF IInv, Rest, RestOf
  <2> QED BY <2>1, <2>2, <2>3, Known DEF Status
<1>2. /\ call[c].op = "live"
      /\ call[c].cb = "freed" => kind[c] \in {"list", "close"}
  BY DEF IInv, Owned
<1>3. call[c].cb = "freed" => ~TouchesCb(c, "shutdown")
  BY <1>2 DEF TouchesCb
<1>4. /\ call' \in [AllCalls -> CallRecords]
      /\ \A e \in AllCalls : e # c => call'[e] = call[e]
      /\ call'[c].gave = call[c].gave /\ call'[c].result = call[c].result
      /\ Ends(p, "shutdown") => call'[c].op = "freed"
      /\ ~Ends(p, "shutdown") => call'[c].op = call[c].op /\ call'[c].cb = call[c].cb
      /\ stale' = stale
  <2>1. FirstFailure(c, "shutdown") # "ok"
    BY DEF FirstFailure
  <2>2. PICK used : used = {}
    OBVIOUS
  <2>3. PICK st \in Status : st = "shutdown"
    BY <1>1
  <2>4. Callback(p, st, used)
    BY <2>2, <2>3
  <2>5. /\ call' \in [AllCalls -> CallRecords]
        /\ \A e \in AllCalls : e # c => call'[e] = call[e]
        /\ call'[c].gave = call[c].gave /\ call'[c].result = call[c].result
        /\ Ends(p, st) => call'[c].op \in {"ready", "freed"}
        /\ Ends(p, st) /\ call'[c].op = "ready" => FirstFailure(c, st) = "ok"
        /\ ~Ends(p, st) => call'[c].op = call[c].op /\ call'[c].cb = call[c].cb
        /\ call[c].op = "live" /\ (call[c].cb = "freed" => ~TouchesCb(c, st)) => stale' = stale \cup used
    BY <1>1, <2>4, Callbacks
  <2> QED BY <2>1, <2>2, <2>3, <2>5, <1>2, <1>3
<1>5. Ends(p, "shutdown") <=> p[3] = Members(c)
  BY DEF Ends
<1>6. /\ \A q : CallerFrees(q)' = CallerFrees(q)
      /\ \A e : Rounds(e)' = Rounds(e) /\ Members(e)' = Members(e)
  BY DEF CallerFrees, Rounds, Members
<1>7. \A q \in Outstanding' : q \in Outstanding /\ q \notin R /\ life'[q] = life[q]
  BY <1>1
<1>8. \A q \in Outstanding' : q[1] = c => p[3] # Members(c)
  <2> SUFFICES ASSUME NEW q \in Outstanding', q[1] = c, p[3] = Members(c) PROVE FALSE
    OBVIOUS
  <2>1. q[3] <= Members(c) /\ p[3] < q[3] /\ q[3] \in Nat
    BY <1>1, <1>7 DEF IInv, Rest, RestOf
  <2> QED BY <2>1, <1>1
<1>9. life' \in [PDUs -> {"none", "live", "freed"}]
  BY DEF IInv, Types, TypeOK
<1>10. Made'
  <2>1. \A e \in AllCalls : kind[e] = "none" => call'[e] = call[e]
    BY <1>1, <1>4
  <2> QED BY <2>1 DEF IInv, Made
<1>11. Rest'
  <2>1. RestOf(Outstanding')
    <3>1. PICK Y \in SUBSET Outstanding : Y = Outstanding'
      BY <1>7
    <3>2. \A q \in Y, r \in Outstanding \ Y : q[1] = r[1] => r[3] < q[3]
      BY <3>1
    <3>3. RestOf(Y)
      BY <1>1, <3>2, Known, RestShrinks
    <3> QED BY <3>1, <3>3
  <2> QED BY <2>1, <1>6 DEF Rest, RestOf
<1>12. Owned'
  <2>1. \A q \in Waiting' \cup Unsent' : life'[q] = "live"
    <3>1. \A q \in Waiting' \cup Unsent' : q \in Outstanding'
      BY DEF Outstanding
    <3> QED BY <3>1, <1>7 DEF IInv, Owned
  <2>2. \A q \in Current' :
          life'[q] = "live" \/ (life'[q] = "freed" /\ CallerFrees(q)' /\ call'[q[1]].gave)
    <3>1. \A q \in Current' : q \in Outstanding' /\ q[1] \in AllCalls
      BY <1>1, <1>7 DEF Outstanding
    <3>2. \A q \in Current' : call'[q[1]].gave = call[q[1]].gave
      BY <3>1, <1>4
    <3> QED BY <3>1, <3>2, <1>6, <1>7 DEF IInv, Owned
  <2>3. ASSUME NEW q \in Outstanding'
        PROVE  /\ call'[q[1]].op = "live"
               /\ call'[q[1]].cb = "freed" => call'[q[1]].gave /\ kind'[q[1]] \in {"list", "close"}
    <3>1. /\ call[q[1]].op = "live"
          /\ call[q[1]].cb = "freed" => call[q[1]].gave /\ kind[q[1]] \in {"list", "close"}
      BY <1>7 DEF IInv, Owned
    <3>2. call'[q[1]].op = call[q[1]].op /\ call'[q[1]].cb = call[q[1]].cb /\ call'[q[1]].gave = call[q[1]].gave
      BY <1>1, <1>4, <1>5, <1>7, <1>8
    <3> QED BY <3>1, <3>2, <1>7
  <2>4. stale' \subseteq Excepted'
    <3>1. \A e \in AllCalls : call'[e].gave = call[e].gave /\ call'[e].result = call[e].result
      BY <1>4
    <3>2. Excepted \subseteq Excepted'
      BY <3>1, ExceptedKept
    <3> QED BY <3>2, <1>4 DEF IInv, Owned
  <2> QED BY <2>1, <2>2, <2>3, <2>4 DEF Owned
<1>13. Awaiting'
  <2>1. \A q \in Outstanding' : Abandoned(q[1])' \/ q[1] = Disconnect
    <3>1. \A q \in Outstanding' : Abandoned(q[1]) \/ q[1] = Disconnect
      BY <1>7 DEF IInv, Awaiting
    <3>2. \A q \in Outstanding' : call'[q[1]].gave = call[q[1]].gave
      BY <1>1, <1>4, <1>7
    <3> QED BY <3>1, <3>2 DEF Abandoned
  <2> QED BY <2>1 DEF Awaiting
<1>14. Counted'
  <2>1. ASSUME NEW q \in Outstanding', CallerFrees(q)' PROVE answered'[q[1]] <= InHand(q)'
    <3>1. answered[q[1]] <= InHand(q)
      BY <2>1, <1>6, <1>7 DEF IInv, Counted
    <3>2. answered[q[1]] \in Nat
      BY <1>1, <1>7 DEF IInv, Types
    <3>3. CASE pdu = << q, "ok" >>
      BY <3>1, <3>3 DEF InHand
    <3>4. CASE pdu # << q, "ok" >>
      BY <3>1, <3>2, <3>4 DEF InHand
    <3> QED BY <3>3, <3>4
  <2> QED BY <2>1 DEF Counted
<1>15. Heard'
  <2>1. ASSUME NEW e \in AllCalls, call'[e].op = "live"
        PROVE  Forgotten(e)' \/ \E q \in Outstanding' : q[1] = e
    <3>1. CASE e # c
      <4>1. Forgotten(e) \/ \E q \in Outstanding : q[1] = e
        BY <2>1, <3>1, <1>4 DEF IInv, Heard
      <4>2. Forgotten(e)' = Forgotten(e)
        BY <3>1, <1>4 DEF Forgotten
      <4> QED BY <4>1, <4>2, <3>1
    <3>2. CASE e = c
      <4>1. p[3] # Members(c)
        BY <2>1, <3>2, <1>4, <1>5
      <4>2. Members(c) # 1
        BY <4>1, <1>1, Bounds
      <4>3. kind[c] = "change"
        BY <4>2 DEF Members
      <4>4. c # Disconnect
        BY <4>3 DEF IInv, Made
      <4>5. call[c].gave
        BY <4>4 DEF IInv, Awaiting, Abandoned
      <4> QED BY <3>2, <4>3, <4>5, <1>4 DEF Forgotten
    <3> QED BY <3>1, <3>2
  <2> QED BY <2>1 DEF Heard
<1>16. ResultIsTrue'
  <2>1. \A e \in Calls : e \in AllCalls /\ call'[e].result = call[e].result
    BY <1>4, Bounds
  <2> QED BY <2>1, <1>6 DEF IInv, ResultIsTrue
<1>17. GivenUp'
  <2>1. \A e \in AllCalls : call'[e].gave = call[e].gave /\ call'[e].result = call[e].result
    BY <1>4
  <2> QED BY <2>1 DEF IInv, GivenUp
<1>18. Ready'
  <2> SUFFICES ASSUME NEW e \in AllCalls, call'[e].op = "ready" PROVE LeftReady(e)'
    BY DEF Ready
  <2>1. call[e].op = "ready" /\ call'[e].gave = call[e].gave
    BY <1>2, <1>4
  <2> QED BY <2>1, <1>6 DEF IInv, Ready, LeftReady
<1> QED BY <1>4, <1>9, <1>10, <1>11, <1>12, <1>13, <1>14, <1>15, <1>16, <1>17, <1>18

\* The PDU being read is the first of its call's.
LEMMA CurrentFirst ==
  ASSUME IInv, NEW p \in PDUs, pdu[1] = p
  PROVE  /\ Current = {p} /\ p \in Outstanding /\ First(p) /\ p \notin Waiting /\ p \notin Unsent
<1>1. Current = {p} /\ p \in Outstanding
  BY Bounds DEF Current, Outstanding
<1>2. \A q \in Unsent : q[1] # p[1]
  BY <1>1, Known DEF QueuesOf
<1>3. \A q \in Waiting : q[1] = p[1] => p[3] < q[3]
  BY <1>1, Known DEF QueuesOf, Waiting
<1>4. p[3] \in Nat /\ \A q \in Outstanding : q[3] \in Nat
  BY <1>1, Numbers
<1>5. First(p)
  BY <1>1, <1>2, <1>3, <1>4 DEF First, Outstanding
<1> QED BY <1>1, <1>2, <1>3, <1>4, <1>5

\* The first loop of smb2_destroy_context: unsent chains.
LEMMA DestroyingOut ==
  ASSUME IInv, DestroyOut
  PROVE  IInv'
<1>1. /\ UNCHANGED << mode, now, kind, charge, waitqueue, pdu, credits, line, strays, eased, answered >>
      /\ mode = "destroy" /\ outqueue # << >> /\ outqueue' = Tail(outqueue)
      /\ Callback(Head(outqueue)[1], "shutdown", {})
      /\ life' = [p \in PDUs |-> IF p \in Range(Head(outqueue)) THEN "freed" ELSE life[p]]
  BY DEF DestroyOut
<1>2. /\ Without(Seq(PDUs), outqueue, outqueue', 1) /\ 1 \in 1..Len(outqueue) /\ Head(outqueue) = outqueue[1]
      /\ Chains(outqueue) /\ outqueue \in Seq(Seq(PDUs))
  BY <1>1, Known, TailFacts DEF QueuesOf
<1>3. PICK c \in AllCalls, r \in 1..4, n \in 1..Width : outqueue[1] = Row(c, r, n)
  BY <1>2 DEF Chains
<1>4. PICK R : R = Range(outqueue[1])
  OBVIOUS
<1>5. PICK p : p = << c, r, 1 >>
  OBVIOUS
<1>6. /\ R = {<< c, r, k >> : k \in 1..n} /\ Head(outqueue)[1] = p /\ p[1] = c /\ p \in R
      /\ \A q \in R : q[1] = c
  <2>1. 1 \in 1..n
    BY Bounds
  <2>2. Range(Row(c, r, n)) = {<< c, r, k >> : k \in 1..n} /\ Row(c, r, n)[1] = << c, r, 1 >>
    BY RowFacts
  <2>3. R = {<< c, r, k >> : k \in 1..n} /\ Head(outqueue)[1] = p
    BY <2>2, <1>2, <1>3, <1>4, <1>5
  <2> QED BY <2>1, <2>3, <1>5
<1>7. QueuesOf(outqueue', waitqueue, Current) /\ Elems(outqueue') = Elems(outqueue) \ R
  BY <1>2, <1>4, Known, DroppingChain
<1>8. R \subseteq Unsent
  BY <1>2, <1>4, Known, ElemFacts
<1>9. \A q \in Outstanding : q[1] = c => q \in R
  <2> SUFFICES ASSUME NEW q \in Outstanding, q[1] = c PROVE q \in R
    OBVIOUS
  <2>1. p \in Elems(outqueue)
    BY <1>6, <1>8, Known
  <2>2. q \notin Waiting \cup Current
    BY <2>1, <1>6, Known DEF QueuesOf, Waiting
  <2>3. q \in Elems(outqueue)
    BY <2>2, Known DEF Outstanding
  <2>4. PICK j \in 1..Len(outqueue) : q \in Range(outqueue[j])
    BY <2>3, <1>2, ElemFacts
  <2>5. j = 1
    <3>1. p \in Range(outqueue[1]) /\ p[1] = q[1]
      BY <1>4, <1>6
    <3>2. \A k, l \in 1..Len(outqueue) : \A x \in Range(outqueue[k]), y \in Range(outqueue[l]) : x[1] = y[1] => k = l
      BY <1>2 DEF Chains
    <3> QED BY ONLY <1>2, <2>4, <3>1, <3>2
  <2> QED BY <2>4, <2>5, <1>4
<1>10. /\ Waiting' = Waiting /\ Current' = Current /\ Unsent' = Unsent \ R
       /\ R \in SUBSET Outstanding /\ p \in Outstanding
       /\ Outstanding' = Outstanding \ R
  <2>1. Waiting' = Waiting /\ Current' = Current
    BY <1>1 DEF Waiting, Current
  <2>2. Unsent' = Unsent \ R
    BY <1>7, Known DEF Unsent, Elems
  <2>3. \A q \in Waiting \cup Current : q \notin R
    BY <1>6, <1>8, Known DEF QueuesOf, Waiting
  <2> QED BY <2>1, <2>2, <2>3, <1>6, <1>8 DEF Outstanding
<1>11. First(p)
  <2>1. \A q \in Outstanding : q[1] = c => p[3] <= q[3]
    BY <1>5, Known, Bounds
  <2> QED BY <2>1, <1>6 DEF First
<1>12. life[p] = "live"
  BY <1>6, <1>8 DEF IInv, Owned
<1>13. /\ call' \in [AllCalls -> CallRecords] /\ life' \in [PDUs -> {"none", "live", "freed"}]
       /\ Made' /\ Rest' /\ Owned' /\ Awaiting' /\ GivenUp' /\ Counted' /\ Heard' /\ Ready' /\ ResultIsTrue'
  <2>1. /\ Callback(p, "shutdown", {}) /\ life' = [q \in PDUs |-> IF q \in R THEN "freed" ELSE life[q]]
        /\ \A q \in R : q[1] = p[1]
        /\ \A q \in Outstanding \ R, s \in R : q[1] = s[1] => s[3] < q[3]
        /\ Current' \subseteq Current /\ Waiting' \cup Unsent' \subseteq Waiting \cup Unsent
        /\ \A q \in Outstanding' : pdu = << q, "ok" >> => pdu' = pdu
        /\ p \in R
        /\ UNCHANGED << mode, now, kind, charge, line, answered >>
    BY <1>1, <1>2, <1>4, <1>6, <1>9, <1>10
  <2>2. R \in SUBSET Outstanding /\ p \in Outstanding /\ Outstanding' = Outstanding \ R /\ mode = "destroy" /\ IInv
    BY <1>1, <1>10
  <2> QED BY ONLY <2>1, <2>2, <1>11, <1>12, ShuttingDown
<1>14. Types'
  BY <1>1, <1>13 DEF IInv, Types, TypeOK, CallRecords
<1>15. Queues'
  BY <1>1, <1>7, <1>10 DEF Queues
<1> QED BY <1>13, <1>14, <1>15 DEF IInv

\* Nothing unsent is left.
LEMMA NoneUnsent ==
  ASSUME outqueue = << >>
  PROVE  Unsent = {}
  BY DEF Unsent

\* What follows the PDU whose reply was being read, in its call.
LEMMA AfterCurrent ==
  ASSUME IInv, NEW p \in PDUs, pdu[1] = p
  PROVE  \A q \in Outstanding \ {p} : q[1] = p[1] => p[3] < q[3]
<1>1. p \in Outstanding /\ First(p)
  BY CurrentFirst
<1> SUFFICES ASSUME NEW q \in Outstanding, q # p, q[1] = p[1] PROVE p[3] < q[3]
  OBVIOUS
<1>2. p[3] \in Nat /\ q[3] \in Nat
  BY <1>1, Numbers
<1>3. p[3] # q[3]
  BY <1>1, Alone
<1>4. p[3] <= q[3]
  BY <1>1 DEF First
<1> QED BY <1>2, <1>3, <1>4

\* The PDU whose reply was being read, when its caller has freed it.
LEMMA Dangling ==
  ASSUME IInv, NEW p \in PDUs, pdu[1] = p, life[p] = "freed", mode \in {"wait", "destroy"},
         pdu' = << NoPdu, "ok" >>, stale' = stale \cup {<< "pdu", p >>},
         UNCHANGED << mode, now, kind, charge, call, outqueue, waitqueue, life, credits, line,
                      strays, answered >>
  PROVE  IInv'
<1>1. Current = {p} /\ p \in Outstanding /\ First(p) /\ p \notin Waiting /\ p \notin Unsent
  BY CurrentFirst
<1>2. Current' = {} /\ Waiting' = Waiting /\ Unsent' = Unsent /\ Outstanding' = Outstanding \ {p}
  <2>1. Current' = {} /\ Waiting' = Waiting /\ Unsent' = Unsent
    BY DEF Current, Waiting, Unsent
  <2> QED BY <2>1, <1>1 DEF Outstanding
<1>3. CallerFrees(p) /\ call[p[1]].gave
  BY <1>1 DEF IInv, Owned
<1>4. /\ \A q : CallerFrees(q)' = CallerFrees(q)
      /\ \A e : Rounds(e)' = Rounds(e) /\ Members(e)' = Members(e)
  BY DEF CallerFrees, Rounds, Members
<1>5. \A q \in Outstanding' : q \in Outstanding /\ q[1] # p[1] /\ pdu # << q, "ok" >> /\ q \in PDUs
  <2>1. Members(p[1]) = 1
    BY <1>3 DEF CallerFrees, Members
  <2> QED BY <2>1, <1>1, <1>2, Alone, Known
<1>6. Types'
  BY DEF IInv, Types, TypeOK
<1>7. Made'
  BY DEF IInv, Made
<1>8. Queues'
  BY <1>2, Known DEF Queues, QueuesOf
<1>9. Rest'
  <2>1. PICK Y \in SUBSET Outstanding : Y = Outstanding'
    BY <1>2
  <2>2. \A q \in Y, s \in Outstanding \ Y : q[1] = s[1] => s[3] < q[3]
    BY <2>1, <1>2, <1>5
  <2>3. RestOf(Y)
    BY <2>2, Known, RestShrinks
  <2>4. RestOf(Outstanding')
    BY <2>1, <2>3
  <2> QED BY <2>4, <1>4 DEF Rest, RestOf
<1>10. Owned'
  <2>1. Excepted' = Excepted
    BY DEF Excepted, CallerFrees
  <2>2. << "pdu", p >> \in Excepted
    BY <1>3 DEF Excepted
  <2> QED BY <2>1, <2>2, <1>2 DEF IInv, Owned
<1>11. Awaiting'
  <2>1. mode = "wait" => now # p[1]
    BY <1>3 DEF IInv, Awaiting
  <2> QED BY <2>1, <1>2 DEF IInv, Awaiting, Abandoned
<1>12. \A q \in Outstanding' : InHand(q) = 0 /\ InHand(q)' = 0
  <2>1. \A q \in Outstanding' : << NoPdu, "ok" >> # << q, "ok" >>
    BY <1>5, Bounds
  <2> QED BY <2>1, <1>5 DEF InHand
<1>13. Counted'
  <2>1. ASSUME NEW q \in Outstanding', First(q)', mode = "wait" PROVE Tally(q)'
    <3>1. First(q)
      BY <2>1, <1>2, <1>5 DEF First
    <3> QED BY <2>1, <3>1, <1>5, <1>12 DEF IInv, Counted, Tally
  <2>2. \A q \in Outstanding' : CallerFrees(q)' => answered'[q[1]] <= InHand(q)'
    BY <1>4, <1>5, <1>12 DEF IInv, Counted
  <2> QED BY <2>1, <2>2, <1>4 DEF IInv, Counted
<1>14. Heard'
  <2>1. Forgotten(p[1])
    <3>1. kind[p[1]] \in {"open", "list"}
      BY <1>3 DEF CallerFrees
    <3>2. answered[p[1]] <= 1
      <4>1. answered[p[1]] <= InHand(p) /\ answered[p[1]] \in Nat
        BY <1>1, <1>3, Bounds DEF IInv, Counted, Types
      <4>2. InHand(p) = 0 \/ InHand(p) = 1
        BY DEF InHand
      <4> QED BY <4>1, <4>2
    <3> QED BY <3>1, <3>2, <1>3 DEF Forgotten
  <2>2. \A e : Forgotten(e)' = Forgotten(e)
    BY DEF Forgotten
  <2> QED BY <2>1, <2>2, <1>2 DEF IInv, Heard
<1>15. ResultIsTrue' /\ Ready' /\ GivenUp'
  BY <1>4 DEF IInv, ResultIsTrue, Ready, LeftReady, GivenUp
<1> QED BY <1>6, <1>7, <1>8, <1>9, <1>10, <1>11, <1>13, <1>14, <1>15 DEF IInv

\* Its second part: the PDU whose reply was being read.
LEMMA DestroyingCurrent ==
  ASSUME IInv, DestroyCurrent
  PROVE  IInv'
<1>1. /\ UNCHANGED << mode, now, kind, charge, outqueue, waitqueue, credits, line, strays, eased, answered >>
      /\ mode = "destroy" /\ pdu[1] # NoPdu /\ pdu' = << NoPdu, "ok" >>
      /\ IF life[pdu[1]] = "freed"
           THEN stale' = stale \cup {<< "pdu", pdu[1] >>} /\ UNCHANGED << call, life >>
           ELSE Callback(pdu[1], "shutdown", {}) /\ life' = FreePdu(pdu[1])
  BY DEF DestroyCurrent
<1>2. PICK p \in PDUs : p = pdu[1]
  BY <1>1, Known
<1>3. CASE life[p] = "freed"
  BY <1>1, <1>2, <1>3, Dangling
<1>4. CASE life[p] # "freed"
  <2>1. Current = {p} /\ p \in Outstanding /\ First(p) /\ p \notin Waiting /\ p \notin Unsent
    BY <1>2, CurrentFirst
  <2>2. Current' = {} /\ Waiting' = Waiting /\ Unsent' = Unsent /\ Outstanding' = Outstanding \ {p}
    <3>1. Current' = {} /\ Waiting' = Waiting /\ Unsent' = Unsent
      BY <1>1 DEF Current, Waiting, Unsent
    <3> QED BY <3>1, <2>1 DEF Outstanding
  <2>3. QueuesOf(outqueue', waitqueue', Current')
    BY <1>1, <2>2, Known DEF QueuesOf
  <2>4. \A q \in Outstanding \ {p} : q[1] = p[1] => p[3] < q[3]
    BY <1>2, AfterCurrent
  <2>5. Callback(p, "shutdown", {}) /\ life' = FreePdu(p)
    BY <1>1, <1>2, <1>4
  <2>6. life[p] = "live"
    BY <2>1, <1>4 DEF IInv, Owned
  <2>7. life' = [q \in PDUs |-> IF q \in {p} THEN "freed" ELSE life[q]]
    BY <2>5 DEF FreePdu, IInv, Types, TypeOK
  <2>8. /\ {p} \in SUBSET Outstanding /\ p \in {p} /\ \A q \in {p} : q[1] = p[1]
        /\ \A q \in Outstanding \ {p}, r \in {p} : q[1] = r[1] => r[3] < q[3]
        /\ Current' \subseteq Current /\ Waiting' \cup Unsent' \subseteq Waiting \cup Unsent
        /\ \A q \in Outstanding' : pdu = << q, "ok" >> => pdu' = pdu
    BY <1>2, <2>1, <2>2, <2>4
  <2>9. /\ call' \in [AllCalls -> CallRecords] /\ life' \in [PDUs -> {"none", "live", "freed"}]
        /\ Made' /\ Rest' /\ Owned' /\ Awaiting' /\ GivenUp' /\ Counted' /\ Heard' /\ Ready' /\ ResultIsTrue'
    <3>1. UNCHANGED << mode, now, kind, charge, line, answered >> /\ mode = "destroy"
      BY <1>1
    <3> QED BY ONLY IInv, <3>1, <2>5, <2>6, <2>7, <2>8, <2>1, <2>2, ShuttingDown
  <2>10. Types'
    BY <1>1, <2>9 DEF IInv, Types, TypeOK, CallRecords
  <2>11. Queues'
    BY <2>3 DEF Queues
  <2> QED BY <2>9, <2>10, <2>11 DEF IInv
<1> QED BY <1>3, <1>4

\* Its last loop: the PDUs that wait for a reply.
LEMMA DestroyingWaiting ==
  ASSUME IInv, DestroyWaiting
  PROVE  IInv'
<1>1. /\ UNCHANGED << mode, now, kind, charge, outqueue, pdu, credits, line, strays, eased, answered >>
      /\ mode = "destroy" /\ outqueue = << >> /\ pdu[1] = NoPdu /\ waitqueue # << >>
      /\ Callback(Head(waitqueue), "shutdown", {}) /\ life' = FreePdu(Head(waitqueue))
      /\ waitqueue' = Dequeued(waitqueue, Head(waitqueue))
  BY DEF DestroyWaiting, NextWaiting
<1>2. PICK p \in PDUs : p = Head(waitqueue) /\ p = waitqueue[1] /\ 1 \in 1..Len(waitqueue)
  BY <1>1, Known, TailFacts
<1>3. Waiting = Outstanding /\ Current = {} /\ Unsent = {} /\ p \in Outstanding
  <2>1. Current = {} /\ Unsent = {}
    BY <1>1, NoneUnsent DEF Current
  <2>2. p \in Waiting
    BY <1>2, Known, RangeFacts DEF Waiting
  <2> QED BY <2>1, <2>2 DEF Outstanding
<1>4. QueuesOf(outqueue, waitqueue', Current) /\ Range(waitqueue') = Range(waitqueue) \ {p}
  BY <1>1, <1>2, Known, DroppingOne
<1>5. /\ Current' = Current /\ Unsent' = Unsent /\ Waiting' = Waiting \ {p}
      /\ Outstanding' = Outstanding \ {p}
  <2>1. Current' = Current /\ Unsent' = Unsent /\ Waiting' = Waiting \ {p}
    BY <1>1, <1>4 DEF Current, Unsent, Waiting
  <2> QED BY <2>1, <1>3 DEF Outstanding
<1>6. \A q \in Outstanding \ {p} : q[1] = p[1] => p[3] < q[3]
  <2> SUFFICES ASSUME NEW q \in Outstanding, q # p, q[1] = p[1] PROVE p[3] < q[3]
    OBVIOUS
  <2>1. PICK j \in 1..Len(waitqueue) : waitqueue[j] = q
    BY <1>3, Known, RangeFacts DEF Waiting
  <2>2. 1 < j
    BY <1>2, <2>1
  <2>3. InOrder(waitqueue)
    BY Known DEF QueuesOf
  <2> QED BY <1>2, <2>1, <2>2, <2>3 DEF InOrder
<1>7. First(p)
  <2>1. \A q \in Outstanding : q[3] \in Nat
    BY Numbers
  <2> QED BY <1>3, <1>6, <2>1 DEF First
<1>8. Callback(p, "shutdown", {}) /\ life[p] = "live"
  BY <1>1, <1>2, <1>3 DEF IInv, Owned
<1>9. life' = [q \in PDUs |-> IF q \in {p} THEN "freed" ELSE life[q]]
  BY <1>1, <1>2 DEF FreePdu, IInv, Types, TypeOK
<1>10. /\ call' \in [AllCalls -> CallRecords] /\ life' \in [PDUs -> {"none", "live", "freed"}]
       /\ Made' /\ Rest' /\ Owned' /\ Awaiting' /\ GivenUp' /\ Counted' /\ Heard' /\ Ready' /\ ResultIsTrue'
  <2>1. /\ {p} \in SUBSET Outstanding /\ p \in {p} /\ \A q \in {p} : q[1] = p[1]
        /\ \A q \in Outstanding \ {p}, r \in {p} : q[1] = r[1] => r[3] < q[3]
        /\ Current' \subseteq Current /\ Waiting' \cup Unsent' \subseteq Waiting \cup Unsent
        /\ \A q \in Outstanding' : pdu = << q, "ok" >> => pdu' = pdu
        /\ p \in Outstanding
        /\ UNCHANGED << mode, now, kind, charge, line, answered >> /\ mode = "destroy"
    BY <1>1, <1>3, <1>5, <1>6
  <2> QED BY ONLY IInv, <2>1, <1>5, <1>7, <1>8, <1>9, ShuttingDown
<1>11. Types'
  <2>1. Range(waitqueue') \subseteq PDUs
    BY <1>4, Known DEF Waiting
  <2> QED BY <2>1, <1>1, <1>10 DEF IInv, Types, TypeOK, CallRecords
<1>12. Queues'
  BY <1>1, <1>4, <1>5 DEF Queues
<1> QED BY <1>10, <1>11, <1>12 DEF IInv
-----------------------------------------------------------------------------
(* The end of a call *)

\* A call ends with its callback's result; nothing of it is outstanding.
LEMMA Returning ==
  ASSUME IInv, Return
  PROVE  IInv'
<1>1. /\ UNCHANGED << now, kind, charge, outqueue, waitqueue, pdu, credits, line, strays, eased, answered, stale >>
      /\ mode = "wait" /\ call[now].done /\ mode' \in {"destroy", "idle"}
      /\ life' = [p \in PDUs |-> IF p[1] = now /\ CallerFrees(p) /\ life[p] = "live" THEN "freed" ELSE life[p]]
  BY DEF Return
<1>2. now \in Calls /\ now \in AllCalls /\ kind[now] # "none" /\ now # Disconnect
  BY <1>1, NowMade
<1>3. PICK d \in CallRecords : d = call[now]
  BY <1>2, Known
<1>4. PICK e \in CallRecords :
        /\ call' = [call EXCEPT ![now] = e] /\ e.result = d.status /\ e.gave = d.gave
        /\ e.op = (IF d.op = "ready" THEN "given" ELSE d.op)
        /\ e.status = d.status /\ e.done = d.done
  <2> DEFINE frees == d.cb = "live" /\ kind[now] # "open" /\ ~(kind[now] = "list" /\ d.status = "ok")
             f == [d EXCEPT !.result = d.status, !.op = IF @ = "ready" THEN "given" ELSE @,
                            !.cb = IF frees THEN "freed" ELSE @]
  <2>1. call' = [call EXCEPT ![now] = f]
    BY <1>3 DEF Return
  <2>2. /\ f \in CallRecords /\ f.result = d.status /\ f.gave = d.gave
        /\ f.op = (IF d.op = "ready" THEN "given" ELSE d.op)
        /\ f.status = d.status /\ f.done = d.done
    <3> HIDE DEF frees
    <3> QED BY <1>3 DEF CallRecords
  <2> QED BY <2>1, <2>2
<1>5. /\ call' \in [AllCalls -> CallRecords] /\ call'[now] = e
      /\ \A c \in AllCalls : c # now => call'[c] = call[c]
  BY <1>2, <1>4, Known
<1>6. /\ Outstanding' = Outstanding /\ Waiting' = Waiting /\ Unsent' = Unsent /\ Current' = Current
      /\ \A q : CallerFrees(q)' = CallerFrees(q) /\ InHand(q)' = InHand(q)
      /\ \A c : Rounds(c)' = Rounds(c) /\ Members(c)' = Members(c)
  BY <1>1 DEF Outstanding, Waiting, Unsent, Current, CallerFrees, InHand, Rounds, Members
<1>7. \A p \in Outstanding : p \in PDUs /\ p[1] \in AllCalls /\ p[1] # now
  <2>1. \A p \in Outstanding : p[1] # now
    BY <1>1, <1>2 DEF IInv, Awaiting, Abandoned
  <2> QED BY <2>1, Numbers
<1>8. \A p \in Outstanding : life'[p] = life[p] /\ call'[p[1]] = call[p[1]]
  BY <1>1, <1>5, <1>7
<1>9. Types'
  <2>1. life' \in [PDUs -> {"none", "live", "freed"}]
    BY <1>1 DEF IInv, Types, TypeOK
  <2> QED BY <2>1, <1>1, <1>5 DEF IInv, Types, TypeOK, CallRecords
<1>10. Made'
  <2>1. \A c \in AllCalls : kind[c] = "none" => call'[c] = call[c]
    BY <1>2, <1>5
  <2>2. kind[Disconnect] = "none"
    BY <1>1 DEF IInv, Made
  <2> QED BY <2>1, <2>2, <1>1 DEF IInv, Made
<1>11. Queues'
  BY <1>1, <1>6 DEF IInv, Queues
<1>12. Rest'
  BY <1>1, <1>6 DEF IInv, Rest, RestOf
<1>13. Owned'
  <2>1. \A p \in Waiting \cup Unsent \cup Current : p \in Outstanding
    BY DEF Outstanding
  <2>2. ~call[now].gave /\ call[now].result = "none"
    BY <1>1 DEF IInv, Awaiting
  <2>3. Excepted \subseteq Excepted'
    BY <2>2, <1>1, <1>5, ExceptedKept
  <2> QED BY <2>1, <2>3, <1>1, <1>6, <1>8 DEF IInv, Owned
<1>14. Awaiting'
  <2>1. \A p \in Outstanding : Abandoned(p[1])' \/ p[1] = Disconnect
    BY <1>1, <1>7, <1>8 DEF IInv, Awaiting, Abandoned
  <2> QED BY <2>1, <1>1, <1>6 DEF Awaiting
<1>15. Counted'
  <2>1. \A p \in Outstanding : (First(p)' => First(p)) /\ (Tally(p) => Tally(p)')
    BY <1>1, <1>6, <1>8 DEF First, Tally
  <2> QED BY <2>1, <1>1, <1>6 DEF IInv, Counted
<1>16. Heard'
  <2>1. \A c \in AllCalls : call'[c].gave = call[c].gave /\ (call'[c].op = "live" => call[c].op = "live")
    BY <1>3, <1>4, <1>5
  <2> QED BY <2>1, <1>1, <1>6 DEF IInv, Heard, Forgotten
<1>17. ResultIsTrue'
  <2> SUFFICES ASSUME NEW c \in Calls, call'[c].result \in {"ok", "fail"}
               PROVE  call'[c].result = "ok" <=> answered'[c] = Rounds(c)' * Members(c)'
    BY DEF ResultIsTrue
  <2>1. CASE c = now
    <3>1. call'[c].result = call[now].status
      BY <2>1, <1>3, <1>4, <1>5
    <3>2. call[now].status = "ok" <=> answered[now] = Rounds(now) * Members(now)
      BY <1>1 DEF IInv, Counted
    <3> QED BY <2>1, <3>1, <3>2, <1>1, <1>6
  <2>2. CASE c # now
    <3>1. call'[c] = call[c]
      BY <2>2, <1>5, Bounds
    <3> QED BY <3>1, <1>1, <1>6 DEF IInv, ResultIsTrue
  <2> QED BY <2>1, <2>2
<1>18. GivenUp'
  <2>1. ~call'[now].gave
    BY <1>1, <1>3, <1>4, <1>5 DEF IInv, Awaiting
  <2> QED BY <2>1, <1>1, <1>5 DEF IInv, GivenUp
<1>19. Ready'
  <2> SUFFICES ASSUME NEW c \in AllCalls, call'[c].op = "ready" PROVE LeftReady(c)'
    BY DEF Ready
  <2>1. c # now
    BY <1>4, <1>5
  <2>2. call'[c] = call[c] /\ LeftReady(c)
    BY <2>1, <1>5 DEF IInv, Ready
  <2> QED BY <2>1, <2>2, <1>1, <1>6 DEF LeftReady
<1> QED BY <1>9, <1>10, <1>11, <1>12, <1>13, <1>14, <1>15, <1>16, <1>17, <1>18, <1>19 DEF IInv

\* A PDU alone in its chain, taken out of whichever queue holds it.
LEMMA TakenOut ==
  ASSUME IInv, NEW p \in PDUs, p[2] = 1, p[3] = 1, Members(p[1]) = 1
  PROVE  /\ QueuesOf(Dequeued(outqueue, << p >>), Dequeued(waitqueue, p), Current)
         /\ Elems(Dequeued(outqueue, << p >>)) = Unsent \ {p}
         /\ Range(Dequeued(waitqueue, p)) = Waiting \ {p}
<1> DEFINE o == outqueue
<1>1. /\ QueuesOf(o, Dequeued(waitqueue, p), Current)
      /\ Range(Dequeued(waitqueue, p)) = Waiting \ {p}
  BY Known, DroppingOne DEF Waiting
<1>2. o \in Seq(Seq(PDUs)) /\ Chains(o) /\ Unsent = Elems(o) /\ Len(o) \in Nat
  <2>1. o \in Seq(Seq(PDUs)) /\ Chains(o) /\ Unsent = Elems(o)
    BY Known DEF QueuesOf
  <2> QED BY <2>1, RangeFacts
<1>3. p[1] \in AllCalls /\ p = << p[1], 1, 1 >>
  BY Bounds
<1>4. << p >> \in Seq(PDUs) /\ Len(<< p >>) = 1 /\ << p >>[1] = p /\ p \in Range(<< p >>) /\ Range(<< p >>) = {p}
  <2>1. << p >> \in Seq(PDUs) /\ Len(<< p >>) = 1 /\ << p >>[1] = p
    OBVIOUS
  <2>2. Range(<< p >>) = {p}
    <3>1. DOMAIN << p >> = 1..1
      OBVIOUS
    <3>2. 1..1 = {1}
      OBVIOUS
    <3> QED BY <2>1, <3>1, <3>2 DEF Range
  <2> QED BY <2>1, <2>2
<1>5. ASSUME NEW i \in 1..Len(o), p \in Range(o[i]) PROVE o[i] = << p >>
  <2>1. PICK c \in AllCalls, r \in 1..4, n \in 1..Width : o[i] = Row(c, r, n)
    BY <1>2, <1>5 DEF Chains
  <2>2. /\ Row(c, r, n) \in Seq(PDUs) /\ Len(Row(c, r, n)) = n
        /\ \A k \in 1..n : Row(c, r, n)[k] = << c, r, k >>
        /\ Range(Row(c, r, n)) = {<< c, r, k >> : k \in 1..n}
    BY RowFacts
  <2>3. PICK k \in 1..n : p = << c, r, k >>
    BY <1>5, <2>1, <2>2
  <2>4. c = p[1] /\ r = 1 /\ n \in 1..n /\ n \in Nat /\ n >= 1
    <3>1. n \in Nat /\ n >= 1
      BY Bounds
    <3> QED BY <2>3, <3>1
  <2>5. << c, r, n >> \in Unsent
    <3>1. << c, r, n >> \in Range(o[i])
      BY <2>1, <2>2, <2>4
    <3> QED BY <3>1, <1>2, ElemFacts
  <2>6. n = 1
    <3>1. << c, r, n >>[1] = c /\ << c, r, n >>[3] = n
      OBVIOUS
    <3>2. << c, r, n >>[3] <= Members(<< c, r, n >>[1])
      BY <2>5 DEF IInv, Rest, RestOf, Outstanding
    <3> QED BY <3>1, <3>2, <2>4
  <2>7. Len(o[i]) = 1 /\ o[i][1] = p /\ o[i] \in Seq(PDUs)
    BY <2>1, <2>2, <2>3, <2>6
  <2> QED BY <2>7, <1>4
<1>6. CASE \E i \in 1..Len(o) : o[i] = << p >>
  <2>1. PICK i \in 1..Len(o) : o[i] = << p >>
    BY <1>6
  <2>2. \A j \in 1..Len(o) : o[j] = o[i] => j = i
    BY <2>1, <1>2, <1>4 DEF Chains
  <2>3. Without(Seq(PDUs), o, Dequeued(o, << p >>), i)
    <3>1. o \in Seq(Seq(PDUs)) /\ i \in 1..Len(o) /\ \A j \in 1..Len(o) : o[j] = o[i] => j = i
      BY <1>2, <2>2
    <3>2. PICK d : d = Dequeued(o, o[i])
      OBVIOUS
    <3>3. /\ d \in Seq(Seq(PDUs)) /\ Len(d) = Len(o) - 1
          /\ \A j \in 1..Len(d) : d[j] = IF j < i THEN o[j] ELSE o[j + 1]
      BY ONLY <3>1, <3>2, RemoveFacts
    <3> QED BY <2>1, <3>2, <3>3 DEF Without
  <2>4. /\ QueuesOf(Dequeued(o, << p >>), Dequeued(waitqueue, p), Current)
        /\ Elems(Dequeued(o, << p >>)) = Elems(o) \ Range(o[i])
    BY <1>1, <2>3, DroppingChain
  <2> QED BY <1>1, <1>2, <1>4, <2>1, <2>4
<1>7. CASE \A i \in 1..Len(o) : o[i] # << p >>
  <2>1. Dequeued(o, << p >>) = o
    BY <1>2, <1>7, NotThere
  <2>2. p \notin Elems(o)
    BY <1>2, <1>5, <1>7, ElemFacts
  <2> QED BY <1>1, <1>2, <2>1, <2>2
<1> QED BY <1>6, <1>7

\* A call is given up because the socket or poll failed, before its callback or after
\* it; what it leaves behind is Abandoned.
LEMMA Abandoning ==
  ASSUME IInv, NEW how \in {"lost", "polled"}, Abandon(how), line = "up" => how = "polled"
  PROVE  IInv'
<1>0. /\ now \in Calls /\ now \in AllCalls /\ now # Disconnect
      /\ kind[now] \in KindNames \ {"none", "disconnect"}
      /\ mode = "wait" /\ ~call[now].gave /\ call[now].result = "none"
  <2>1. mode = "wait"
    BY DEF Abandon
  <2> QED BY <2>1, NowMade DEF IInv, Awaiting
<1>1. PICK first \in PDUs : first = << now, 1, 1 >>
  <2>1. 1 \in 1..4 /\ 1 \in 1..Width
    BY Bounds
  <2>2. << now, 1, 1 >> \in PDUs
    BY <1>0, <2>1 DEF PDUs
  <2> QED BY <2>2
<1>2. /\ UNCHANGED << now, kind, charge, pdu, credits, line, eased, answered, stale >>
      /\ mode' \in {"destroy", "idle"}
      /\ IF CallerFrees(first)
           THEN /\ outqueue' = Dequeued(outqueue, << first >>)
                /\ waitqueue' = Dequeued(waitqueue, first)
                /\ strays' = strays \cup ({first} \cap Range(waitqueue))
                /\ life' = FreePdu(first)
           ELSE UNCHANGED << outqueue, waitqueue, strays, life >>
  BY <1>1 DEF Abandon
<1>3. first[1] = now /\ first[2] = 1 /\ first[3] = 1
  BY <1>1
<1>4. PICK d \in CallRecords : d = call[now]
  BY <1>0, Known
<1>5. PICK e \in CallRecords :
        /\ call' = [call EXCEPT ![now] = e] /\ e.gave /\ e.result = how /\ e.op = d.op
        /\ e.status = d.status /\ e.done = d.done
        /\ e.cb = IF GivesUpCb(kind[now]) THEN "freed" ELSE d.cb
  <2> DEFINE f == [d EXCEPT !.gave = TRUE, !.result = how, !.cb = IF GivesUpCb(kind[now]) THEN "freed" ELSE @]
  <2>1. call' = [call EXCEPT ![now] = f]
    <3>1. call' = [call EXCEPT ![now].gave = TRUE, ![now].result = how,
                               ![now].cb = IF GivesUpCb(kind[now]) THEN "freed" ELSE @]
      BY DEF Abandon
    <3> QED BY <3>1, <1>0, <1>4, Known DEF CallRecords
  <2>2. /\ f \in CallRecords /\ f.gave /\ f.result = how /\ f.op = d.op
        /\ f.status = d.status /\ f.done = d.done
        /\ f.cb = IF GivesUpCb(kind[now]) THEN "freed" ELSE d.cb
    BY <1>4 DEF CallRecords
  <2> QED BY <2>1, <2>2
<1>6. /\ call' \in [AllCalls -> CallRecords] /\ call'[now] = e
      /\ \A c \in AllCalls : c # now => call'[c] = call[c]
  BY <1>0, <1>5, Known
<1>7. /\ \A q : CallerFrees(q)' = CallerFrees(q) /\ InHand(q)' = InHand(q)
      /\ \A c : Rounds(c)' = Rounds(c) /\ Members(c)' = Members(c)
      /\ Current' = Current
  BY <1>2 DEF CallerFrees, InHand, Rounds, Members, Current
<1>8. PICK G : G = IF CallerFrees(first) THEN {first} ELSE {}
  OBVIOUS
<1>9. G # {} => Members(now) = 1 /\ kind[now] \in {"open", "list"} /\ G = {first} /\ CallerFrees(first)
  BY <1>3, <1>8 DEF CallerFrees, Members
<1>10. /\ QueuesOf(outqueue', waitqueue', Current)
       /\ Waiting' = Waiting \ G /\ Unsent' = Unsent \ G
       /\ life' = [q \in PDUs |-> IF q \in G THEN "freed" ELSE life[q]]
  <2>1. CASE CallerFrees(first)
    <3>1. Members(first[1]) = 1
      BY <2>1, <1>3 DEF CallerFrees, Members
    <3>2. /\ QueuesOf(Dequeued(outqueue, << first >>), Dequeued(waitqueue, first), Current)
          /\ Elems(Dequeued(outqueue, << first >>)) = Unsent \ {first}
          /\ Range(Dequeued(waitqueue, first)) = Waiting \ {first}
      BY <1>3, <3>1, TakenOut
    <3>3. Unsent' = Elems(outqueue') /\ Waiting' = Range(waitqueue')
      BY DEF Unsent, Elems, Waiting
    <3> QED BY <2>1, <3>2, <3>3, <1>2, <1>8 DEF FreePdu, IInv, Types, TypeOK
  <2>2. CASE ~CallerFrees(first)
    <3>1. UNCHANGED << outqueue, waitqueue, life >> /\ G = {}
      BY <2>2, <1>2, <1>8
    <3>2. Unsent' = Unsent /\ Waiting' = Waiting
      BY <3>1 DEF Unsent, Waiting
    <3> QED BY <3>1, <3>2, Known DEF IInv, Types, TypeOK
  <2> QED BY <2>1, <2>2
<1>11. /\ Outstanding' \subseteq Outstanding
       /\ \A q \in Outstanding : q \in Outstanding' \/ (q = first /\ q \in G)
       /\ \A q \in Outstanding' : q \in PDUs /\ q[1] \in AllCalls
       /\ \A q \in Waiting' \cup Unsent' : q \notin G /\ q \in Waiting \cup Unsent
  <2>1. Outstanding' \subseteq Outstanding
    BY <1>7, <1>10 DEF Outstanding
  <2>2. \A q \in Outstanding : q \in Outstanding' \/ (q = first /\ q \in G)
    <3>1. Waiting' = Waiting \ G /\ Unsent' = Unsent \ G /\ Current' = Current
      BY <1>7, <1>10
    <3>2. \A q \in G : q = first
      BY <1>8
    <3>3. Outstanding' = Waiting' \cup Unsent' \cup Current'
      BY DEF Outstanding
    <3>4. ASSUME NEW q \in Outstanding, q \notin Outstanding' PROVE q \in G
      <4>1. q \in Waiting \/ q \in Unsent \/ q \in Current
        BY <3>4 DEF Outstanding
      <4> QED BY <3>1, <3>3, <3>4, <4>1
    <3> QED BY <3>2, <3>4
  <2>3. \A q \in Outstanding' : q \in PDUs
    BY <2>1, Known
  <2>4. \A q \in PDUs : q[1] \in AllCalls
    BY Bounds
  <2>5. \A q \in Waiting' \cup Unsent' : q \notin G /\ q \in Waiting \cup Unsent
    BY <1>10
  <2> QED BY <2>1, <2>2, <2>3, <2>4, <2>5
<1>12. G # {} /\ first \in Outstanding => \A q \in Outstanding : q[1] = now => q = first
  BY <1>3, <1>9, Alone
<1>13. \A q \in Outstanding : q[1] = now => call[now].op = "live" /\ call[now].cb # "freed"
  BY <1>0 DEF IInv, Owned
<1>14. Types'
  <2>1. life' \in [PDUs -> {"none", "live", "freed"}]
    BY <1>10 DEF IInv, Types, TypeOK
  <2>2. Range(waitqueue') \subseteq PDUs
    BY <1>10, Known DEF Waiting
  <2>3. strays' \subseteq PDUs
    BY <1>2 DEF IInv, Types, TypeOK
  <2> QED BY <2>1, <2>2, <2>3, <1>2, <1>6 DEF IInv, Types, TypeOK, CallRecords
<1>15. Made'
  <2>1. \A c \in AllCalls : kind[c] = "none" => call'[c] = call[c]
    BY <1>0, <1>6
  <2>2. kind[Disconnect] = "none"
    BY <1>0 DEF IInv, Made
  <2> QED BY <2>1, <2>2, <1>2 DEF IInv, Made
<1>16. Queues'
  BY <1>7, <1>10 DEF Queues
<1>17. Rest'
  <2>1. PICK Y \in SUBSET Outstanding : Y = Outstanding'
    BY <1>11
  <2>2. ASSUME NEW q \in Y, NEW r \in Outstanding \ Y, q[1] = r[1] PROVE r[3] < q[3]
    <3>1. r = first /\ r \in G
      BY <2>1, <2>2, <1>11
    <3>2. q = first
      BY <2>2, <3>1, <1>3, <1>12
    <3> QED BY <2>2, <3>1, <3>2
  <2>3. RestOf(Y)
    BY <2>2, Known, RestShrinks
  <2>4. RestOf(Outstanding')
    BY <2>1, <2>3
  <2> QED BY <2>4, <1>2, <1>7 DEF Rest, RestOf
<1>18. Owned'
  <2>1. ASSUME NEW q \in Waiting' \cup Unsent' PROVE life'[q] = "live"
    <3>1. life[q] = "live" /\ q \in PDUs
      BY <2>1, <1>11, Known DEF IInv, Owned
    <3> QED BY <2>1, <3>1, <1>10, <1>11
  <2>2. ASSUME NEW q \in Current'
        PROVE  life'[q] = "live" \/ (life'[q] = "freed" /\ CallerFrees(q)' /\ call'[q[1]].gave)
    <3>1. /\ life[q] = "live" \/ (life[q] = "freed" /\ CallerFrees(q) /\ call[q[1]].gave)
          /\ q \in PDUs /\ q[1] \in AllCalls
      BY <2>2, <1>7, <1>11, Known DEF IInv, Owned, Outstanding
    <3>2. life'[q] = IF q \in G THEN "freed" ELSE life[q]
      BY <3>1, <1>10
    <3>3. q \in G => CallerFrees(q) /\ q[1] = now
      BY <1>3, <1>8
    <3>4. q[1] = now \/ call[q[1]].gave => call'[q[1]].gave
      BY <3>1, <1>5, <1>6
    <3> QED BY <3>1, <3>2, <3>3, <3>4, <1>7
  <2>3. ASSUME NEW q \in Outstanding'
        PROVE  /\ call'[q[1]].op = "live"
               /\ call'[q[1]].cb = "freed" => call'[q[1]].gave /\ kind'[q[1]] \in {"list", "close"}
    <3>1. CASE q[1] # now
      <4>1. call'[q[1]] = call[q[1]]
        BY <3>1, <1>6, <1>11
      <4> QED BY <4>1, <1>2, <1>11 DEF IInv, Owned
    <3>2. CASE q[1] = now
      <4>1. call'[q[1]].op = "live" /\ call'[q[1]].gave
        BY <3>2, <1>4, <1>5, <1>6, <1>11, <1>13
      <4>2. call'[q[1]].cb = "freed" => kind[now] \in {"list", "close"}
        BY <3>2, <1>4, <1>5, <1>6, <1>11, <1>13 DEF GivesUpCb
      <4> QED BY <4>1, <4>2, <3>2, <1>2
    <3> QED BY <3>1, <3>2
  <2>4. stale' \subseteq Excepted'
    <3>1. Excepted \subseteq Excepted'
      BY <1>0, <1>2, <1>5, <1>6, ExceptedKept
    <3> QED BY <3>1, <1>2 DEF IInv, Owned
  <2> QED BY <2>1, <2>2, <2>3, <2>4 DEF Owned
<1>19. Awaiting'
  <2>1. ASSUME NEW q \in Outstanding' PROVE Abandoned(q[1])' \/ q[1] = Disconnect
    <3>1. CASE q[1] = now
      BY <3>1, <1>5, <1>6 DEF Abandoned
    <3>2. CASE q[1] # now
      <4>1. Abandoned(q[1]) \/ q[1] = Disconnect
        BY <3>2, <1>11 DEF IInv, Awaiting
      <4> QED BY <4>1, <3>2, <1>6, <1>11 DEF Abandoned
    <3> QED BY <3>1, <3>2
  <2> QED BY <2>1, <1>2 DEF Awaiting
<1>20. Counted'
  <2>1. ASSUME NEW q \in Outstanding', First(q)' PROVE Tally(q)'
    <3>1. q \in Outstanding /\ q[1] \in AllCalls /\ q[3] \in Nat
      BY <1>11, Numbers
    <3>2. First(q)
      <4> SUFFICES ASSUME NEW x \in Outstanding, x[1] = q[1] PROVE q[3] <= x[3]
        BY DEF First
      <4>1. CASE x \in Outstanding'
        BY <4>1, <2>1 DEF First
      <4>2. CASE x \notin Outstanding'
        <5>1. x = first /\ G # {}
          BY <4>2, <1>11
        <5>2. q = x
          BY <5>1, <3>1, <1>3, <1>12
        <5> QED BY <5>2, <3>1
      <4> QED BY <4>1, <4>2
    <3>3. Tally(q)
      BY <3>1, <3>2, <1>0 DEF IInv, Counted
    <3>4. call'[q[1]].status = call[q[1]].status
      BY <3>1, <1>4, <1>5, <1>6
    <3> QED BY <3>3, <3>4, <1>2, <1>7 DEF Tally
  <2> QED BY <2>1, <1>2, <1>7, <1>11 DEF IInv, Counted
<1>21. Heard'
  <2>1. ASSUME NEW c \in AllCalls, call'[c].op = "live"
        PROVE  Forgotten(c)' \/ \E q \in Outstanding' : q[1] = c
    <3>1. CASE c # now
      <4>1. Forgotten(c) \/ \E q \in Outstanding : q[1] = c
        BY <2>1, <3>1, <1>6 DEF IInv, Heard
      <4>2. Forgotten(c)' = Forgotten(c)
        BY <3>1, <1>2, <1>6 DEF Forgotten
      <4>3. \A q \in Outstanding : q[1] = c => q \in Outstanding'
        BY <3>1, <1>3, <1>11
      <4> QED BY <4>1, <4>2, <4>3
    <3>2. CASE c = now
      <4>1. PICK q \in Outstanding : q[1] = now
        BY <2>1, <3>2, <1>0, <1>4, <1>5, <1>6 DEF IInv, Heard, Forgotten
      <4>2. CASE q \in Outstanding'
        BY <3>2, <4>1, <4>2
      <4>3. CASE q \notin Outstanding'
        <5>1. q = first /\ G # {}
          BY <4>1, <4>3, <1>11
        <5>2. answered[now] <= InHand(first) /\ answered[now] \in Nat
          BY <4>1, <5>1, <1>0, <1>3, <1>9 DEF IInv, Counted, Types
        <5>3. InHand(first) = 0 \/ InHand(first) = 1
          BY DEF InHand
        <5>4. answered'[now] <= 1
          BY <5>2, <5>3, <1>2
        <5> QED BY <3>2, <5>1, <5>4, <1>2, <1>5, <1>6, <1>9 DEF Forgotten
      <4> QED BY <4>2, <4>3
    <3> QED BY <3>1, <3>2
  <2> QED BY <2>1 DEF Heard
<1>22. ResultIsTrue'
  <2> SUFFICES ASSUME NEW c \in Calls, call'[c].result \in {"ok", "fail"}
               PROVE  call'[c].result = "ok" <=> answered'[c] = Rounds(c)' * Members(c)'
    BY DEF ResultIsTrue
  <2>1. c # now /\ call'[c] = call[c]
    BY <1>5, <1>6, Bounds
  <2> QED BY <2>1, <1>2, <1>7 DEF IInv, ResultIsTrue
<1>23. GivenUp'
  BY <1>2, <1>5, <1>6 DEF IInv, GivenUp
<1>24. Ready'
  <2> SUFFICES ASSUME NEW c \in AllCalls, call'[c].op = "ready" PROVE LeftReady(c)'
    BY DEF Ready
  <2>1. call[c].op = "ready"
    BY <1>4, <1>5, <1>6
  <2>2. LeftReady(c)
    BY <2>1 DEF IInv, Ready
  <2>3. call'[c].gave
    BY <2>2, <1>5, <1>6 DEF LeftReady
  <2> QED BY <2>2, <2>3, <1>2, <1>7 DEF LeftReady
<1> QED BY <1>14, <1>15, <1>16, <1>17, <1>18, <1>19, <1>20, <1>21, <1>22, <1>23, <1>24 DEF IInv

-----------------------------------------------------------------------------
(* Disconnecting *)

\* smb2_queue_pdu, whether it sends the chain or leaves it.
LEMMA Queued ==
  ASSUME IInv, NEW C, QueuesOf(outqueue, waitqueue, C), NEW c \in AllCalls, NEW r \in 1..4, NEW n \in 1..Width,
         \A p \in Unsent \cup Waiting \cup C : p[1] # c, QueueAndTry(Row(c, r, n))
  PROVE  /\ QueuesOf(outqueue', waitqueue', C) /\ credits' \in Nat
         /\ Waiting' \cup Unsent' = Waiting \cup Unsent \cup Range(Row(c, r, n))
<1> DEFINE ch == Row(c, r, n)
           o == Append(outqueue, ch)
<1>1. QueuesOf(o, waitqueue, C) /\ Elems(o) = Unsent \cup Range(ch)
  <2>1. \A p \in Elems(outqueue) \cup Range(waitqueue) \cup C : p[1] # c
    BY Known DEF Waiting
  <2> QED BY <2>1, Known, Queueing
<1>2. (Len(o) = 1 /\ SendHead(o)) \/ (outqueue' = o /\ UNCHANGED << waitqueue, credits >>)
  BY DEF QueueAndTry
<1> HIDE DEF ch, o
<1>3. Waiting' = Range(waitqueue') /\ Unsent' = Elems(outqueue') /\ Waiting = Range(waitqueue)
  BY DEF Waiting, Unsent, Elems
<1>4. CASE SendHead(o)
  <2>1. /\ o # << >> /\ outqueue' = Tail(o) /\ waitqueue' = waitqueue \o Head(o)
        /\ ChainCharge(Head(o)) <= credits /\ credits' = credits - ChainCharge(Head(o))
    BY <1>4 DEF SendHead, CreditsSuffice, Spent
  <2>2. /\ \E e \in AllCalls, l \in 1..4, m \in 1..Width : Head(o) = Row(e, l, m)
        /\ QueuesOf(outqueue', waitqueue', C)
        /\ Elems(outqueue') \cup Range(waitqueue') = Elems(o) \cup Range(waitqueue)
    BY <1>1, <2>1, Sending
  <2>3. ChainCharge(Head(o)) \in Nat /\ credits \in Nat
    BY <2>2, Charges
  <2>4. credits' \in Nat
    BY <2>1, <2>3
  <2> QED BY <1>1, <1>3, <2>2, <2>4 DEF ch
<1>5. CASE outqueue' = o /\ UNCHANGED << waitqueue, credits >>
  BY <1>1, <1>3, <1>5, Charges DEF ch
<1> QED BY <1>2, <1>4, <1>5

\* nativeDisconnect queues a tree disconnect and does not wait for it.
LEMMA Disconnecting ==
  ASSUME IInv, NativeDisconnect
  PROVE  IInv'
<1>1. /\ UNCHANGED << now, charge, pdu, line, strays, eased, answered, stale >>
      /\ mode = "idle" /\ now > 0 /\ mode' = "destroy"
      /\ kind' = [kind EXCEPT ![Disconnect] = "disconnect"]
      /\ call' = [call EXCEPT ![Disconnect] = NewCall("disconnect")]
      /\ QueueAndTry(<< << Disconnect, 1, 1 >> >>)
      /\ life' = [life EXCEPT ![<< Disconnect, 1, 1 >>] = "live"]
  BY DEF NativeDisconnect
<1>2. PICK c \in AllCalls : c = Disconnect
  BY Bounds
<1>3. PICK n \in 1..Width : n = 1
  BY Bounds
<1>4. /\ kind[c] = "none" /\ answered[c] = 0 /\ c \notin Calls
  BY <1>1, <1>2, Bounds DEF IInv, Made
<1>5. /\ Row(c, 1, n) = << << c, 1, 1 >> >> /\ Range(Row(c, 1, n)) = {<< c, 1, 1 >>}
      /\ << c, 1, 1 >> \in PDUs
  <2>1. /\ Row(c, 1, n) \in Seq(PDUs) /\ Len(Row(c, 1, n)) = 1 /\ Row(c, 1, n)[1] = << c, 1, 1 >>
        /\ Range(Row(c, 1, n)) = {<< c, 1, k >> : k \in 1..n}
    <3>1. 1 \in 1..4
      OBVIOUS
    <3>2. /\ Row(c, 1, n) \in Seq(PDUs) /\ Len(Row(c, 1, n)) = n /\ Row(c, 1, n)[1] = << c, 1, 1 >>
          /\ Range(Row(c, 1, n)) = {<< c, 1, k >> : k \in 1..n}
      BY <3>1, RowFacts
    <3> QED BY <3>2, <1>3
  <2>2. 1..n = {1}
    BY <1>3
  <2>3. Range(Row(c, 1, n)) = {<< c, 1, 1 >>}
    BY <2>1, <2>2
  <2>4. << c, 1, 1 >> \in PDUs
    BY <1>3 DEF PDUs
  <2>5. Row(c, 1, n) = << << c, 1, 1 >> >>
    <3>1. << << c, 1, 1 >> >> \in Seq(PDUs) /\ Len(<< << c, 1, 1 >> >>) = 1 /\ << << c, 1, 1 >> >>[1] = << c, 1, 1 >>
      BY <2>4
    <3> QED BY <3>1, <2>1
  <2> QED BY <2>3, <2>4, <2>5
<1>6. \A p \in Outstanding : p[1] # c
  BY <1>4 DEF IInv, Rest, RestOf
<1>7. /\ QueuesOf(outqueue', waitqueue', Current) /\ credits' \in Nat
      /\ Waiting' \cup Unsent' = Waiting \cup Unsent \cup Range(Row(c, 1, n))
  <2>1. \A p \in Unsent \cup Waiting \cup Current : p[1] # c
    BY <1>6 DEF Outstanding
  <2>2. QueueAndTry(Row(c, 1, n)) /\ QueuesOf(outqueue, waitqueue, Current)
    BY <1>1, <1>2, <1>5, Known
  <2>3. 1 \in 1..4
    OBVIOUS
  <2> QED BY <2>1, <2>2, <2>3, Queued
<1>8. Current' = Current /\ Outstanding' = Outstanding \cup Range(Row(c, 1, n))
  <2>1. Current' = Current
    BY <1>1 DEF Current
  <2> QED BY <2>1, <1>7 DEF Outstanding
<1>9. life' = [p \in PDUs |-> IF p \in Range(Row(c, 1, n)) THEN "live" ELSE life[p]]
  BY <1>1, <1>2, <1>5 DEF IInv, Types, TypeOK
<1>10. /\ kind' = [kind EXCEPT ![c] = "disconnect"] /\ call' = [call EXCEPT ![c] = NewCall("disconnect")]
       /\ "disconnect" \in KindNames \ {"none"}
  BY <1>1, <1>2 DEF KindNames
<1>11. /\ kind' \in [AllCalls -> KindNames] /\ kind'[c] = "disconnect" /\ n = Members(c)'
       /\ \A e \in AllCalls : e # c => kind'[e] = kind[e] /\ Rounds(e)' = Rounds(e) /\ Members(e)' = Members(e)
       /\ \A p \in PDUs : p[1] # c => CallerFrees(p)' = CallerFrees(p)
  <2>1. kind \in [AllCalls -> KindNames] /\ "disconnect" \in KindNames /\ kind' = [kind EXCEPT ![c] = "disconnect"]
    BY <1>10, Known
  <2>2. PICK k \in KindNames : k = "disconnect" /\ kind' = [kind EXCEPT ![c] = k]
    BY <2>1
  <2>3. /\ kind' \in [AllCalls -> KindNames] /\ kind'[c] = k
        /\ \A e \in AllCalls : e # c => kind'[e] = kind[e] /\ Rounds(e)' = Rounds(e) /\ Members(e)' = Members(e)
        /\ \A p \in PDUs : p[1] # c => CallerFrees(p)' = CallerFrees(p)
        /\ Members(c)' = IF k = "change" THEN Width ELSE 1
    BY ONLY <2>1, <2>2, KindKept
  <2> QED BY <1>3, <2>2, <2>3
<1>12. /\ call' \in [AllCalls -> CallRecords] /\ life' \in [PDUs -> {"none", "live", "freed"}]
       /\ Rest' /\ Owned' /\ GivenUp' /\ Heard' /\ Ready'
  <2>1. PICK k \in KindNames \ {"none"} : k = "disconnect"
    BY <1>10
  <2>2. /\ kind' = [kind EXCEPT ![c] = k] /\ call' = [call EXCEPT ![c] = NewCall(k)]
        /\ stale' = stale /\ answered' = answered /\ kind[c] = "none" /\ n = Members(c)'
        /\ line' = line /\ mode = "idle"
    BY <1>1, <1>4, <1>10, <1>11, <2>1
  <2> QED BY ONLY IInv, <2>2, <1>7, <1>8, <1>9, Beginning
<1>13. call'[c] = NewCall("disconnect") /\ \A e \in AllCalls : e # c => call'[e] = call[e]
  BY <1>10, Known
<1>14. Types'
  <2>1. Range(waitqueue') \subseteq PDUs
    <3>1. Waiting' \subseteq PDUs
      BY <1>5, <1>7, Known
    <3> QED BY <3>1 DEF Waiting
  <2> QED BY <2>1, <1>1, <1>7, <1>11, <1>12 DEF IInv, Types, TypeOK, CallRecords
<1>15. Made'
  <2>1. ASSUME NEW e \in Calls PROVE kind'[e] # "disconnect" /\ (kind'[e] = "none" <=> e > now')
    <3>1. kind'[e] = kind[e]
      BY <1>4, <1>11, Bounds
    <3> QED BY <3>1, <1>1 DEF IInv, Made
  <2>2. \A e \in AllCalls : kind'[e] = "none" => call'[e] = NotMade /\ answered'[e] = 0
    BY <1>1, <1>11, <1>13 DEF IInv, Made
  <2> QED BY <2>1, <2>2, <1>1, <1>2, <1>11 DEF Made
<1>16. Queues'
  BY <1>7, <1>8 DEF Queues
<1>17. \A p \in Outstanding' : p \in Outstanding \/ (p = << c, 1, 1 >> /\ p[1] = Disconnect)
  BY <1>2, <1>5, <1>8
<1>18. \A p \in Outstanding : p \in PDUs /\ p[1] \in AllCalls /\ call'[p[1]] = call[p[1]]
  <2>1. \A p \in Outstanding : p \in PDUs /\ p[1] \in AllCalls
    BY Numbers
  <2> QED BY <2>1, <1>6, <1>13
<1>19. Awaiting'
  <2>1. \A p \in Outstanding' : Abandoned(p[1])' \/ p[1] = Disconnect
    <3>1. \A p \in Outstanding : Abandoned(p[1]) \/ p[1] = Disconnect
      BY <1>1 DEF IInv, Awaiting
    <3>2. \A p \in Outstanding : Abandoned(p[1])' \/ p[1] = Disconnect
      BY <3>1, <1>1, <1>18 DEF Abandoned
    <3> QED BY <3>2, <1>17
  <2> QED BY <2>1, <1>1 DEF Awaiting
<1>20. Counted'
  <2>1. ASSUME NEW p \in Outstanding', CallerFrees(p)' PROVE answered'[p[1]] <= InHand(p)'
    <3>1. CASE p \in Outstanding
      <4>1. CallerFrees(p)
        BY <3>1, <2>1, <1>6, <1>11, <1>18
      <4> QED BY <3>1, <4>1, <1>1 DEF IInv, Counted, InHand
    <3>2. CASE p \notin Outstanding
      <4>1. kind'[p[1]] = "disconnect"
        BY <3>2, <1>2, <1>11, <1>17
      <4> QED BY <4>1, <2>1 DEF CallerFrees
    <3> QED BY <3>1, <3>2
  <2> QED BY <2>1, <1>1 DEF Counted
<1>21. ResultIsTrue'
  <2> SUFFICES ASSUME NEW e \in Calls, call'[e].result \in {"ok", "fail"}
               PROVE  call'[e].result = "ok" <=> answered'[e] = Rounds(e)' * Members(e)'
    BY DEF ResultIsTrue
  <2>1. e # c /\ e \in AllCalls
    BY <1>4, Bounds
  <2> QED BY <2>1, <1>1, <1>11, <1>13 DEF IInv, ResultIsTrue
<1> QED BY <1>12, <1>14, <1>15, <1>16, <1>19, <1>20, <1>21 DEF IInv

-----------------------------------------------------------------------------
(* Callbacks of the call in progress, and late ones of calls given up *)

\* What is known of the PDU whose reply is being read.
LEMMA ReadingOne ==
  ASSUME IInv, mode = "wait", line = "up", NEW p \in PDUs, NEW st \in {"ok", "fail"}, pdu = << p, st >>,
         NEW c, c = p[1]
  PROVE  /\ c \in AllCalls /\ c \in Calls /\ kind[c] # "none" /\ kind[Disconnect] = "none"
         /\ Current = {p} /\ p \in Outstanding /\ First(p) /\ p \notin Waiting /\ p \notin Unsent
         /\ \A q \in Outstanding : q \in PDUs /\ q[1] \in AllCalls
         /\ \A q \in Outstanding : q[1] = c => q[2] = p[2] /\ (q # p => p[3] < q[3])
         /\ p[2] \in 1..Rounds(c) /\ p[3] \in 1..Members(c)
         /\ Rounds(c) \in Nat /\ Members(c) \in Nat /\ (Rounds(c) = 1 \/ Members(c) = 1)
         /\ p[3] < Members(c) => \E q \in Outstanding : q[1] = c /\ q[3] = p[3] + 1
         /\ call[c].op = "live"
         /\ call[c].cb = "freed" => call[c].gave /\ kind[c] \in {"list", "close"}
         /\ call[c].gave \/ (c = now /\ ~call[c].done)
         /\ call[c].status \in {"ok", "fail"} /\ answered[c] \in Nat
         /\ call[c].status = "ok" => answered[c] = Before(p) + (IF st = "ok" THEN 1 ELSE 0)
         /\ call[c].status = "fail" => answered[c] < Before(p) + (IF st = "ok" THEN 1 ELSE 0)
<1>1. Current = {p} /\ p \in Outstanding /\ First(p) /\ p \notin Waiting /\ p \notin Unsent
  BY CurrentFirst
<1>2. c \in AllCalls /\ c \in Calls /\ kind[c] # "none" /\ kind[Disconnect] = "none"
  <2>1. c \in AllCalls /\ kind[c] # "none" /\ kind[Disconnect] = "none"
    BY <1>1, Bounds DEF IInv, Rest, RestOf, Made
  <2> QED BY <2>1 DEF AllCalls
<1>3. \A q \in Outstanding : q \in PDUs /\ q[1] \in AllCalls /\ q[3] \in Nat
  BY Numbers
<1>4. \A q \in Outstanding : q[1] = c => q[2] = p[2]
  BY <1>1 DEF IInv, Rest, RestOf
<1>5. \A q \in Outstanding : q[1] = c /\ q # p => p[3] < q[3]
  BY AfterCurrent
<1>6. /\ p[2] \in 1..Rounds(c) /\ p[3] \in 1..Members(c)
      /\ Rounds(c) \in Nat /\ Members(c) \in Nat /\ (Rounds(c) = 1 \/ Members(c) = 1)
  <2>1. Rounds(c) \in 1..4 /\ Members(c) \in 1..Width /\ (Rounds(c) = 1 \/ Members(c) = 1)
    BY <1>2, Known
  <2>2. p[2] \in 1..4 /\ p[3] \in 1..Width /\ p[2] <= Rounds(c) /\ p[3] <= Members(c)
    BY <1>1, Bounds DEF IInv, Rest, RestOf
  <2> QED BY <2>1, <2>2, Bounds
<1>7. p[3] < Members(c) => \E q \in Outstanding : q[1] = c /\ q[3] = p[3] + 1
  BY <1>1 DEF IInv, Rest, RestOf
<1>8. /\ call[c].op = "live"
      /\ call[c].cb = "freed" => call[c].gave /\ kind[c] \in {"list", "close"}
  BY <1>1 DEF IInv, Owned
<1>9. call[c].gave \/ (c = now /\ ~call[c].done)
  <2>1. c # Disconnect
    BY <1>2
  <2> QED BY <2>1, <1>1 DEF IInv, Awaiting, Abandoned
<1>10. InHand(p) = IF st = "ok" THEN 1 ELSE 0
  BY DEF InHand
<1>11. Tally(p)
  BY <1>1 DEF IInv, Counted
<1>12. answered[c] \in Nat
  BY <1>2 DEF IInv, Types
<1> QED BY <1>1, <1>2, <1>3, <1>4, <1>5, <1>6, <1>7, <1>8, <1>9, <1>10, <1>11, <1>12 DEF Tally

\* What a callback keeps, whatever is then outstanding.
LEMMA Answering ==
  ASSUME IInv, mode = "wait", line = "up", NEW p \in PDUs, NEW st \in {"ok", "fail"}, pdu = << p, st >>,
         NEW c, c = p[1], Callback(p, st, Released(c)), pdu' = << NoPdu, "ok" >>,
         UNCHANGED << mode, now, kind, charge, line, answered >>
  PROVE  /\ call' \in [AllCalls -> CallRecords] /\ \A e \in AllCalls : e # c => call'[e] = call[e]
         /\ call'[c].gave = call[c].gave /\ call'[c].result = call[c].result
         /\ Ends(p, st) => call'[c].op \in {"ready", "freed"}
         /\ Ends(p, st) /\ call'[c].op = "ready" =>
              FirstFailure(c, st) = "ok" /\ kind[c] \in {"open", "list"}
         /\ Ends(p, st) /\ ~call[c].gave => call'[c].done /\ call'[c].status = FirstFailure(c, st)
         /\ ~Ends(p, st) =>
              /\ call'[c].op = "live" /\ call'[c].cb = call[c].cb /\ call'[c].done = call[c].done
              /\ call'[c].status = FirstFailure(c, st)
         /\ stale' \subseteq Excepted' /\ Current' = {}
         /\ \A q \in PDUs : InHand(q)' = 0
         /\ \A q \in PDUs : q # p => InHand(q) = 0
         /\ \A q : CallerFrees(q)' = CallerFrees(q)
         /\ \A e : Rounds(e)' = Rounds(e) /\ Members(e)' = Members(e)
         /\ Made' /\ ResultIsTrue' /\ GivenUp'
<1>1. /\ c \in AllCalls /\ c \in Calls /\ kind[c] # "none" /\ kind[Disconnect] = "none"
      /\ call[c].op = "live"
      /\ call[c].cb = "freed" => call[c].gave /\ kind[c] \in {"list", "close"}
      /\ call[c].gave \/ (c = now /\ ~call[c].done)
  BY ReadingOne
<1>2. st \in Status /\ st # "shutdown"
  BY DEF Status
<1>3. /\ call' \in [AllCalls -> CallRecords] /\ \A e \in AllCalls : e # c => call'[e] = call[e]
      /\ call'[c].gave = call[c].gave /\ call'[c].result = call[c].result
      /\ Ends(p, st) => call'[c].op \in {"ready", "freed"}
      /\ Ends(p, st) /\ call'[c].op = "ready" =>
           FirstFailure(c, st) = "ok" /\ kind[c] \in {"open", "list"}
      /\ Ends(p, st) /\ ~call[c].gave => call'[c].done /\ call'[c].status = FirstFailure(c, st)
      /\ ~Ends(p, st) =>
           /\ call'[c].op = "live" /\ call'[c].cb = call[c].cb /\ call'[c].done = call[c].done
           /\ call'[c].status = FirstFailure(c, st)
      /\ \A x \in stale' : x \in stale \/ x \in Released(c) \/ (x = << "cb", c >> /\ call[c].cb = "freed")
  BY <1>1, <1>2, Known, Callbacks
<1>4. stale' \subseteq Excepted'
  <2>1. Excepted \subseteq Excepted'
    BY <1>3, ExceptedKept
  <2>2. Released(c) \subseteq Excepted /\ (call[c].cb = "freed" => << "cb", c >> \in Excepted)
    BY <1>1, LateUse
  <2> QED BY <2>1, <2>2, <1>3 DEF IInv, Owned
<1>5. /\ Current' = {} /\ \A q \in PDUs : InHand(q)' = 0
      /\ \A q \in PDUs : q # p => InHand(q) = 0
  <2>1. Current' = {}
    BY DEF Current
  <2>2. \A q \in PDUs : << NoPdu, "ok" >> # << q, "ok" >>
    BY Bounds
  <2> QED BY <2>1, <2>2 DEF InHand
<1>6. /\ \A q : CallerFrees(q)' = CallerFrees(q)
      /\ \A e : Rounds(e)' = Rounds(e) /\ Members(e)' = Members(e)
  BY DEF CallerFrees, Rounds, Members
<1>7. Made'
  <2>1. \A e \in AllCalls : kind[e] = "none" => call'[e] = call[e]
    BY <1>1, <1>3
  <2> QED BY <2>1 DEF IInv, Made
<1>8. \A e \in AllCalls : call'[e].gave = call[e].gave /\ call'[e].result = call[e].result
  BY <1>3
<1>9. ResultIsTrue'
  <2>1. \A e \in Calls : e \in AllCalls
    BY Bounds
  <2> QED BY <2>1, <1>6, <1>8 DEF IInv, ResultIsTrue
<1>10. GivenUp'
  BY <1>8 DEF IInv, GivenUp
<1> QED BY <1>3, <1>4, <1>5, <1>6, <1>7, <1>9, <1>10

\* A callback leaves the other calls as they were: who waits, what they own, what
\* was counted and what is left of them.
LEMMA OthersKept ==
  ASSUME IInv, mode = "wait", NEW c \in AllCalls, NEW p \in Outstanding, p[1] = c,
         \A e \in AllCalls : e # c => call'[e] = call[e],
         \A q \in Outstanding : q[1] # c => q \in Outstanding',
         \A q \in Outstanding' : q[1] # c => q \in Outstanding,
         \A q \in PDUs : InHand(q)' = 0,
         \A q \in PDUs : q # p => InHand(q) = 0,
         UNCHANGED << mode, now, kind, answered >>
  PROVE  /\ \A q \in Outstanding' : q[1] # c =>
              /\ call'[q[1]].op = "live"
              /\ call'[q[1]].cb = "freed" => call'[q[1]].gave /\ kind'[q[1]] \in {"list", "close"}
              /\ (mode = "wait" /\ q[1] = now /\ ~call'[now].done) \/ call'[q[1]].gave \/ q[1] = Disconnect
              /\ First(q)' => Tally(q)'
              /\ CallerFrees(q)' => answered'[q[1]] <= InHand(q)'
         /\ now # c /\ ~call'[now].done => \E q \in Outstanding' : q[1] = now
         /\ \A e \in AllCalls : e # c /\ call'[e].op = "live" =>
              Forgotten(e)' \/ \E q \in Outstanding' : q[1] = e
         /\ \A e \in AllCalls : e # c /\ call'[e].op = "ready" => LeftReady(e)'
<1>1. now \in AllCalls
  BY NowMade
<1>2. ASSUME NEW q \in Outstanding', q[1] # c
      PROVE  /\ call'[q[1]].op = "live"
             /\ call'[q[1]].cb = "freed" => call'[q[1]].gave /\ kind'[q[1]] \in {"list", "close"}
             /\ (mode = "wait" /\ q[1] = now /\ ~call'[now].done) \/ call'[q[1]].gave \/ q[1] = Disconnect
             /\ First(q)' => Tally(q)'
             /\ CallerFrees(q)' => answered'[q[1]] <= InHand(q)'
  <2>1. q \in Outstanding /\ q \in PDUs /\ q[1] \in AllCalls /\ q # p
    BY <1>2, Numbers
  <2>2. call'[q[1]] = call[q[1]]
    BY <1>2, <2>1
  <2>3. InHand(q) = 0 /\ InHand(q)' = 0
    BY <2>1
  <2>4. First(q)' => First(q)
    BY <1>2 DEF First
  <2>5. First(q) => Tally(q)
    BY <2>1 DEF IInv, Counted
  <2>6. First(q)' => Tally(q)'
    BY <2>2, <2>3, <2>4, <2>5 DEF Tally
  <2>7. CallerFrees(q)' => answered'[q[1]] <= InHand(q)'
    <3>1. CallerFrees(q)' = CallerFrees(q)
      BY DEF CallerFrees
    <3> QED BY <3>1, <2>1, <2>3 DEF IInv, Counted
  <2>8. /\ call'[q[1]].op = "live"
        /\ call'[q[1]].cb = "freed" => call'[q[1]].gave /\ kind'[q[1]] \in {"list", "close"}
    BY <2>1, <2>2 DEF IInv, Owned
  <2>9. (mode = "wait" /\ q[1] = now /\ ~call'[now].done) \/ call'[q[1]].gave \/ q[1] = Disconnect
    BY <2>1, <2>2 DEF IInv, Awaiting, Abandoned
  <2> QED BY <2>6, <2>7, <2>8, <2>9
<1>3. ASSUME now # c, ~call'[now].done PROVE \E q \in Outstanding' : q[1] = now
  BY <1>1, <1>3 DEF IInv, Awaiting
<1>4. ASSUME NEW e \in AllCalls, e # c, call'[e].op = "live"
      PROVE  Forgotten(e)' \/ \E q \in Outstanding' : q[1] = e
  <2>1. call'[e] = call[e] /\ Forgotten(e)' = Forgotten(e)
    BY <1>4 DEF Forgotten
  <2>2. Forgotten(e) \/ \E q \in Outstanding : q[1] = e
    BY <1>4, <2>1 DEF IInv, Heard
  <2> QED BY <1>4, <2>1, <2>2
<1>5. ASSUME NEW e \in AllCalls, e # c, call'[e].op = "ready" PROVE LeftReady(e)'
  <2>1. call'[e] = call[e] /\ LeftReady(e)
    BY <1>5 DEF IInv, Ready
  <2>2. Rounds(e)' = Rounds(e)
    BY DEF Rounds
  <2> QED BY <2>1, <2>2 DEF LeftReady
<1> QED BY <1>2, <1>3, <1>4, <1>5

\* The last reply of a round queues the next round.
LEMMA NextRound ==
  ASSUME IInv, ReadBody, NEW p \in PDUs, pdu = << p, "ok" >>, life[p] # "freed", Continues(p, "ok")
  PROVE  IInv'
<1> DEFINE freed == IF CallerFrees(p) THEN life ELSE FreePdu(p)
<1>0. PICK c : c = p[1]
  OBVIOUS
<1>1. /\ UNCHANGED << mode, now, kind, charge, line, strays, eased, answered >> /\ pdu' = << NoPdu, "ok" >>
      /\ mode = "wait" /\ line = "up"
      /\ Callback(p, "ok", Released(c)) /\ QueueAndTry(Chain(c, p[2] + 1))
      /\ life' = [q \in PDUs |-> IF q \in Range(Chain(c, p[2] + 1)) THEN "live" ELSE freed[q]]
  BY <1>0 DEF ReadBody
<1> HIDE DEF freed
<1>2. /\ c \in AllCalls /\ p[1] = c /\ Current = {p} /\ p \in Outstanding /\ First(p)
      /\ p \notin Waiting /\ p \notin Unsent
      /\ \A q \in Outstanding : q \in PDUs /\ q[1] \in AllCalls
      /\ p[2] \in 1..Rounds(c) /\ p[3] \in 1..Members(c) /\ Rounds(c) \in Nat /\ Members(c) \in Nat
      /\ Rounds(c) = 1 \/ Members(c) = 1
      /\ kind[c] # "none" /\ call[c].status \in {"ok", "fail"} /\ answered[c] \in Nat
      /\ call[c].cb = "freed" => call[c].gave /\ kind[c] \in {"list", "close"}
      /\ call[c].gave \/ (c = now /\ ~call[c].done)
      /\ call[c].status = "ok" => answered[c] = Before(p) + 1
      /\ call[c].status = "fail" => answered[c] < Before(p) + 1
  BY <1>0, <1>1, ReadingOne
<1>3. PICK r \in 1..Rounds(c) : r = p[2] + 1 /\ r # 1 /\ Members(c) = 1 /\ p[3] = 1 /\ p[2] = r - 1 /\ r \in 1..4
  <2>1. p[2] < Rounds(c)
    BY <1>2 DEF Continues
  <2>2. Rounds(c) \in 1..4
    BY <1>2, Known
  <2>3. Members(c) = 1 /\ p[3] = 1
    BY <1>2, <2>1
  <2> QED BY <1>2, <2>1, <2>2, <2>3
<1>4. \A q \in Outstanding : q[1] = c => q = p
  BY <1>2, <1>3, Alone
<1>5. PICK q \in PDUs : /\ q = << c, r, 1 >> /\ q[1] = c /\ q[2] = r /\ q[3] = 1
                        /\ Range(Chain(c, r)) = {q}
  <2>1. Chain(c, r) = Row(c, r, Members(c)) /\ Members(c) \in 1..Width
    BY <1>2, Known, ChainFacts
  <2>2. Range(Chain(c, r)) = {<< c, r, k >> : k \in 1..1}
    BY <2>1, <1>2, <1>3, RowFacts
  <2>3. << c, r, 1 >> \in PDUs
    BY <2>1, <1>2, <1>3 DEF PDUs
  <2>4. 1..1 = {1}
    OBVIOUS
  <2>5. Range(Chain(c, r)) = {<< c, r, 1 >>}
    BY <2>2, <2>4
  <2> QED BY <2>3, <2>5
<1>6. ~Ends(p, "ok")
  BY <1>2, <1>3 DEF Ends
<1>7. /\ call' \in [AllCalls -> CallRecords] /\ \A e \in AllCalls : e # c => call'[e] = call[e]
      /\ call'[c].gave = call[c].gave /\ call'[c].result = call[c].result /\ call'[c].cb = call[c].cb
      /\ call'[c].status = FirstFailure(c, "ok") /\ call'[c].op = "live" /\ call'[c].done = call[c].done
      /\ stale' \subseteq Excepted' /\ Current' = {}
      /\ \A x \in PDUs : InHand(x)' = 0
      /\ \A x \in PDUs : x # p => InHand(x) = 0
      /\ \A x : CallerFrees(x)' = CallerFrees(x)
      /\ \A e : Rounds(e)' = Rounds(e) /\ Members(e)' = Members(e)
      /\ Made' /\ ResultIsTrue' /\ GivenUp'
  BY <1>1, <1>2, <1>6, Answering
<1>8. /\ QueuesOf(outqueue', waitqueue', {}) /\ credits' \in Nat
      /\ Waiting' \cup Unsent' = Waiting \cup Unsent \cup {q}
  <2>1. QueuesOf(outqueue, waitqueue, {})
    BY Known DEF QueuesOf
  <2>2. Chain(c, r) = Row(c, r, Members(c)) /\ Members(c) \in 1..Width
    BY <1>2, Known, ChainFacts
  <2>3. QueueAndTry(Row(c, r, Members(c)))
    BY <1>1, <1>2, <1>3, <2>2
  <2>4. PICK n \in 1..Width : n = Members(c)
    BY <2>2
  <2>5. \A x \in Unsent \cup Waiting \cup {} : x[1] # c
    BY <1>2, <1>4 DEF Outstanding
  <2>6. /\ QueuesOf(outqueue', waitqueue', {}) /\ credits' \in Nat
        /\ Waiting' \cup Unsent' = Waiting \cup Unsent \cup Range(Row(c, r, n))
    <3>1. QueueAndTry(Row(c, r, n))
      BY <2>3, <2>4
    <3>2. c \in AllCalls /\ r \in 1..4
      BY <1>2, <1>3
    <3> DEFINE C == {}
    <3>3. QueuesOf(outqueue, waitqueue, C) /\ \A x \in Unsent \cup Waiting \cup C : x[1] # c
      BY <2>1, <2>5
    <3>4. QueuesOf(outqueue', waitqueue', C) /\ credits' \in Nat
          /\ Waiting' \cup Unsent' = Waiting \cup Unsent \cup Range(Row(c, r, n))
      <4> HIDE DEF C
      <4> QED BY <3>1, <3>2, <3>3, Queued
    <3> QED BY <3>4
  <2> QED BY <1>5, <2>2, <2>4, <2>6
<1>9. Outstanding' = (Outstanding \ {p}) \cup {q}
  BY <1>2, <1>7, <1>8 DEF Outstanding
<1>10. /\ life' \in [PDUs -> {"none", "live", "freed"}] /\ life'[q] = "live"
       /\ \A x \in PDUs : x # p /\ life[x] = "live" => life'[x] = "live"
  <2>1. life' = [x \in PDUs |-> IF x \in {q} THEN "live" ELSE freed[x]]
    BY <1>1, <1>2, <1>3, <1>5
  <2>2. /\ freed \in [PDUs -> {"none", "live", "freed"}]
        /\ \A x \in PDUs : x # p => freed[x] = life[x]
    BY DEF freed, FreePdu, IInv, Types, TypeOK
  <2> QED BY <2>1, <2>2
<1>11. Types'
  <2>1. Range(waitqueue') \subseteq PDUs
    <3>1. Waiting' \subseteq PDUs
      BY <1>8, Known
    <3> QED BY <3>1 DEF Waiting
  <2> QED BY <2>1, <1>1, <1>7, <1>8, <1>10 DEF IInv, Types, TypeOK, CallRecords
<1>12. Queues'
  BY <1>7, <1>8 DEF Queues
<1>13. /\ \A x \in Outstanding' : x = q \/ (x \in Outstanding /\ x # p /\ x[1] # c)
       /\ \A x \in Outstanding : x[1] # c => x \in Outstanding'
       /\ q \in Outstanding'
  BY <1>2, <1>4, <1>9
<1>14. Rest'
  <2>1. \A x \in Outstanding' :
          kind'[x[1]] # "none" /\ x[2] <= Rounds(x[1])' /\ x[3] <= Members(x[1])'
    BY <1>1, <1>2, <1>3, <1>5, <1>7, <1>13 DEF IInv, Rest, RestOf
  <2>2. \A x, y \in Outstanding' : x[1] = y[1] => x[2] = y[2]
    BY <1>5, <1>13 DEF IInv, Rest, RestOf
  <2>3. ASSUME NEW x \in Outstanding', x[3] < Members(x[1])'
        PROVE  \E y \in Outstanding' : y[1] = x[1] /\ y[3] = x[3] + 1
    <3>1. x # q
      BY <2>3, <1>3, <1>5, <1>7
    <3>2. PICK y \in Outstanding : y[1] = x[1] /\ y[3] = x[3] + 1
      BY <2>3, <3>1, <1>7, <1>13 DEF IInv, Rest, RestOf
    <3> QED BY <3>1, <3>2, <1>13
  <2> QED BY <2>1, <2>2, <2>3 DEF Rest, RestOf
<1>15. /\ \A x \in Outstanding' : x[1] # c =>
            /\ call'[x[1]].op = "live"
            /\ call'[x[1]].cb = "freed" => call'[x[1]].gave /\ kind'[x[1]] \in {"list", "close"}
            /\ (mode = "wait" /\ x[1] = now /\ ~call'[now].done) \/ call'[x[1]].gave \/ x[1] = Disconnect
            /\ First(x)' => Tally(x)'
            /\ CallerFrees(x)' => answered'[x[1]] <= InHand(x)'
       /\ now # c /\ ~call'[now].done => \E x \in Outstanding' : x[1] = now
       /\ \A e \in AllCalls : e # c /\ call'[e].op = "live" =>
            Forgotten(e)' \/ \E x \in Outstanding' : x[1] = e
       /\ \A e \in AllCalls : e # c /\ call'[e].op = "ready" => LeftReady(e)'
  <2>1. \A x \in Outstanding' : x[1] # c => x \in Outstanding
    BY <1>5, <1>13
  <2> QED BY <2>1, <1>1, <1>2, <1>7, <1>13, OthersKept
<1>16. Owned'
  <2>1. \A x \in Waiting' \cup Unsent' : life'[x] = "live"
    <3>1. \A x \in Waiting \cup Unsent : x \in PDUs /\ x # p /\ life[x] = "live"
      BY <1>2, Known DEF IInv, Owned
    <3> QED BY <3>1, <1>8, <1>10
  <2>2. /\ call'[c].op = "live"
        /\ call'[c].cb = "freed" => call'[c].gave /\ kind'[c] \in {"list", "close"}
    BY <1>1, <1>2, <1>7
  <2> QED BY <2>1, <2>2, <1>5, <1>7, <1>13, <1>15 DEF Owned
<1>17. Awaiting'
  <2>1. now' # 0 /\ ~call'[now].gave /\ call'[now].result = "none"
    <3>1. now # 0 /\ ~call[now].gave /\ call[now].result = "none" /\ now \in AllCalls
      BY <1>1, NowMade DEF IInv, Awaiting
    <3> QED BY <3>1, <1>1, <1>7
  <2>2. ~call'[now].done => \E x \in Outstanding' : x[1] = now
    BY <1>5, <1>13, <1>15
  <2>3. \A x \in Outstanding' :
          (mode = "wait" /\ x[1] = now /\ ~call'[now].done) \/ call'[x[1]].gave \/ x[1] = Disconnect
    BY <1>1, <1>2, <1>5, <1>7, <1>13, <1>15
  <2> QED BY <2>1, <2>2, <2>3, <1>1 DEF Awaiting, Abandoned
<1>18. Counted'
  <2>1. Tally(q)'
    <3>1. Before(q) = Before(p) + 1
      BY <1>2, <1>3, <1>5 DEF Before
    <3>2. call'[c].status = call[c].status
      BY <1>2, <1>7 DEF FirstFailure
    <3>3. Before(p) \in Int /\ InHand(q)' = 0
      BY <1>2, <1>7, Bounds DEF Before
    <3> QED BY <3>1, <3>2, <3>3, <1>1, <1>2, <1>5 DEF Tally
  <2>2. ~CallerFrees(q)'
    BY <1>3, <1>5, <1>7 DEF CallerFrees
  <2>3. now # c => (call'[now].done => /\ call'[now].status \in {"ok", "fail"}
                                       /\ call'[now].status = "ok" <=> answered'[now] = Rounds(now)' * Members(now)')
    <3>1. now \in AllCalls
      BY <1>1, NowMade
    <3> QED BY <3>1, <1>1, <1>7 DEF IInv, Counted
  <2>4. now = c => ~call'[now].done
    <3>1. ~call[now].gave
      BY <1>1 DEF IInv, Awaiting
    <3> QED BY <3>1, <1>2, <1>7
  <2>5. \A x \in Outstanding' : First(x)' => Tally(x)'
    BY <2>1, <1>13, <1>15
  <2>6. \A x \in Outstanding' : CallerFrees(x)' => answered'[x[1]] <= InHand(x)'
    BY <2>2, <1>13, <1>15
  <2>7. now' = now
    BY <1>1
  <2> QED BY <2>3, <2>4, <2>5, <2>6, <2>7 DEF Counted
<1>19. Heard'
  BY <1>5, <1>13, <1>15 DEF Heard
<1>20. Ready'
  BY <1>7, <1>15 DEF Ready
<1> QED BY <1>7, <1>11, <1>12, <1>14, <1>16, <1>17, <1>18, <1>19, <1>20 DEF IInv

\* Any other reply takes its PDU out of what is outstanding.
LEMMA ReplyHandled ==
  ASSUME IInv, ReadBody, NEW p \in PDUs, NEW st \in {"ok", "fail"}, pdu = << p, st >>, life[p] # "freed",
         ~Continues(p, st)
  PROVE  IInv'
<1>0. PICK c : c = p[1]
  OBVIOUS
<1>1. /\ UNCHANGED << mode, now, kind, charge, line, strays, eased, answered >> /\ pdu' = << NoPdu, "ok" >>
      /\ mode = "wait" /\ line = "up"
      /\ Callback(p, st, Released(c)) /\ UNCHANGED << outqueue, waitqueue, credits >>
      /\ life' = IF CallerFrees(p) THEN life ELSE FreePdu(p)
  BY <1>0 DEF ReadBody
<1>2. /\ c \in AllCalls /\ p[1] = c /\ Current = {p} /\ p \in Outstanding /\ p \notin Waiting /\ p \notin Unsent
      /\ \A q \in Outstanding : q \in PDUs /\ q[1] \in AllCalls
      /\ \A q \in Outstanding : q[1] = c => q[2] = p[2] /\ (q # p => p[3] < q[3])
      /\ p[2] \in 1..Rounds(c) /\ p[3] \in 1..Members(c) /\ Rounds(c) \in Nat /\ Members(c) \in Nat
      /\ Rounds(c) = 1 \/ Members(c) = 1
      /\ p[3] < Members(c) => \E q \in Outstanding : q[1] = c /\ q[3] = p[3] + 1
      /\ kind[c] # "none" /\ call[c].status \in {"ok", "fail"} /\ answered[c] \in Nat
      /\ call[c].cb = "freed" => call[c].gave /\ kind[c] \in {"list", "close"}
      /\ call[c].gave \/ (c = now /\ ~call[c].done)
      /\ call[c].status = "ok" => answered[c] = Before(p) + (IF st = "ok" THEN 1 ELSE 0)
      /\ call[c].status = "fail" => answered[c] < Before(p) + (IF st = "ok" THEN 1 ELSE 0)
  BY <1>0, <1>1, ReadingOne
<1>3. /\ call' \in [AllCalls -> CallRecords] /\ \A e \in AllCalls : e # c => call'[e] = call[e]
      /\ call'[c].gave = call[c].gave /\ call'[c].result = call[c].result
      /\ Ends(p, st) => call'[c].op \in {"ready", "freed"}
      /\ Ends(p, st) /\ call'[c].op = "ready" =>
           FirstFailure(c, st) = "ok" /\ kind[c] \in {"open", "list"}
      /\ Ends(p, st) /\ ~call[c].gave => call'[c].done /\ call'[c].status = FirstFailure(c, st)
      /\ ~Ends(p, st) =>
           /\ call'[c].op = "live" /\ call'[c].cb = call[c].cb /\ call'[c].done = call[c].done
           /\ call'[c].status = FirstFailure(c, st)
      /\ stale' \subseteq Excepted' /\ Current' = {}
      /\ \A q \in PDUs : InHand(q)' = 0
      /\ \A q \in PDUs : q # p => InHand(q) = 0
      /\ \A x : CallerFrees(x)' = CallerFrees(x)
      /\ \A e : Rounds(e)' = Rounds(e) /\ Members(e)' = Members(e)
      /\ Made' /\ ResultIsTrue' /\ GivenUp'
  BY <1>1, <1>2, Answering
<1>4. /\ Waiting' = Waiting /\ Unsent' = Unsent /\ Outstanding' = Outstanding \ {p}
  <2>1. Waiting' = Waiting /\ Unsent' = Unsent
    BY <1>1 DEF Waiting, Unsent
  <2> QED BY <2>1, <1>2, <1>3 DEF Outstanding
<1>5. /\ life' \in [PDUs -> {"none", "live", "freed"}]
      /\ \A q \in Outstanding' : life'[q] = life[q]
  <2>1. life' \in [PDUs -> {"none", "live", "freed"}]
    BY <1>1 DEF FreePdu, IInv, Types, TypeOK
  <2>2. \A q \in PDUs : q # p => life'[q] = life[q]
    BY <1>1 DEF FreePdu, IInv, Types, TypeOK
  <2> QED BY <2>1, <2>2, <1>2, <1>4
<1>6. ~Ends(p, st) => p[3] < Members(c) /\ Rounds(c) = 1 /\ p[2] = 1
  <2>1. p[3] # Members(c) \/ (st = "ok" /\ p[2] # Rounds(c)) \/ Ends(p, st)
    BY <1>2 DEF Ends
  <2>2. st = "ok" => p[2] = Rounds(c)
    BY <1>2 DEF Continues
  <2> QED BY <2>1, <2>2, <1>2
<1>7. Ends(p, st) => /\ p[3] = Members(c) /\ (st = "ok" => p[2] = Rounds(c))
                     /\ \A q \in Outstanding' : q[1] # c
  <2> SUFFICES ASSUME Ends(p, st)
               PROVE  /\ p[3] = Members(c) /\ (st = "ok" => p[2] = Rounds(c))
                      /\ \A q \in Outstanding' : q[1] # c
    OBVIOUS
  <2>1. p[3] = Members(c) /\ (st = "ok" => p[2] = Rounds(c))
    BY <1>2 DEF Ends
  <2>2. ASSUME NEW q \in Outstanding, q # p, q[1] = c PROVE FALSE
    <3>1. p[3] < q[3] /\ q \in PDUs
      BY <1>2, <2>2
    <3>2. q[3] <= Members(c) /\ q[3] \in Nat
      BY <2>2, <3>1, Bounds DEF IInv, Rest, RestOf
    <3> QED BY <3>1, <3>2, <2>1, <1>2
  <2> QED BY <2>1, <2>2, <1>4
<1>8. Types'
  BY <1>1, <1>3, <1>5 DEF IInv, Types, TypeOK, CallRecords
<1>9. Queues'
  BY <1>1, <1>3, Known DEF Queues, QueuesOf
<1>10. Rest'
  <2>1. PICK Y \in SUBSET Outstanding : Y = Outstanding'
    BY <1>4
  <2>2. \A q \in Y, x \in Outstanding \ Y : q[1] = x[1] => x[3] < q[3]
    BY <2>1, <1>2, <1>4
  <2>3. RestOf(Y)
    BY <2>2, Known, RestShrinks
  <2>4. RestOf(Outstanding')
    BY <2>1, <2>3
  <2> QED BY <2>4, <1>1, <1>3 DEF Rest, RestOf
<1>11. \A q \in Outstanding' : q \in Outstanding /\ q # p /\ q \in PDUs /\ (q[1] = c => ~Ends(p, st))
  BY <1>2, <1>4, <1>7
<1>12. /\ \A x \in Outstanding' : x[1] # c =>
            /\ call'[x[1]].op = "live"
            /\ call'[x[1]].cb = "freed" => call'[x[1]].gave /\ kind'[x[1]] \in {"list", "close"}
            /\ (mode = "wait" /\ x[1] = now /\ ~call'[now].done) \/ call'[x[1]].gave \/ x[1] = Disconnect
            /\ First(x)' => Tally(x)'
            /\ CallerFrees(x)' => answered'[x[1]] <= InHand(x)'
       /\ now # c /\ ~call'[now].done => \E x \in Outstanding' : x[1] = now
       /\ \A e \in AllCalls : e # c /\ call'[e].op = "live" =>
            Forgotten(e)' \/ \E x \in Outstanding' : x[1] = e
       /\ \A e \in AllCalls : e # c /\ call'[e].op = "ready" => LeftReady(e)'
  <2>1. /\ \A q \in Outstanding : q[1] # c => q \in Outstanding'
        /\ \A q \in Outstanding' : q[1] # c => q \in Outstanding
    BY <1>2, <1>4
  <2> QED BY <2>1, <1>1, <1>2, <1>3, OthersKept
<1>13. Owned'
  <2>1. \A q \in Waiting' \cup Unsent' : life'[q] = "live"
    <3>1. \A q \in Waiting' \cup Unsent' : q \in Outstanding'
      BY DEF Outstanding
    <3> QED BY <3>1, <1>4, <1>5 DEF IInv, Owned
  <2>2. ~Ends(p, st) =>
          /\ call'[c].op = "live"
          /\ call'[c].cb = "freed" => call'[c].gave /\ kind'[c] \in {"list", "close"}
    BY <1>1, <1>2, <1>3
  <2> QED BY <2>1, <2>2, <1>3, <1>11, <1>12 DEF Owned
<1>14. ~Ends(p, st) => \E q \in Outstanding' : q[1] = c
  <2> SUFFICES ASSUME ~Ends(p, st) PROVE \E q \in Outstanding' : q[1] = c
    OBVIOUS
  <2>1. PICK q \in Outstanding : q[1] = c /\ q[3] = p[3] + 1
    BY <1>2, <1>6
  <2>2. q # p
    BY <2>1, <1>2
  <2> QED BY <2>1, <2>2, <1>4
<1>15. now \in AllCalls /\ now # 0 /\ ~call[now].gave /\ call[now].result = "none"
  BY <1>1, NowMade DEF IInv, Awaiting
<1>16. now = c => (call'[now].done <=> Ends(p, st))
  BY <1>2, <1>3, <1>15
<1>17. Awaiting'
  <2>1. now' # 0 /\ ~call'[now].gave /\ call'[now].result = "none"
    BY <1>1, <1>3, <1>15
  <2>2. ~call'[now].done => \E q \in Outstanding' : q[1] = now
    BY <1>12, <1>14, <1>16
  <2>3. \A q \in Outstanding' :
          (mode = "wait" /\ q[1] = now /\ ~call'[now].done) \/ call'[q[1]].gave \/ q[1] = Disconnect
    BY <1>1, <1>2, <1>3, <1>11, <1>12, <1>16
  <2> QED BY <2>1, <2>2, <2>3, <1>1 DEF Awaiting, Abandoned
<1>18. Before(p) \in Int /\ Before(p) = p[2] + p[3] - 2 /\ p[2] \in Nat /\ p[3] \in Nat
  BY <1>2 DEF Before
<1>19. ASSUME Ends(p, st)
       PROVE  /\ FirstFailure(c, st) \in {"ok", "fail"}
              /\ FirstFailure(c, st) = "ok" <=> answered[c] = Rounds(c) * Members(c)
  <2>1. p[3] = Members(c) /\ (st = "ok" => p[2] = Rounds(c)) /\ p[2] <= Rounds(c)
    BY <1>19, <1>2, <1>7
  <2>2. Rounds(c) * Members(c) = Rounds(c) + Members(c) - 1
    <3>1. CASE Rounds(c) = 1
      BY <3>1, <1>2
    <3>2. CASE Members(c) = 1
      BY <3>2, <1>2
    <3> QED BY <3>1, <3>2, <1>2
  <2>3. FirstFailure(c, st) = IF call[c].status = "ok" THEN st ELSE call[c].status
    BY DEF FirstFailure
  <2>4. FirstFailure(c, st) = "ok" => answered[c] = Rounds(c) + Members(c) - 1
    BY <2>1, <2>3, <1>2, <1>18
  <2>5. FirstFailure(c, st) = "fail" => answered[c] < Rounds(c) + Members(c) - 1
    <3>1. CASE call[c].status = "fail"
      BY <3>1, <2>1, <1>2, <1>18
    <3>2. CASE call[c].status = "ok" /\ st = "fail"
      BY <3>2, <2>1, <1>2, <1>18
    <3> QED BY <3>1, <3>2, <2>3, <1>2
  <2>6. FirstFailure(c, st) \in {"ok", "fail"}
    BY <2>3, <1>2
  <2>7. PICK m \in Nat : m = Rounds(c) * Members(c) /\ m = Rounds(c) + Members(c) - 1
    <3>1. Rounds(c) + Members(c) - 1 \in Nat
      BY <1>2
    <3> QED BY <3>1, <2>2
  <2>8. FirstFailure(c, st) = "ok" <=> answered[c] = m
    BY <2>4, <2>5, <2>6, <2>7, <1>2
  <2> QED BY <2>6, <2>7, <2>8
<1>20. Counted'
  <2>1. ASSUME NEW q \in Outstanding', q[1] = c, First(q)' PROVE Tally(q)'
    <3>1. p[3] < Members(c) /\ ~Ends(p, st)
      BY <2>1, <1>6, <1>11
    <3>2. PICK x \in Outstanding : x[1] = c /\ x[3] = p[3] + 1
      BY <3>1, <1>2
    <3>3. x \in Outstanding'
      BY <3>2, <1>2, <1>4
    <3>4. q[3] <= p[3] + 1
      BY <2>1, <3>2, <3>3 DEF First
    <3>5. p[3] < q[3] /\ q[3] \in Nat /\ q[2] = p[2]
      BY <2>1, <1>2, <1>11, Bounds
    <3>6. Before(q) = Before(p) + 1
      BY <3>4, <3>5, <1>18 DEF Before
    <3>7. call'[c].status = IF call[c].status = "ok" THEN st ELSE call[c].status
      BY <3>1, <1>3 DEF FirstFailure
    <3>8. InHand(q)' = 0
      BY <1>3, <1>11
    <3> QED BY <2>1, <3>6, <3>7, <3>8, <1>1, <1>2, <1>18 DEF Tally
  <2>2. ASSUME NEW q \in Outstanding', q[1] = c, CallerFrees(q)' PROVE FALSE
    <3>1. p[3] < Members(c)
      BY <2>2, <1>6, <1>11
    <3>2. Members(c) = 1
      BY <2>2, <1>3 DEF CallerFrees, Members
    <3> QED BY <3>1, <3>2, <1>2
  <2>3. ASSUME call'[now].done
        PROVE  /\ call'[now].status \in {"ok", "fail"}
               /\ call'[now].status = "ok" <=> answered'[now] = Rounds(now)' * Members(now)'
    <3>1. CASE now = c
      <4>1. Ends(p, st) /\ call'[now].status = FirstFailure(c, st)
        BY <2>3, <3>1, <1>3, <1>15, <1>16
      <4> QED BY <3>1, <4>1, <1>1, <1>3, <1>19
    <3>2. CASE now # c
      <4>1. call'[now] = call[now]
        BY <3>2, <1>3, <1>15
      <4> QED BY <2>3, <4>1, <1>1, <1>3 DEF IInv, Counted
    <3> QED BY <3>1, <3>2
  <2>4. \A q \in Outstanding' : First(q)' => Tally(q)'
    BY <2>1, <1>12
  <2>5. \A q \in Outstanding' : CallerFrees(q)' => answered'[q[1]] <= InHand(q)'
    BY <2>2, <1>12
  <2>6. now' = now
    BY <1>1
  <2> QED BY <2>3, <2>4, <2>5, <2>6 DEF Counted
<1>21. Heard'
  <2>1. call'[c].op = "live" => \E q \in Outstanding' : q[1] = c
    BY <1>3, <1>14
  <2> QED BY <2>1, <1>12 DEF Heard
<1>22. Ready'
  <2>1. ASSUME call'[c].op = "ready" PROVE LeftReady(c)'
    <3>1. Ends(p, st) /\ FirstFailure(c, st) = "ok" /\ kind[c] \in {"open", "list"}
      BY <2>1, <1>3
    <3>2. answered[c] = Rounds(c) * Members(c) /\ Members(c) = 1
      BY <3>1, <1>19 DEF Members
    <3>3. answered[c] = Rounds(c)
      BY <3>2, <1>2
    <3> QED BY <3>1, <3>3, <1>1, <1>2, <1>3 DEF LeftReady
  <2> QED BY <2>1, <1>12 DEF Ready
<1> QED BY <1>3, <1>8, <1>9, <1>10, <1>13, <1>17, <1>20, <1>21, <1>22 DEF IInv

\* The rest of a reply: its callback runs.
LEMMA ReadingBody ==
  ASSUME IInv, ReadBody
  PROVE  IInv'
<1>1. PICK p \in PDUs, st \in {"ok", "fail"} : pdu = << p, st >>
  <2>1. pdu[1] # NoPdu
    BY DEF ReadBody
  <2>2. pdu \in (PDUs \cup {NoPdu}) \X {"ok", "fail"}
    BY Known
  <2> QED BY <2>1, <2>2
<1>2. CASE life[p] = "freed"
  BY <1>1, <1>2, Dangling DEF ReadBody
<1>3. CASE life[p] # "freed" /\ Continues(p, st)
  <2>1. st = "ok"
    BY <1>3 DEF Continues
  <2> QED BY <1>1, <1>3, <2>1, NextRound
<1>4. CASE life[p] # "freed" /\ ~Continues(p, st)
  BY <1>1, <1>4, ReplyHandled
<1> QED BY <1>2, <1>3, <1>4

-----------------------------------------------------------------------------
(* The invariant holds *)

\* A new context.
LEMMA Starting ==
  ASSUME Init
  PROVE  IInv
<1>1. /\ mode = "idle" /\ now = 0 /\ kind = [c \in AllCalls |-> "none"] /\ charge = [c \in AllCalls |-> 1]
      /\ call = [c \in AllCalls |-> NotMade] /\ outqueue = << >> /\ waitqueue = << >>
      /\ pdu = << NoPdu, "ok" >> /\ life = [p \in PDUs |-> "none"] /\ credits = 0 /\ line = "up"
      /\ answered = [c \in AllCalls |-> 0] /\ stale = {} /\ strays = {}
  BY DEF Init
<1>2. Range(waitqueue) = {} /\ Elems(outqueue) = {} /\ Len(outqueue) = 0 /\ Len(waitqueue) = 0
  <2>1. DOMAIN << >> = {} /\ Len(<< >>) = 0
    OBVIOUS
  <2> QED BY <2>1, <1>1 DEF Range, Elems
<1>3. Current = {} /\ Waiting = {} /\ Unsent = {} /\ Outstanding = {}
  <2>1. Current = {} /\ Waiting = {} /\ Unsent = {}
    BY <1>1, <1>2 DEF Current, Waiting, Unsent, Elems
  <2> QED BY <2>1 DEF Outstanding
<1>4. NotMade \in CallRecords /\ NotMade.op = "none" /\ NotMade.result = "none" /\ ~NotMade.gave
  BY DEF NotMade, CallRecords, Status
<1>5. Types
  <2>1. call \in [AllCalls -> CallRecords]
    BY <1>1, <1>4
  <2>2. kind \in [AllCalls -> KindNames] /\ charge \in [AllCalls -> Nat] /\ answered \in [AllCalls -> Nat]
        /\ pdu \in (PDUs \cup {NoPdu}) \X {"ok", "fail"}
    BY <1>1 DEF KindNames
  <2>3. TypeOK
    BY <1>1, <1>2, <2>1, Bounds DEF TypeOK, CallRecords
  <2> QED BY <2>2, <2>3 DEF Types
<1>6. Made
  <2>1. \A c \in Calls : c \in AllCalls /\ c \in Nat /\ c > 0
    BY Bounds
  <2> QED BY <2>1, <1>1, Bounds DEF Made
<1>7. Queues
  <2>1. outqueue \in Seq(Seq(PDUs)) /\ waitqueue \in Seq(PDUs)
    BY <1>1
  <2>2. 1..Len(outqueue) = {} /\ 1..Len(waitqueue) = {}
    BY <1>2
  <2> QED BY <2>1, <2>2, <1>2, <1>3 DEF Queues, QueuesOf, Chains, InOrder
<1>8. Rest /\ Owned /\ Awaiting /\ Counted
  BY <1>1, <1>3 DEF Rest, RestOf, Owned, Awaiting, Counted
<1>9. Heard /\ Ready /\ GivenUp /\ ResultIsTrue
  BY <1>1, <1>4, Bounds DEF Heard, Ready, GivenUp, ResultIsTrue
<1> QED BY <1>5, <1>6, <1>7, <1>8, <1>9 DEF IInv

\* Every step keeps the invariant.
LEMMA Step ==
  ASSUME IInv, [Next]_vars
  PROVE  IInv'
<1>1. ASSUME UNCHANGED vars PROVE IInv'
  <2>1. credits' \in Nat
    BY <1>1, Charges DEF vars
  <2> QED BY <1>1, <2>1, Resting DEF vars
<1>2. CASE \E k \in Kinds \cup {"connect"} : Issue(k)
  BY <1>2, Issuing
<1>3. CASE Write
  BY <1>3, Writing
<1>4. CASE ReadPending
  BY <1>4, Pending
<1>5. CASE ReadHeader
  BY <1>5, Heading
<1>6. CASE ReadBody
  BY <1>6, ReadingBody
<1>7. CASE Return
  BY <1>7, Returning
<1>8. CASE GiveUp
  BY <1>8, Abandoning DEF GiveUp
<1>9. CASE Cut
  <2>1. credits' \in Nat
    BY <1>9, Charges DEF Cut
  <2> QED BY <1>9, <2>1, Resting DEF Cut
<1>10. CASE NativeDisconnect
  BY <1>10, Disconnecting
<1>11. CASE NativeDestroy
  <2>1. credits' \in Nat
    BY <1>11, Charges DEF NativeDestroy
  <2> QED BY <1>11, <2>1, Resting DEF NativeDestroy
<1>12. CASE DestroyOut
  BY <1>12, DestroyingOut
<1>13. CASE DestroyCurrent
  BY <1>13, DestroyingCurrent
<1>14. CASE DestroyWaiting
  BY <1>14, DestroyingWaiting
<1>15. CASE DestroyEnd
  <2>1. credits' \in Nat
    BY <1>15, Charges DEF DestroyEnd
  <2>2. Unsent = {} /\ Waiting = {} /\ Current = {}
    <3>1. outqueue = << >> /\ waitqueue = << >> /\ pdu[1] = NoPdu
      BY <1>15 DEF DestroyEnd
    <3>2. DOMAIN << >> = {}
      OBVIOUS
    <3> QED BY <3>1, <3>2, NoneUnsent DEF Waiting, Range, Current
  <2>3. Outstanding = {}
    BY <2>2 DEF Outstanding
  <2> QED BY <1>15, <2>1, <2>3, Resting DEF DestroyEnd
<1>16. CASE PollFails
  BY <1>16, Abandoning DEF PollFails
<1>17. CASE ReadUnknown
  BY <1>17, Skipping
<1> QED BY <1>1, <1>2, <1>3, <1>4, <1>5, <1>6, <1>7, <1>8, <1>9, <1>10, <1>11, <1>12, <1>13, <1>14, <1>15, <1>16, <1>17 DEF Next

\* In every reachable state the invariant holds: the queues are in order and belong
\* to different calls, what a callback will use is there unless its call was given
\* up, and the replies counted are those the call's status comes from (socket.c,
\* pdu.c, sync.c, init.c).
THEOREM Invariant == Spec => []IInv
<1>1. Init => IInv
  BY Starting
<1>2. IInv /\ [Next]_vars => IInv'
  BY Step
<1> QED BY <1>1, <1>2, PTL DEF Spec

\* Whatever order a lost connection, a poll that fails, the calls given up after it
\* and smb2_destroy_context come in, no queue leads to a freed PDU and nothing freed
\* is used but what Excepted lists: the first PDU of an open or list given up, and,
\* if poll failed, the callback data of a list or close and the buffer of a read or
\* write (sync.c, init.c, samba_jni.cpp).
THEOREM NothingFreedIsUsed == Spec => []NothingStale
<1>1. IInv => NothingStale
  BY DEF IInv, Types, Owned, NothingStale
<1> QED BY <1>1, Invariant, PTL

\* A call on the context reports success exactly when the server has answered all
\* of its PDUs with success: rename_cb_1 to rename_cb_3 and create_cb_1 keep the
\* first failure of a compound (libsmb2.c).
THEOREM ResultsAreTrue == Spec => []ResultIsTrue
<1>1. IInv => ResultIsTrue
  BY DEF IInv
<1> QED BY <1>1, Invariant, PTL

\* smb2_destroy_context leaves no operation without its callback but the two kinds
\* the code forgets: an unsent compound, and an open or list whose caller gave up
\* before the first reply was handled.  What a callback made ready and nobody took
\* is an open or list, completely answered, that was given up after its callback or
\* before a reply that came late (init.c, sync.c).
THEOREM OperationsAccounted == Spec => []EveryoneTold
<1>1. IInv => EveryoneTold
  BY DEF IInv, Awaiting, Heard, Forgotten, Ready, LeftReady, EveryoneTold
<1> QED BY <1>1, Invariant, PTL

=============================================================================
