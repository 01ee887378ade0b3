------------------------- MODULE BlockCaches_proofs -------------------------
(***************************************************************************)
(* Proofs about BlockCaches for every number of readers, blocks and        *)
(* connections, and for both caches.                                       *)
(*                                                                         *)
(* Types says where a thread can be, and how far its counter is.  Each     *)
(* other part strengthens one property: Downloads is the rest of           *)
(* DownloadedOnce, Connected adds that a connection just opened is nobody  *)
(* else's, Written that a block somebody has just got is marked, Tasked    *)
(* that a queued block has one task and not two.                           *)
(***************************************************************************)
EXTENDS BlockCaches, SequenceTheorems, FiniteSetTheorems, FunctionTheorems, TLAPS

Pcs == {"idle", "look", "wait", "recheck", "fetch", "put", "got", "lost", "ahead", "submit", "unqueue",
        "open", "connect", "adopt", "read", "write", "failed", "channel", "disk", "next", "finish"}
Limit == IF kind = "audio" THEN MaxAttempts ELSE Ahead
Places == [pc : Pcs, bi : Blocks, up : Conns \cup {None}, n : 0..Limit]
Tasks == [bi : Blocks, fresh : BOOLEAN]

Both == {"idle", "look", "wait", "fetch", "got", "lost"}
BufferedPcs(t) == Both \cup {"put"} \cup (IF t = Prefetcher THEN {"unqueue"} ELSE {"ahead", "submit"})
AudioPcs(t) ==
  Both \cup {"recheck", "open", "connect", "adopt", "read", "write", "failed"}
       \cup (IF t = Prefetcher THEN {"next", "finish"} ELSE {"channel", "disk"})
Attempting == {"fetch", "open", "connect", "adopt", "read", "write", "failed"}

(* Where thread t can be.                                                  *)
Placed(t) ==
  {v \in Places :
    /\ v.pc \in IF kind = "audio" THEN AudioPcs(t) ELSE BufferedPcs(t)
    /\ v.pc \notin Attempting \cup {"got", "lost", "ahead", "submit"} => v.n = 0
    /\ v.pc \in Attempting => v.n < MaxAttempts
    /\ kind = "buffered" /\ v.pc \in {"fetch", "put", "got", "lost"} => v.n = 0
    /\ v.pc = "submit" => v.n < Ahead /\ v.bi + v.n + 1 \in Blocks}

NoRepeats(s) == \A i, j \in 1..Len(s) : s[i] = s[j] => i = j

(* What the cache holds, apart from the threads.                           *)
Stores ==
  /\ over \in BOOLEAN /\ done \in BOOLEAN
  /\ inflight \subseteq Blocks /\ queued \subseteq Blocks
  /\ cache \in Seq(Blocks) /\ Len(cache) <= MaxBlocks /\ NoRepeats(cache)
  /\ tasks \in Seq(Tasks)
  /\ lastBi \in Blocks \cup {-1}
  /\ downloaded \subseteq Blocks /\ disk \subseteq Blocks /\ short \subseteq Blocks
  /\ upstream \in Conns \cup {None} /\ open \subseteq Conns
  /\ kind = "audio" => tasks = <<>> /\ queued = {}

Types ==
  /\ kind \in Kinds
  /\ th \in [Threads -> Places] /\ \A t \in Threads : th[t] \in Placed(t)
  /\ Stores

Downloads ==
  /\ \A t, u \in Fetching : t # u => th[t].bi # th[u].bi
  /\ \A t \in Fetching : th[t].pc # "got" => ~Has(th[t].bi)
  /\ inflight = {th[t].bi : t \in Fetching}
  /\ \A t \in Threads : At(t, "wait") => th[t].bi \in inflight

Connected ==
  /\ NoLeakedConnection
  /\ \A t \in Threads : At(t, "adopt") => th[t].up \in Conns \ {upstream}
  /\ \A t, u \in Threads : At(t, "adopt") /\ At(u, "adopt") /\ th[t].up = th[u].up => t = u
  /\ \A t \in Threads : At(t, "connect") => th[t].up = None
  /\ kind = "buffered" => upstream = None

Written ==
  kind = "audio" =>
    /\ ~over => downloaded = disk \cup short /\ disk \cap short = {}
    /\ \A t \in Threads : th[t].pc \in {"got", "channel", "disk"} => th[t].bi \in downloaded

Submitters == {t \in Readers : At(t, "submit")}
Prefetching == ~At(Prefetcher, "idle")
Tasked ==
  kind = "buffered" /\ ~over =>
    /\ QueuedHasTask
    /\ \A i, j \in 1..Len(tasks) : tasks[i].bi = tasks[j].bi => i = j
    /\ \A t, u \in Submitters : Submitting(t) = Submitting(u) => t = u
    /\ \A i \in 1..Len(tasks), t \in Submitters : tasks[i].bi # Submitting(t)
    /\ Prefetching => /\ \A i \in 1..Len(tasks) : tasks[i].bi # th[Prefetcher].bi
                      /\ \A t \in Submitters : Submitting(t) # th[Prefetcher].bi

IInv == Types /\ Downloads /\ Connected /\ Written /\ Tasked
------------------------------------------------------------------------------
(* Sequences without repetitions.                                          *)

\* Taking a member out of a sequence that has it once leaves the others.
LEMMA WithoutMember ==
  ASSUME NEW S, NEW s \in Seq(S), NoRepeats(s), NEW x \in Elements(s)
  PROVE  /\ Without(s, x) \in Seq(S)
         /\ Len(Without(s, x)) = Len(s) - 1
         /\ Elements(Without(s, x)) = Elements(s) \ {x}
         /\ NoRepeats(Without(s, x))
<1> DEFINE at == CHOOSE i \in 1..Len(s) : s[i] = x
           w == [j \in 1..(Len(s) - 1) |-> s[IF j < at THEN j ELSE j + 1]]
<1>1. at \in 1..Len(s) /\ s[at] = x
  BY DEF Elements
<1>2. Without(s, x) = w
  BY DEF Without
<1>3. Len(s) \in Nat /\ \A i \in 1..Len(s) : s[i] \in S
  OBVIOUS
<1> HIDE DEF at
<1>4. w \in Seq(S) /\ Len(w) = Len(s) - 1
  BY <1>1, <1>3
<1> HIDE DEF w
<1>5. \A j \in 1..(Len(s) - 1) : w[j] = s[IF j < at THEN j ELSE j + 1]
  BY DEF w
<1>6. NoRepeats(w)
  <2> DEFINE place(j) == IF j < at THEN j ELSE j + 1
  <2> SUFFICES ASSUME NEW i \in 1..Len(w), NEW j \in 1..Len(w), w[i] = w[j]
               PROVE  i = j
    BY DEF NoRepeats
  <2>1. i \in 1..(Len(s) - 1) /\ j \in 1..(Len(s) - 1)
    BY <1>4
  <2>2. s[place(i)] = s[place(j)]
    BY <1>5, <2>1
  <2>3. place(i) \in 1..Len(s) /\ place(j) \in 1..Len(s)
    BY <1>1, <1>3, <2>1
  <2>4. place(i) = place(j)
    <3> HIDE DEF place
    <3> QED BY <2>2, <2>3 DEF NoRepeats
  <2> QED BY <1>1, <1>3, <2>1, <2>4
<1>7. ASSUME NEW y \in Elements(s), y # x
      PROVE  y \in Elements(w)
  <2>1. PICK i \in 1..Len(s) : s[i] = y
    BY DEF Elements
  <2>2. i # at
    BY <1>1, <1>7, <2>1
  <2> DEFINE j == IF i < at THEN i ELSE i - 1
  <2>3. j \in 1..(Len(s) - 1) /\ w[j] = s[i]
    BY <1>1, <1>3, <1>5, <2>1, <2>2
  <2> QED
    BY <1>4, <2>1, <2>3 DEF Elements
<1>8. ASSUME NEW y \in Elements(w)
      PROVE  y \in Elements(s) \ {x}
  <2>1. PICK j \in 1..(Len(s) - 1) : w[j] = y
    BY <1>4 DEF Elements
  <2> DEFINE i == IF j < at THEN j ELSE j + 1
  <2>2. i \in 1..Len(s) /\ i # at /\ s[i] = y
    BY <1>1, <1>3, <1>5, <2>1
  <2>3. y # x
    BY <1>1, <2>2 DEF NoRepeats
  <2> QED
    BY <2>2, <2>3 DEF Elements
<1>9. Elements(w) = Elements(s) \ {x}
  BY <1>7, <1>8
<1> QED
  BY <1>2, <1>4, <1>6, <1>9

\* A block that is used goes to the end of the cache, where it stands once.
LEMMA ToTheEnd ==
  ASSUME NEW S, NEW s \in Seq(S), NoRepeats(s), NEW x \in S
  PROVE  /\ Append(Without(s, x), x) \in Seq(S)
         /\ Len(Append(Without(s, x), x)) = IF x \in Elements(s) THEN Len(s) ELSE Len(s) + 1
         /\ Elements(Append(Without(s, x), x)) = Elements(s) \cup {x}
         /\ NoRepeats(Append(Without(s, x), x))
<1> DEFINE w == Without(s, x)
<1>1. /\ w \in Seq(S)
      /\ Len(w) = IF x \in Elements(s) THEN Len(s) - 1 ELSE Len(s)
      /\ Elements(w) = Elements(s) \ {x}
      /\ NoRepeats(w)
  <2>1. CASE x \in Elements(s)
    BY <2>1, WithoutMember
  <2>2. CASE x \notin Elements(s)
    BY <2>2 DEF Without
  <2> QED
    BY <2>1, <2>2
<1> HIDE DEF w
<1>2. /\ Append(w, x) \in Seq(S)
      /\ Len(w) \in Nat
      /\ Len(Append(w, x)) = Len(w) + 1
      /\ \A i \in 1..Len(w) : Append(w, x)[i] = w[i]
      /\ Append(w, x)[Len(w) + 1] = x
  BY <1>1, AppendProperties, LenProperties
<1>3. Elements(Append(w, x)) = Elements(w) \cup {x}
  BY <1>2 DEF Elements
<1>4. \A i \in 1..Len(w) : w[i] # x
  BY <1>1 DEF Elements
<1>5. NoRepeats(Append(w, x))
  BY <1>1, <1>2, <1>4 DEF NoRepeats
<1>6. Len(Append(w, x)) = IF x \in Elements(s) THEN Len(s) ELSE Len(s) + 1
  BY <1>1, <1>2
<1>7. Elements(Append(w, x)) = Elements(s) \cup {x}
  BY <1>1, <1>3
<1> QED
  BY <1>2, <1>5, <1>6, <1>7 DEF w

\* Dropping the head of such a sequence drops one member.
LEMMA WithoutHead ==
  ASSUME NEW S, NEW s \in Seq(S), NoRepeats(s), s # <<>>
  PROVE  /\ Tail(s) \in Seq(S) /\ Len(Tail(s)) = Len(s) - 1
         /\ Elements(Tail(s)) \subseteq Elements(s)
         /\ NoRepeats(Tail(s))
<1>1. /\ Tail(s) \in Seq(S) /\ Len(s) \in Nat \ {0}
      /\ Len(Tail(s)) = Len(s) - 1
      /\ \A i \in 1..(Len(s) - 1) : Tail(s)[i] = s[i + 1]
  BY HeadTailProperties, LenProperties, EmptySeq
<1>2. NoRepeats(Tail(s))
  BY <1>1 DEF NoRepeats
<1>3. Elements(Tail(s)) \subseteq Elements(s)
  BY <1>1 DEF Elements
<1> QED
  BY <1>1, <1>2, <1>3

------------------------------------------------------------------------------
(* Types and stages.                                                       *)

USE CachesAssumption DEF CachesAssumption

\* What the steps of a thread have in common: its own place changes, to
\* another place, and the kind of the cache does not.
LEMMA UpdateType ==
  ASSUME NEW S, NEW T, NEW f \in [S -> T], NEW x \in S, NEW v \in T
  PROVE  /\ [f EXCEPT ![x] = v] \in [S -> T]
         /\ \A y \in S : [f EXCEPT ![x] = v][y] = IF y = x THEN v ELSE f[y]
  OBVIOUS

LEMMA BlocksFacts ==
  ASSUME kind \in Kinds
  PROVE  /\ NBlocks[kind] \in Nat \ {0}
         /\ 0 \in Blocks /\ Blocks \subseteq Nat
         /\ kind \in {"buffered", "audio"}
         /\ Limit \in Nat
  BY DEF Blocks, Limit

\* Any thread may be at rest.
LEMMA RestPlaced ==
  ASSUME kind \in Kinds
  PROVE  \A t \in Threads : AtRest \in Placed(t)
<1>1. 0 \in Blocks /\ 0 \in 0..Limit
  BY BlocksFacts
<1>2. AtRest \in Places
  BY <1>1 DEF Places, AtRest, Pcs
<1> QED
  BY <1>2 DEF Placed, AtRest, Attempting, AudioPcs, BufferedPcs, Both

(* A step of one thread, to a place where it can be.                       *)
Moves(t) == kind' = kind /\ th' = [th EXCEPT ![t] = th'[t]] /\ th'[t] \in Placed(t)

\* Such a step leaves every thread at a place where it can be.
LEMMA MovesTypes ==
  ASSUME Types, NEW t \in Threads, Moves(t), Stores'
  PROVE  Types' /\ \A u \in Threads : u # t => th'[u] = th[u]
<1>1. Places' = Places /\ \A u \in Threads : Placed(u)' = Placed(u)
  BY DEF Places, Placed, Blocks, Limit, Moves
<1>2. \A u \in Threads : Placed(u) \subseteq Places
  BY DEF Placed
<1>3. th \in [Threads -> Places] /\ \A u \in Threads : th[u] \in Placed(u)
  BY DEF Types
<1>4. \A u \in Threads : th'[u] = IF u = t THEN th'[t] ELSE th[u]
  BY <1>3 DEF Moves
<1>5. th' \in [Threads -> Places]
  BY <1>2, <1>3 DEF Moves
<1> QED
  BY <1>1, <1>3, <1>4, <1>5 DEF Types, Moves

\* In the first state everything is at rest.
LEMMA InitInvariant == Init => IInv
<1> SUFFICES ASSUME Init PROVE IInv
  OBVIOUS
<1> USE DEF Init
<1>1. kind \in Kinds /\ 0 \in Blocks /\ Limit \in Nat
  BY BlocksFacts
<1>2. th \in [Threads -> Places] /\ \A t \in Threads : th[t] = AtRest /\ th[t] \in Placed(t)
  BY <1>1, RestPlaced DEF Placed
<1>3. Len(cache) = 0 /\ cache \in Seq(Blocks) /\ tasks \in Seq(Tasks)
  OBVIOUS
<1>4. Types
  <2>1. MaxBlocks \in Nat /\ Len(cache) <= MaxBlocks /\ NoRepeats(cache)
    BY <1>3 DEF NoRepeats
  <2> QED
    BY <1>1, <1>2, <1>3, <2>1 DEF Types, Stores
<1>5. \A t \in Threads : th[t].pc = "idle" /\ th[t].up = None
  BY <1>2 DEF AtRest
<1>6. Fetching = {}
  BY <1>5 DEF Fetching
<1>7. Downloads
  BY <1>5, <1>6 DEF Downloads, At
<1>8. Connected
  BY <1>5 DEF Connected, NoLeakedConnection, At
<1>9. Written
  BY <1>5 DEF Written
<1>10. Submitters = {}
  BY <1>5 DEF Submitters, At, Threads
<1>11. QueuedHasTask
  BY <1>5, <1>10 DEF QueuedHasTask, Submitters, At, Threads
<1>12. Tasked
  BY <1>5, <1>10, <1>11 DEF Tasked, Prefetching, At, Threads
<1> QED
  BY <1>4, <1>7, <1>8, <1>9, <1>12 DEF IInv

\* A place with a counter of 0 and no connection.
LEMMA FreshPlace ==
  ASSUME kind \in Kinds, NEW pc \in Pcs, NEW bi \in Blocks
  PROVE  /\ [AtRest EXCEPT !.pc = pc, !.bi = bi] \in Places
         /\ [AtRest EXCEPT !.pc = pc, !.bi = bi].pc = pc
         /\ [AtRest EXCEPT !.pc = pc, !.bi = bi].bi = bi
         /\ [AtRest EXCEPT !.pc = pc, !.bi = bi].n = 0
<1> DEFINE v == AtRest
<1>1. v \in Places /\ v.n = 0
  BY BlocksFacts DEF Places, AtRest, Pcs
<1> HIDE DEF v
<1>2. [v EXCEPT !.pc = pc, !.bi = bi] \in Places
  BY <1>1 DEF Places
<1>3. /\ [v EXCEPT !.pc = pc, !.bi = bi].pc = pc
      /\ [v EXCEPT !.pc = pc, !.bi = bi].bi = bi
      /\ [v EXCEPT !.pc = pc, !.bi = bi].n = 0
  BY <1>1 DEF Places
<1> QED
  BY <1>2, <1>3 DEF v

\* After a download, or with no need of one, a thread goes to a place where
\* it can be.
LEMMA ContinuePlaced ==
  ASSUME Types, NEW t \in Threads, NEW ok \in BOOLEAN
  PROVE  Continue(t, ok) \in Placed(t)
<1>1. AtRest \in Placed(t)
  BY RestPlaced DEF Types
<1>2. th[t] \in Places
  BY DEF Types
<1>3. kind \in {"buffered", "audio"}
  BY DEF Types
<1>4. CASE t = Prefetcher /\ kind = "buffered"
  <2>1. Continue(t, ok) = [th[t] EXCEPT !.pc = "unqueue", !.up = None, !.n = 0]
    BY <1>4 DEF Continue
  <2> DEFINE v == Continue(t, ok)
  <2>2. "unqueue" \in Pcs /\ 0 \in 0..Limit
    BY BlocksFacts, <1>4 DEF Pcs, Limit
  <2>3. v \in Places
    BY <1>2, <2>1, <2>2 DEF Places
  <2>4. v.pc = "unqueue" /\ v.n = 0
    BY <1>2, <2>1 DEF Places
  <2> HIDE DEF v
  <2>5. v.pc \in BufferedPcs(t)
    BY <1>4, <2>4 DEF BufferedPcs
  <2>6. v \in Placed(t)
    BY <1>4, <2>3, <2>4, <2>5 DEF Placed, Attempting
  <2> QED
    BY <2>6 DEF v
<1>5. CASE t = Prefetcher /\ kind = "audio" /\ ok
  <2> DEFINE b == th[t].bi + 1
             pc == IF b \in Blocks THEN "next" ELSE "finish"
             bi == IF b \in Blocks THEN b ELSE 0
  <2>1. Continue(t, ok) = [AtRest EXCEPT !.pc = pc, !.bi = bi]
    BY <1>5 DEF Continue
  <2>2. pc \in Pcs /\ bi \in Blocks /\ kind \in Kinds /\ pc \in {"next", "finish"}
    BY BlocksFacts DEF Types, Pcs
  <2> HIDE DEF pc, bi
  <2>3. Continue(t, ok) \in Places /\ Continue(t, ok).pc = pc /\ Continue(t, ok).n = 0
    <3>1. [AtRest EXCEPT !.pc = pc, !.bi = bi] \in Places
      BY <2>2, FreshPlace, ZenonT(40)
    <3>2. [AtRest EXCEPT !.pc = pc, !.bi = bi].pc = pc
      BY <2>2, FreshPlace, ZenonT(40)
    <3>3. [AtRest EXCEPT !.pc = pc, !.bi = bi].n = 0
      BY <2>2, FreshPlace, ZenonT(40)
    <3> QED
      BY <2>1, <3>1, <3>2, <3>3, Zenon
  <2> QED
    BY <1>5, <2>2, <2>3 DEF Placed, AudioPcs, Attempting
<1>6. CASE t # Prefetcher /\ ok
  <2> DEFINE pc == IF kind = "buffered" THEN "ahead" ELSE "channel"
  <2>1. Continue(t, ok) = [AtRest EXCEPT !.pc = pc, !.bi = th[t].bi]
    BY <1>6 DEF Continue
  <2>2. pc \in Pcs /\ th[t].bi \in Blocks /\ kind \in Kinds
    BY <1>2 DEF Types, Pcs, Places
  <2>3. pc \in (IF kind = "audio" THEN AudioPcs(t) ELSE BufferedPcs(t)) /\ pc \in {"ahead", "channel"}
    BY <1>3, <1>6 DEF AudioPcs, BufferedPcs
  <2> HIDE DEF pc
  <2>4. Continue(t, ok) \in Places /\ Continue(t, ok).pc = pc /\ Continue(t, ok).n = 0
    <3>1. [AtRest EXCEPT !.pc = pc, !.bi = th[t].bi] \in Places
      BY <2>2, FreshPlace, ZenonT(40)
    <3>2. [AtRest EXCEPT !.pc = pc, !.bi = th[t].bi].pc = pc
      BY <2>2, FreshPlace, ZenonT(40)
    <3>3. [AtRest EXCEPT !.pc = pc, !.bi = th[t].bi].n = 0
      BY <2>2, FreshPlace, ZenonT(40)
    <3> QED
      BY <2>1, <3>1, <3>2, <3>3, Zenon
  <2> QED
    BY <2>3, <2>4 DEF Placed, Attempting
<1>7. CASE ~ok /\ ~(t = Prefetcher /\ kind = "buffered")
  BY <1>1, <1>7 DEF Continue
<1> QED
  BY <1>3, <1>4, <1>5, <1>6, <1>7

\* A thread that only goes on to another step goes to a place where it can be.
LEMMA GotoPlaced ==
  ASSUME Types, NEW t \in Threads,
         NEW pc \in (IF kind = "audio" THEN AudioPcs(t) ELSE BufferedPcs(t)),
         pc \notin Attempting \cup {"got", "lost", "ahead", "submit"} => th[t].n = 0,
         pc \in Attempting => th[t].n < MaxAttempts,
         kind = "buffered" /\ pc \in {"fetch", "put", "got", "lost"} => th[t].n = 0,
         pc = "submit" => th[t].n < Ahead /\ th[t].bi + th[t].n + 1 \in Blocks
  PROVE  [th[t] EXCEPT !.pc = pc] \in Placed(t)
<1>1. th[t] \in Places
  BY DEF Types
<1>2. pc \in Pcs
  BY DEF Pcs, AudioPcs, BufferedPcs, Both
<1>3. [th[t] EXCEPT !.pc = pc] \in Places
  BY <1>1, <1>2 DEF Places
<1> DEFINE v == [th[t] EXCEPT !.pc = pc]
<1>4. v.pc = pc /\ v.bi = th[t].bi /\ v.n = th[t].n
  BY <1>1 DEF Places
<1> HIDE DEF v
<1>5. v \in Places
  BY <1>3 DEF v
<1>6. v \in Placed(t)
  BY <1>4, <1>5 DEF Placed
<1> QED
  BY <1>6 DEF v

\* Likewise for a thread whose connection changes too.
LEMMA ConnPlaced ==
  ASSUME Types, NEW t \in Threads, th[t].pc \in Attempting, kind = "audio",
         NEW pc \in AudioPcs(t) \cap (Attempting \cup {"got", "lost"}), NEW c \in Conns \cup {None}
  PROVE  [th[t] EXCEPT !.pc = pc, !.up = c] \in Placed(t)
<1>1. th[t] \in Places /\ th[t].n < MaxAttempts
  BY DEF Types, Placed
<1>2. pc \in Pcs
  BY DEF Pcs, AudioPcs, Both
<1>3. [th[t] EXCEPT !.pc = pc, !.up = c] \in Places
  BY <1>1, <1>2 DEF Places
<1> DEFINE v == [th[t] EXCEPT !.pc = pc, !.up = c]
<1>4. v.pc = pc /\ v.bi = th[t].bi /\ v.n = th[t].n
  BY <1>1 DEF Places
<1> HIDE DEF v
<1>5. v \in Places
  BY <1>3 DEF v
<1>6. v \in Placed(t)
  BY <1>1, <1>4, <1>5 DEF Placed, Attempting
<1> QED
  BY <1>6 DEF v

\* There are more connections than can be in use, so one is free for a
\* thread that holds none.
LEMMA FreeConn ==
  ASSUME Types, NoLeakedConnection, NEW t \in Threads, th[t].up = None
  PROVE  UnusedConn \in Conns \ open /\ \A u \in Threads : th[u].up # UnusedConn
<1> DEFINE f == [u \in Threads |-> IF u = t THEN upstream ELSE th[u].up]
           used == {f[u] : u \in Threads}
<1>1. f \in Surjection(Threads, used)
  BY DEF Surjection
<1>2. /\ IsFiniteSet(Threads)
      /\ Cardinality(Threads) = Cardinality(Readers) + 1
      /\ Cardinality(Readers) \in Nat /\ Cardinality(Conns) \in Nat
  BY FS_AddElement, FS_CardinalityType DEF Threads
<1>3. IsFiniteSet(used) /\ Cardinality(used) <= Cardinality(Threads)
  BY <1>1, <1>2, FS_Surjection
<1>4. ~ (Conns \subseteq used)
  <2>1. SUFFICES ASSUME Conns \subseteq used PROVE FALSE
    OBVIOUS
  <2>2. Cardinality(Conns) <= Cardinality(used) /\ Cardinality(used) \in Nat
    BY <1>3, <2>1, FS_Subset, FS_CardinalityType
  <2> QED
    BY <1>2, <1>3, <2>2
<1>5. PICK c \in Conns : c \notin used
  BY <1>4
<1>6. upstream \in used /\ \A u \in Threads : u # t => th[u].up \in used
  OBVIOUS
<1>7. \A u \in Threads : th[u].up # c
  BY <1>5, <1>6
<1>8. c \notin open
  BY <1>5, <1>6, <1>7 DEF NoLeakedConnection
<1> QED
  BY <1>5, <1>7, <1>8 DEF UnusedConn

\* Looking for a block leaves the types.
LEMMA LookTypes ==
  ASSUME Types, NEW t \in Threads, Look(t)
  PROVE  Moves(t) /\ Stores'
<1>1. kind' = kind /\ UNCHANGED <<tasks, queued, lastBi, over, done, downloaded, disk, short, upstream, open>>
  BY DEF Look, audioVars, fileVars, connVars
<1>2. th[t] \in Placed(t) /\ th[t].pc = "look" /\ th \in [Threads -> Places]
  BY DEF Look, At, Types
<1>3. th[t].n = 0 /\ th[t].bi \in Blocks
  BY <1>2 DEF Placed, Places, Attempting
<1>4. [th[t] EXCEPT !.pc = "wait"] \in Placed(t) /\ [th[t] EXCEPT !.pc = "fetch"] \in Placed(t)
  BY <1>3, GotoPlaced DEF AudioPcs, BufferedPcs, Both, Attempting
<1>5. Continue(t, TRUE) \in Placed(t) /\ Continue(t, FALSE) \in Placed(t)
  BY ContinuePlaced
<1>6. th' = [th EXCEPT ![t] = th'[t]] /\ th'[t] \in Placed(t)
  BY <1>2, <1>4, <1>5 DEF Look, Goto
<1>7. cache' \in Seq(Blocks) /\ Len(cache') <= MaxBlocks /\ NoRepeats(cache')
  <2>1. cache \in Seq(Blocks) /\ Len(cache) <= MaxBlocks /\ NoRepeats(cache)
    BY DEF Types, Stores
  <2>2. CASE cache' = cache
    BY <2>1, <2>2
  <2>3. CASE th[t].bi \in Elements(cache) /\ cache' = Append(Without(cache, th[t].bi), th[t].bi)
    BY <1>3, <2>1, <2>3, ToTheEnd
  <2> QED
    BY <2>2, <2>3 DEF Look, Has
<1>8. inflight' \subseteq Blocks
  BY <1>3 DEF Look, Goto, Types, Stores
<1>9. Blocks' = Blocks /\ Tasks' = Tasks /\ NoRepeats(cache)'
  BY <1>1, <1>7 DEF Blocks, Tasks, NoRepeats
<1> QED
  BY <1>1, <1>6, <1>7, <1>8, <1>9 DEF Moves, Types, Stores

\* What a step that leaves the stores alone leaves of their types.
LEMMA StoresSame ==
  ASSUME Types, UNCHANGED <<kind, inflight, bufferedVars, audioVars, over>>
  PROVE  Stores'
  BY DEF Types, Stores, bufferedVars, audioVars, fileVars, connVars, Blocks, Tasks, NoRepeats

\* The steps with which a thread asks for a block.
LEMMA ReadAtTypes ==
  ASSUME Types, NEW t \in Threads, NEW b \in Blocks, ReadAt(t, b)
  PROVE  Moves(t) /\ Stores'
<1>1. UNCHANGED <<kind, inflight, cache, queued, over, done, downloaded, disk, short, upstream, open>>
  BY DEF ReadAt, audioVars, fileVars, connVars
<1>2. th[t] \in Placed(t) /\ th[t] \in Places /\ th[t].pc = "idle" /\ th[t].n = 0
  BY DEF ReadAt, At, Types, Placed, Attempting
<1> DEFINE v == [th[t] EXCEPT !.pc = "look", !.bi = b]
<1>3. v \in Places /\ v.pc = "look" /\ v.n = 0
  BY <1>2 DEF Places, Pcs
<1>4. th' = [th EXCEPT ![t] = v]
  BY DEF ReadAt
<1> HIDE DEF v
<1>5. v \in Placed(t)
  BY <1>3 DEF Placed, Attempting, AudioPcs, BufferedPcs, Both
<1>6. Moves(t)
  BY <1>1, <1>4, <1>5 DEF Moves, Types
<1>7. tasks' \in Seq(Tasks) /\ (kind = "audio" => tasks' = tasks)
  <2>1. CASE tasks' = [i \in 1..Len(tasks) |-> [tasks[i] EXCEPT !.fresh = FALSE]] /\ kind = "buffered"
    <3>1. \A i \in 1..Len(tasks) : [tasks[i] EXCEPT !.fresh = FALSE] \in Tasks
      <4>1. tasks \in Seq(Tasks)
        BY DEF Types, Stores
      <4>2. \A i \in 1..Len(tasks) : tasks[i] \in Tasks
        BY <4>1
      <4> QED
        BY <4>2 DEF Tasks
    <3> QED
      BY <2>1, <3>1 DEF Types, Stores
  <2>2. CASE tasks' = tasks
    BY <2>2 DEF Types, Stores
  <2>3. kind \in {"buffered", "audio"}
    BY DEF Types
  <2> QED
    BY <2>1, <2>2, <2>3 DEF ReadAt
<1>8. lastBi' \in Blocks \cup {-1}
  BY DEF ReadAt, Types, Stores
<1>9. Blocks' = Blocks /\ Tasks' = Tasks /\ (NoRepeats(cache))'
  BY <1>1 DEF Blocks, Tasks, NoRepeats, Types, Stores
<1> QED
  BY <1>1, <1>6, <1>7, <1>8, <1>9 DEF Types, Stores

\* The steps of the memory cache, and of its prefetch thread.
LEMMA BufferedTypes ==
  ASSUME Types, NEW t \in Threads,
         \/ Fetch(t) \/ Put(t) \/ PrefetchAhead(t) \/ Submit(t)
         \/ t = Prefetcher /\ (TakeTask \/ Unqueue)
  PROVE  Moves(t) /\ Stores'
<1>1. /\ th \in [Threads -> Places] /\ th[t] \in Placed(t) /\ th[t] \in Places
      /\ th[t].bi \in Blocks /\ th[t].n \in 0..Limit /\ kind \in {"buffered", "audio"}
  BY DEF Types, Placed, Places
<1>2. AtRest \in Placed(t)
  BY RestPlaced DEF Types
<1>3. kind' = kind /\ Blocks' = Blocks /\ Tasks' = Tasks
  BY DEF Fetch, Put, PrefetchAhead, Submit, TakeTask, Unqueue, Blocks, Tasks
<1>4. Stores
  BY DEF Types
<1>5. CASE Fetch(t)
  <2>1. th[t].n = 0 /\ kind = "buffered"
    BY <1>1, <1>5 DEF Fetch, At, Placed
  <2>2. [th[t] EXCEPT !.pc = "put"] \in Placed(t) /\ [th[t] EXCEPT !.pc = "lost"] \in Placed(t)
    BY <2>1, GotoPlaced DEF BufferedPcs, Both, Attempting
  <2>3. Moves(t)
    BY <1>1, <1>5, <2>2 DEF Fetch, Goto, Moves
  <2> QED
    BY <1>5, <2>3, StoresSame DEF Fetch
<1>6. CASE Put(t)
  <2>1. th[t].pc = "put" /\ kind = "buffered" /\ th[t].n = 0
    BY <1>1, <1>6 DEF Put, At, Placed, AudioPcs, Both
  <2>2. [th[t] EXCEPT !.pc = "got"] \in Placed(t)
    BY <2>1, GotoPlaced DEF BufferedPcs, Both, Attempting
  <2>3. Moves(t)
    BY <1>1, <1>6, <2>2 DEF Put, Goto, Moves
  <2> DEFINE s == Append(Without(cache, th[t].bi), th[t].bi)
  <2>4. s \in Seq(Blocks) /\ Len(s) \in 1..(MaxBlocks + 1) /\ NoRepeats(s)
    <3>1. cache \in Seq(Blocks) /\ Len(cache) \in 0..MaxBlocks /\ NoRepeats(cache)
      BY <1>4 DEF Stores
    <3>2. /\ s \in Seq(Blocks) /\ NoRepeats(s)
          /\ Len(s) = IF th[t].bi \in Elements(cache) THEN Len(cache) ELSE Len(cache) + 1
      BY <1>1, <3>1, ToTheEnd
    <3>3. th[t].bi \in Elements(cache) => Len(cache) > 0
      BY <3>1 DEF Elements
    <3> QED
      BY <3>1, <3>2, <3>3
  <2>5. cache' = IF Len(s) > MaxBlocks THEN Tail(s) ELSE s
    BY <1>6 DEF Put
  <2> HIDE DEF s
  <2>6. s # <<>>
    BY <2>4
  <2>7. Tail(s) \in Seq(Blocks) /\ Len(Tail(s)) = Len(s) - 1 /\ NoRepeats(Tail(s))
    BY <2>4, <2>6, WithoutHead
  <2>8. cache' \in Seq(Blocks) /\ Len(cache') <= MaxBlocks /\ NoRepeats(cache')
    BY <2>4, <2>5, <2>7
  <2>9. NoRepeats(cache)'
    BY <2>8 DEF NoRepeats
  <2> QED
    BY <1>3, <1>4, <1>6, <2>3, <2>8, <2>9 DEF Put, Stores, audioVars, fileVars, connVars
<1>7. CASE PrefetchAhead(t)
  <2> DEFINE b == th[t].bi + th[t].n + 1
             v == [th[t] EXCEPT !.n = @ + 1]
  <2>1. th[t].pc = "ahead" /\ kind = "buffered" /\ th[t].n \in 0..Ahead
    BY <1>1, <1>7 DEF PrefetchAhead, At, Placed, AudioPcs, Both, Limit
  <2>2. ASSUME th[t].n = Ahead PROVE Moves(t)
    BY <1>1, <1>2, <1>3, <1>7, <2>2 DEF PrefetchAhead, Moves, Rest
  <2>3. ASSUME th[t].n # Ahead, b \notin Blocks \/ Has(b) \/ b \in inflight \/ b \in queued
        PROVE  Moves(t)
    <3>1. th' = [th EXCEPT ![t].n = @ + 1]
      BY <1>7, <2>3 DEF PrefetchAhead
    <3>2. th' = [th EXCEPT ![t] = v]
      BY <3>1
    <3>3. v \in Places /\ v.pc = "ahead"
      BY <1>1, <2>1, <2>3 DEF Places, Limit
    <3> HIDE DEF v
    <3>4. v \in Placed(t)
      BY <1>1, <2>1, <3>3 DEF Placed, Attempting
    <3> QED
      BY <1>1, <1>3, <3>2, <3>4 DEF Moves
  <2>4. ASSUME th[t].n # Ahead, b \in Blocks, Goto(t, "submit") PROVE Moves(t)
    <3>1. [th[t] EXCEPT !.pc = "submit"] \in Placed(t)
      <4>1. t # Prefetcher
        BY <1>1, <2>1 DEF Placed, BufferedPcs, Both
      <4>2. th[t].n < Ahead /\ th[t].bi + th[t].n + 1 \in Blocks
        BY <2>1, <2>4
      <4> QED
        BY <2>1, <4>1, <4>2, GotoPlaced DEF BufferedPcs, Attempting
    <3> QED
      BY <1>1, <1>3, <2>4, <3>1 DEF Moves, Goto
  <2>5. Moves(t)
    BY <1>7, <2>2, <2>3, <2>4 DEF PrefetchAhead
  <2>6. queued' \subseteq Blocks
    BY <1>4, <1>7 DEF PrefetchAhead, Stores
  <2>7. NoRepeats(cache)'
    BY <1>4, <1>7 DEF PrefetchAhead, NoRepeats, Stores
  <2> QED
    BY <1>3, <1>4, <1>7, <2>1, <2>5, <2>6, <2>7 DEF PrefetchAhead, Stores, audioVars, fileVars, connVars
<1>8. CASE Submit(t)
  <2> DEFINE v == [th[t] EXCEPT !.pc = "ahead", !.n = th[t].n + 1]
             task == [bi |-> Submitting(t), fresh |-> TRUE]
  <2>1. /\ th[t].pc = "submit" /\ kind = "buffered" /\ th[t].n \in 0..(Ahead - 1)
        /\ Submitting(t) \in Blocks /\ t # Prefetcher
    BY <1>1, <1>8 DEF Submit, At, Placed, AudioPcs, BufferedPcs, Both, Limit, Submitting
  <2>2. v \in Places /\ v.pc = "ahead"
    <3>1. th[t].n + 1 \in 0..Limit
      BY <2>1 DEF Limit
    <3> QED
      BY <1>1, <3>1 DEF Places, Pcs
  <2>3. ~over => th' = [th EXCEPT ![t] = v]
    BY <1>8, Zenon DEF Submit
  <2>9. ~over => tasks' = Append(tasks, task)
    BY <1>8, Zenon DEF Submit
  <2>10. over => Rest(t) /\ tasks' = tasks
    BY <1>8, Zenon DEF Submit
  <2> HIDE DEF v
  <2>4. v \in Placed(t)
    BY <2>1, <2>2 DEF Placed, Attempting, BufferedPcs
  <2>5. Moves(t)
    BY <1>1, <1>2, <1>3, <2>3, <2>4, <2>10 DEF Moves, Rest
  <2>6. task \in Tasks
    BY <2>1 DEF Tasks
  <2>7. tasks' \in Seq(Tasks)
    <3>1. tasks \in Seq(Tasks)
      BY <1>4 DEF Stores
    <3>2. Append(tasks, task) \in Seq(Tasks)
      BY <2>6, <3>1, AppendProperties, LenProperties
    <3> QED
      BY <2>9, <2>10, <3>1, <3>2
  <2>8. NoRepeats(cache)'
    BY <1>4, <1>8 DEF Submit, NoRepeats, Stores
  <2> QED
    BY <1>3, <1>4, <1>8, <2>1, <2>5, <2>7, <2>8 DEF Submit, Stores, audioVars, fileVars, connVars
<1>9. CASE t = Prefetcher /\ TakeTask
  <2> DEFINE pc == IF Head(tasks).fresh THEN "look" ELSE "unqueue"
             v == [th[t] EXCEPT !.bi = Head(tasks).bi, !.pc = pc]
  <2>1. kind = "buffered" /\ th[t].n = 0
    BY <1>1, <1>4, <1>9 DEF TakeTask, Stores, At, Placed, Attempting
  <2>2. Head(tasks) \in Tasks /\ tasks' \in Seq(Tasks)
    BY <1>4, <1>9, HeadTailProperties, LenProperties, EmptySeq DEF TakeTask, Stores
  <2>3. pc \in {"look", "unqueue"} /\ Head(tasks).bi \in Blocks
    BY <2>2 DEF Tasks
  <2>4. th' = [th EXCEPT ![t] = v]
    BY <1>9 DEF TakeTask
  <2> HIDE DEF pc
  <2>5. v \in Places /\ v.pc = pc /\ v.n = 0
    BY <1>1, <2>1, <2>3 DEF Places, Pcs
  <2> HIDE DEF v
  <2>6. v \in Placed(t)
    BY <1>9, <2>1, <2>3, <2>5 DEF Placed, Attempting, BufferedPcs, Both
  <2>7. Moves(t)
    BY <1>1, <1>3, <2>4, <2>6 DEF Moves
  <2>8. NoRepeats(cache)'
    BY <1>4, <1>9 DEF TakeTask, NoRepeats, Stores
  <2> QED
    BY <1>3, <1>4, <1>9, <2>1, <2>2, <2>7, <2>8 DEF TakeTask, Stores, audioVars, fileVars, connVars
<1>10. CASE t = Prefetcher /\ Unqueue
  <2>1. Moves(t)
    BY <1>1, <1>2, <1>3, <1>10 DEF Unqueue, Rest, Moves
  <2>2. NoRepeats(cache)'
    BY <1>4, <1>10 DEF Unqueue, NoRepeats, Stores
  <2>3. queued' \subseteq queued
    BY <1>10 DEF Unqueue
  <2> QED
    BY <1>3, <1>4, <1>10, <2>1, <2>2, <2>3 DEF Unqueue, Stores, audioVars, fileVars, connVars
<1> QED
  BY <1>5, <1>6, <1>7, <1>8, <1>9, <1>10

\* The steps of the file cache that leave its stores alone.
LEMMA AudioGoes ==
  ASSUME Types, NEW t \in Threads,
         \/ Attempt(t) \/ EnsureOpen(t) \/ Download(t) \/ TakeChannel(t) \/ ReadDisk(t)
         \/ t = Prefetcher /\ (DownloadAll \/ NextBlock)
  PROVE  Moves(t) /\ Stores'
<1>1. /\ th \in [Threads -> Places] /\ th[t] \in Placed(t) /\ th[t] \in Places
      /\ kind \in {"buffered", "audio"}
      /\ upstream \in Conns \cup {None}
  BY DEF Types, Stores, Placed
<1>2. AtRest \in Placed(t)
  BY RestPlaced DEF Types
<1>3. UNCHANGED <<kind, inflight, bufferedVars, audioVars, over>>
  BY DEF Attempt, EnsureOpen, Download, TakeChannel, ReadDisk, DownloadAll, NextBlock
<1>4. Stores' /\ kind' = kind
  BY <1>3, StoresSame
<1>5. CASE Attempt(t)
  <2>1. kind = "audio" /\ th[t].n < MaxAttempts
    BY <1>1, <1>5 DEF Attempt, At, Placed, Attempting
  <2>2. [th[t] EXCEPT !.pc = "open"] \in Placed(t) /\ [th[t] EXCEPT !.pc = "lost"] \in Placed(t)
    BY <2>1, GotoPlaced DEF AudioPcs, Both, Attempting
  <2> QED
    BY <1>1, <1>4, <1>5, <2>2 DEF Attempt, Goto, Moves
<1>6. CASE EnsureOpen(t)
  <2> DEFINE pc == IF over THEN "failed" ELSE IF upstream = None THEN "connect" ELSE "read"
             c == IF over THEN None ELSE upstream
  <2>1. kind = "audio" /\ th[t].pc \in Attempting
    BY <1>1, <1>6 DEF EnsureOpen, At, Placed, BufferedPcs, Both, Attempting
  <2>2. pc \in AudioPcs(t) \cap (Attempting \cup {"got", "lost"}) /\ c \in Conns \cup {None}
    BY <1>1 DEF AudioPcs, Attempting
  <2>3. [th[t] EXCEPT !.pc = pc, !.up = c] \in Placed(t)
    <3> HIDE DEF pc, c
    <3> QED
      BY <2>1, <2>2, ConnPlaced
  <2>4. th' = [th EXCEPT ![t] = [th[t] EXCEPT !.pc = pc, !.up = c]]
    BY <1>6 DEF EnsureOpen
  <2> QED
    BY <1>1, <1>4, <2>3, <2>4 DEF Moves
<1>7. CASE Download(t)
  <2>1. kind = "audio" /\ th[t].n < MaxAttempts
    BY <1>1, <1>7 DEF Download, At, Placed, BufferedPcs, Both, Attempting
  <2>2. [th[t] EXCEPT !.pc = "write"] \in Placed(t) /\ [th[t] EXCEPT !.pc = "failed"] \in Placed(t)
    BY <2>1, GotoPlaced DEF AudioPcs, Attempting
  <2> QED
    BY <1>1, <1>4, <1>7, <2>2 DEF Download, Goto, Moves
<1>8. CASE TakeChannel(t)
  <2>1. kind = "audio" /\ th[t].n = 0 /\ t # Prefetcher
    BY <1>1, <1>8 DEF TakeChannel, At, Placed, BufferedPcs, AudioPcs, Both, Attempting
  <2>2. [th[t] EXCEPT !.pc = "disk"] \in Placed(t)
    BY <2>1, GotoPlaced DEF AudioPcs, Attempting
  <2> QED
    BY <1>1, <1>2, <1>4, <1>8, <2>2 DEF TakeChannel, Goto, Rest, Moves
<1>9. CASE ReadDisk(t)
  BY <1>1, <1>2, <1>4, <1>9 DEF ReadDisk, Rest, Moves
<1>10. CASE t = Prefetcher /\ DownloadAll
  <2>1. kind = "audio" /\ th[t].n = 0
    BY <1>1, <1>10 DEF DownloadAll, At, Placed, Attempting
  <2>2. [th[t] EXCEPT !.pc = "next"] \in Placed(t)
    BY <1>10, <2>1, GotoPlaced DEF AudioPcs, Attempting
  <2> QED
    BY <1>1, <1>4, <1>10, <2>2 DEF DownloadAll, Goto, Moves
<1>11. CASE t = Prefetcher /\ NextBlock
  <2>1. kind = "audio" /\ th[t].n = 0
    BY <1>1, <1>11 DEF NextBlock, At, Placed, Attempting, BufferedPcs, Both
  <2>2. [th[t] EXCEPT !.pc = "look"] \in Placed(t)
    BY <2>1, GotoPlaced DEF AudioPcs, Attempting, Both
  <2> QED
    BY <1>1, <1>2, <1>4, <1>11, <2>2 DEF NextBlock, Goto, Rest, Moves
<1> QED
  BY <1>5, <1>6, <1>7, <1>8, <1>9, <1>10, <1>11

\* The steps of the file cache that change its stores.
LEMMA AudioStores ==
  ASSUME Types, NoLeakedConnection, NEW t \in Threads, At(t, "connect") => th[t].up = None,
         \/ Connect(t) \/ Adopt(t) \/ WriteBlock(t) \/ DropUpstream(t)
         \/ t = Prefetcher /\ FinishAll
  PROVE  Moves(t) /\ Stores'
<1>1. /\ th \in [Threads -> Places] /\ th[t] \in Placed(t) /\ th[t] \in Places
      /\ kind \in {"buffered", "audio"} /\ th[t].bi \in Blocks /\ th[t].up \in Conns \cup {None}
      /\ th[t].n \in 0..Limit
  BY DEF Types, Stores, Placed, Places
<1>2. AtRest \in Placed(t)
  BY RestPlaced DEF Types
<1>3. Stores
  BY DEF Types
<1>4. UNCHANGED <<kind, inflight, bufferedVars, over>>
  BY DEF fileVars, Connect, Adopt, WriteBlock, DropUpstream, FinishAll
<1>5. Blocks' = Blocks /\ Tasks' = Tasks /\ (NoRepeats(cache))'
  BY <1>3, <1>4 DEF Blocks, Tasks, NoRepeats, Stores, bufferedVars
<1>6. ASSUME downloaded' \subseteq Blocks, disk' \subseteq Blocks, short' \subseteq Blocks, done' \in BOOLEAN,
             upstream' \in Conns \cup {None}, open' \subseteq Conns
      PROVE  Stores'
  BY <1>3, <1>4, <1>5, <1>6 DEF Stores, bufferedVars
<1>7. \/ th[t].pc \in Attempting /\ kind = "audio" /\ th[t].n < MaxAttempts
      \/ t = Prefetcher /\ FinishAll
  BY <1>1 DEF fileVars, Connect, Adopt, WriteBlock, DropUpstream, At, Placed, Attempting, BufferedPcs, Both
<1>8. CASE Connect(t)
  <2>1. th[t].pc = "connect"
    BY <1>8 DEF fileVars, Connect, At
  <2>2. th[t].pc \in Attempting /\ kind = "audio" /\ th[t].n < MaxAttempts
    BY <1>7, <2>1 DEF fileVars, FinishAll, At
  <2>3. UnusedConn \in Conns
    BY <2>1, FreeConn DEF At
  <2>4. [th[t] EXCEPT !.pc = "adopt", !.up = UnusedConn] \in Placed(t)
    BY <2>2, <2>3, ConnPlaced DEF AudioPcs, Attempting
  <2>5. [th[t] EXCEPT !.pc = "failed"] \in Placed(t)
    BY <2>2, GotoPlaced DEF AudioPcs, Attempting
  <2>6. Moves(t)
    BY <1>1, <1>4, <1>8, <2>4, <2>5 DEF fileVars, Connect, Goto, Moves
  <2> QED
    BY <1>3, <1>6, <1>8, <2>3, <2>6 DEF fileVars, Connect, Stores
<1>9. CASE Adopt(t)
  <2>1. th[t].pc \in Attempting /\ kind = "audio" /\ th[t].n < MaxAttempts
    BY <1>7, <1>9 DEF fileVars, Adopt, FinishAll, At
  <2>2. [th[t] EXCEPT !.pc = "failed", !.up = None] \in Placed(t)
    BY <2>1, ConnPlaced DEF AudioPcs, Attempting
  <2>3. upstream \in Conns \cup {None}
    BY <1>3 DEF Stores
  <2>4. [th[t] EXCEPT !.pc = "read", !.up = upstream] \in Placed(t)
    BY <2>1, <2>3, ConnPlaced DEF AudioPcs, Attempting
  <2>5. [th[t] EXCEPT !.pc = "read"] \in Placed(t)
    BY <2>1, GotoPlaced DEF AudioPcs, Attempting
  <2>6. Moves(t)
    BY <1>1, <1>4, <1>9, <2>2, <2>4, <2>5 DEF fileVars, Adopt, Goto, Moves
  <2> QED
    BY <1>1, <1>3, <1>6, <1>9, <2>6 DEF fileVars, Adopt, Stores
<1>10. CASE WriteBlock(t)
  <2>1. th[t].pc \in Attempting /\ kind = "audio" /\ th[t].n < MaxAttempts
    BY <1>7, <1>10 DEF WriteBlock, FinishAll, At
  <2>2. /\ [th[t] EXCEPT !.pc = "got", !.up = None] \in Placed(t)
        /\ [th[t] EXCEPT !.pc = "lost", !.up = None] \in Placed(t)
    BY <2>1, ConnPlaced DEF AudioPcs, Attempting, Both
  <2>3. Moves(t)
    BY <1>1, <1>4, <1>10, <2>2 DEF WriteBlock, Moves
  <2>4. downloaded' \subseteq Blocks /\ disk' \subseteq Blocks /\ short' \subseteq Blocks
    BY <1>1, <1>3, <1>10 DEF WriteBlock, Stores, fileVars
  <2> QED
    BY <1>3, <1>6, <1>10, <2>3, <2>4 DEF WriteBlock, Stores, connVars
<1>11. CASE DropUpstream(t)
  <2> DEFINE pc == IF th[t].n + 1 < MaxAttempts THEN "fetch" ELSE "lost"
             v == [th[t] EXCEPT !.pc = pc, !.n = th[t].n + 1, !.up = None]
  <2>1. th[t].pc \in Attempting /\ kind = "audio" /\ th[t].n \in Nat /\ th[t].n < MaxAttempts
    BY <1>1, <1>7, <1>11 DEF fileVars, DropUpstream, FinishAll, At, Limit
  <2>2. th[t].n + 1 \in 0..Limit
    BY <2>1 DEF Limit
  <2>3. pc \in {"fetch", "lost"} /\ (pc = "fetch" => th[t].n + 1 < MaxAttempts)
    OBVIOUS
  <2> HIDE DEF pc
  <2>4. v \in Places /\ v.pc = pc /\ v.n = th[t].n + 1
    BY <1>1, <2>2, <2>3 DEF Places, Pcs
  <2>5. th' = [th EXCEPT ![t] = v]
    BY <1>11, Zenon DEF fileVars, DropUpstream, pc
  <2> HIDE DEF v
  <2>6. v \in Placed(t)
    BY <2>1, <2>3, <2>4 DEF Placed, Attempting, AudioPcs, Both
  <2>7. Moves(t)
    BY <1>1, <1>4, <2>5, <2>6 DEF Moves
  <2> QED
    BY <1>3, <1>6, <1>11, <2>7 DEF fileVars, DropUpstream, Stores
<1>12. CASE t = Prefetcher /\ FinishAll
  <2>1. Moves(t)
    BY <1>1, <1>2, <1>4, <1>12 DEF fileVars, FinishAll, Rest, Moves
  <2> QED
    BY <1>3, <1>6, <1>12, <2>1 DEF fileVars, FinishAll, Stores, connVars
<1> QED
  BY <1>8, <1>9, <1>10, <1>11, <1>12

\* After a wait, a thread looks whether the block has come.
LEMMA RecheckTypes ==
  ASSUME Types, NEW t \in Threads, Recheck(t)
  PROVE  Moves(t) /\ Stores'
<1>1. th \in [Threads -> Places] /\ th[t] \in Placed(t) /\ th[t].pc = "recheck" /\ kind \in {"buffered", "audio"}
  BY DEF Types, Recheck, At
<1>2. th[t].n = 0 /\ kind = "audio"
  BY <1>1 DEF Placed, Attempting, BufferedPcs, Both
<1>3. [th[t] EXCEPT !.pc = "look"] \in Placed(t)
  BY <1>2, GotoPlaced DEF AudioPcs, Both, Attempting
<1>4. Continue(t, TRUE) \in Placed(t) /\ Continue(t, FALSE) \in Placed(t)
  BY ContinuePlaced
<1>5. Moves(t)
  BY <1>1, <1>3, <1>4 DEF Recheck, Moves
<1> QED
  BY <1>5, StoresSame DEF Recheck

\* Counting a latch down moves the thread that does, and those that wait.
LEMMA ReleaseTypes ==
  ASSUME Types, NEW t \in Threads, Release(t)
  PROVE  Types'
<1> DEFINE woken == IF kind = "buffered" THEN "look" ELSE "recheck"
<1>1. /\ kind' = kind
      /\ UNCHANGED <<cache, tasks, queued, lastBi, over, done, downloaded, disk, short, upstream, open>>
      /\ inflight' = inflight \ {th[t].bi}
  BY DEF Release, bufferedVars, audioVars, fileVars, connVars
<1>2. Blocks' = Blocks /\ Tasks' = Tasks /\ Places' = Places /\ \A u \in Threads : Placed(u)' = Placed(u)
  BY <1>1 DEF Blocks, Tasks, Places, Placed, Limit
<1>3. Stores'
  BY <1>1, <1>2 DEF Types, Stores, NoRepeats
<1>4. \A u \in Threads : th'[u] = IF u = t THEN Continue(t, At(t, "got"))
                                  ELSE IF At(u, "wait") /\ th[u].bi = th[t].bi THEN [th[u] EXCEPT !.pc = woken]
                                  ELSE th[u]
  BY DEF Release
<1>5. DOMAIN th' = Threads /\ th' = [u \in Threads |-> th'[u]]
  BY DEF Release
<1>6. Continue(t, At(t, "got")) \in Placed(t)
  BY ContinuePlaced DEF At
<1>7. \A u \in Threads : th[u] \in Placed(u) /\ Placed(u) \subseteq Places
  BY DEF Types, Placed
<1>8. ASSUME NEW u \in Threads, At(u, "wait")
      PROVE  [th[u] EXCEPT !.pc = woken] \in Placed(u)
  <2>1. th[u].n = 0 /\ kind \in {"buffered", "audio"}
    BY <1>7, <1>8 DEF Placed, At, Attempting, Types
  <2> QED
    BY <2>1, GotoPlaced DEF AudioPcs, BufferedPcs, Both, Attempting
<1> HIDE DEF woken
<1>9. \A u \in Threads : th'[u] \in Placed(u)
  BY <1>4, <1>6, <1>7, <1>8
<1>10. th' \in [Threads -> Places]
  BY <1>5, <1>7, <1>9
<1> QED
  BY <1>1, <1>2, <1>3, <1>9, <1>10 DEF Types

\* The end of the cache, at any time.
LEMMA OverTypes ==
  ASSUME Types, Close \/ Dispose
  PROVE  Types'
<1>1. CASE Close
  <2>1. th[Prefetcher] \in Placed(Prefetcher) /\ kind = "buffered" /\ Prefetcher \in Threads
    BY <1>1 DEF Types, Close, Threads
  <2>2. ASSUME At(Prefetcher, "wait")
        PROVE  [th[Prefetcher] EXCEPT !.pc = "unqueue"] \in Placed(Prefetcher)
    <3>1. th[Prefetcher].n = 0
      BY <2>1, <2>2 DEF Placed, At, Attempting
    <3> QED
      BY <2>1, <3>1, GotoPlaced DEF BufferedPcs, Attempting
  <2>3. kind' = kind /\ Blocks' = Blocks /\ tasks' = <<>> /\ (NoRepeats(cache))'
    BY <1>1 DEF Close, Blocks, Types, Stores, NoRepeats
  <2>4. Stores'
    BY <1>1, <2>1, <2>3 DEF Close, Types, Stores, audioVars, fileVars, connVars
  <2>5. Moves(Prefetcher)
    BY <1>1, <2>1, <2>2 DEF Close, Moves, Types
  <2> QED
    BY <2>1, <2>4, <2>5, MovesTypes
<1>2. CASE Dispose
  <2>1. kind' = kind /\ Blocks' = Blocks /\ Tasks' = Tasks /\ (NoRepeats(cache))'
    BY <1>2 DEF fileVars, Dispose, Blocks, Tasks, Types, Stores, NoRepeats, bufferedVars
  <2>2. Stores'
    BY <1>2, <2>1 DEF fileVars, Dispose, Types, Stores, bufferedVars
  <2>3. Places' = Places /\ \A u \in Threads : Placed(u)' = Placed(u)
    BY <2>1 DEF Places, Placed, Limit
  <2> QED
    BY <1>2, <2>1, <2>2, <2>3 DEF fileVars, Dispose, Types
<1> QED
  BY <1>1, <1>2

\* The steps that move one thread.
OneMoves(t) ==
  \/ Look(t) \/ Recheck(t) \/ \E b \in Blocks : ReadAt(t, b)
  \/ Fetch(t) \/ Put(t) \/ PrefetchAhead(t) \/ Submit(t)
  \/ Attempt(t) \/ EnsureOpen(t) \/ Connect(t) \/ Adopt(t) \/ Download(t) \/ WriteBlock(t)
  \/ DropUpstream(t) \/ TakeChannel(t) \/ ReadDisk(t)
  \/ t = Prefetcher /\ (TakeTask \/ Unqueue)
  \/ t = Prefetcher /\ (DownloadAll \/ NextBlock)
  \/ t = Prefetcher /\ FinishAll

LEMMA NextCases ==
  Next => (\E t \in Threads : OneMoves(t)) \/ (\E t \in Threads : Release(t)) \/ Close \/ Dispose
  BY DEF Next, Step, OneMoves, Threads

LEMMA OneMovesTypes ==
  ASSUME Types, Connected, NEW t \in Threads, OneMoves(t)
  PROVE  Moves(t) /\ Stores'
<1>1. NoLeakedConnection /\ (At(t, "connect") => th[t].up = None)
  BY DEF Connected
<1>2. CASE Look(t)
  BY <1>2, LookTypes
<1>3. CASE Recheck(t)
  BY <1>3, RecheckTypes
<1>4. CASE \E b \in Blocks : ReadAt(t, b)
  BY <1>4, ReadAtTypes
<1>5. CASE \/ Fetch(t) \/ Put(t) \/ PrefetchAhead(t) \/ Submit(t)
           \/ t = Prefetcher /\ (TakeTask \/ Unqueue)
  BY <1>5, BufferedTypes
<1>6. CASE \/ Attempt(t) \/ EnsureOpen(t) \/ Download(t) \/ TakeChannel(t) \/ ReadDisk(t)
           \/ t = Prefetcher /\ (DownloadAll \/ NextBlock)
  BY <1>6, AudioGoes
<1>7. CASE \/ Connect(t) \/ Adopt(t) \/ WriteBlock(t) \/ DropUpstream(t)
           \/ t = Prefetcher /\ FinishAll
  BY <1>1, <1>7, AudioStores
<1> QED
  BY <1>2, <1>3, <1>4, <1>5, <1>6, <1>7, Zenon DEF OneMoves

\* Types is preserved by every step.
LEMMA TypesStep ==
  ASSUME Types, Connected, [Next]_vars
  PROVE  Types'
<1>1. CASE \E t \in Threads : OneMoves(t)
  BY <1>1, OneMovesTypes, MovesTypes
<1>2. CASE \E t \in Threads : Release(t)
  BY <1>2, ReleaseTypes
<1>3. CASE Close \/ Dispose
  BY <1>3, OverTypes
<1>4. CASE UNCHANGED vars
  BY <1>4 DEF vars, bufferedVars, audioVars, fileVars, connVars, Types, Stores, Places, Placed, Blocks, Tasks, Limit, NoRepeats
<1> QED
  BY <1>1, <1>2, <1>3, <1>4, NextCases

------------------------------------------------------------------------------
(* Connections.                                                            *)

\* Where a thread goes with its block is no step of connecting.
LEMMA ContinuePcs ==
  ASSUME Types, NEW t \in Threads, NEW ok \in BOOLEAN
  PROVE  Continue(t, ok).pc \in {"unqueue", "idle", "next", "finish", "ahead", "channel"}
<1>1. th[t] \in Places /\ AtRest.pc = "idle"
  BY DEF Types, AtRest
<1>2. CASE t = Prefetcher /\ kind = "buffered"
  BY <1>1, <1>2 DEF Continue, Places
<1>3. CASE t = Prefetcher /\ kind # "buffered"
  BY <1>1, <1>3 DEF Continue, AtRest
<1>4. CASE t # Prefetcher
  BY <1>1, <1>4 DEF Continue, AtRest
<1> QED
  BY <1>2, <1>3, <1>4

\* The steps that leave connections alone.
LEMMA ConnectedSame ==
  ASSUME Types, Connected, UNCHANGED <<kind, open, upstream, over>>,
         \A u \in Threads : th'[u] = th[u] \/ (th[u].pc # "adopt" /\ th'[u].pc \notin {"adopt", "connect"})
  PROVE  Connected'
<1>1. \A u \in Threads : At(u, "adopt")' = At(u, "adopt") /\ (At(u, "adopt") => th'[u].up = th[u].up)
  BY DEF At
<1>2. \A u \in Threads : At(u, "connect")' => th'[u].up = None
  BY DEF Connected, At
<1>3. {th'[u].up : u \in {w \in Threads : At(w, "adopt")'}} = {th[u].up : u \in {w \in Threads : At(w, "adopt")}}
  BY <1>1
<1>4. NoLeakedConnection'
  BY <1>3 DEF Connected, NoLeakedConnection
<1> QED
  BY <1>1, <1>2, <1>4 DEF Connected

\* Opening a connection, handing it over, and closing it.
LEMMA ConnectedMoves ==
  ASSUME Types, Connected, NEW t \in Threads, Moves(t), \A u \in Threads : u # t => th'[u] = th[u],
         \/ EnsureOpen(t) \/ Connect(t) \/ Adopt(t) \/ DropUpstream(t)
         \/ t = Prefetcher /\ FinishAll
  PROVE  Connected'
<1>1. th \in [Threads -> Places] /\ th[t] \in Places
  BY DEF Types
<1> DEFINE Adopting == {u \in Threads : At(u, "adopt")}
           Others == {u \in Threads : u # t /\ At(u, "adopt")}
<1>2. /\ open = ({upstream} \ {None}) \cup {th[u].up : u \in Adopting}
      /\ over => upstream = None
      /\ upstream \in Conns \cup {None} /\ kind' = kind
  BY DEF Connected, NoLeakedConnection, Types, Stores, Moves
<1>3. CASE EnsureOpen(t)
  <2>1. /\ th'[t].pc \in {"failed", "connect", "read"} /\ th[t].pc = "open"
        /\ th'[t].pc = "connect" => th'[t].up = None
    BY <1>1, <1>3 DEF EnsureOpen, Places, At
  <2>2. UNCHANGED <<open, upstream, over>>
    BY <1>3 DEF EnsureOpen, audioVars, fileVars, connVars
  <2>3. \A u \in Threads : At(u, "adopt")' = At(u, "adopt") /\ (At(u, "adopt") => th'[u].up = th[u].up)
    BY <2>1 DEF At
  <2>4. \A u \in Threads : At(u, "connect")' => th'[u].up = None
    BY <2>1 DEF Connected, At
  <2>5. {th'[u].up : u \in {w \in Threads : At(w, "adopt")'}} = {th[u].up : u \in Adopting}
    BY <2>3
  <2>6. NoLeakedConnection'
    BY <1>2, <2>2, <2>5 DEF NoLeakedConnection
  <2> QED
    BY <1>2, <2>2, <2>3, <2>4, <2>6 DEF Connected
<1>4. ASSUME th[t].pc # "adopt", th'[t].pc \notin {"adopt", "connect"},
             open' = open \ {upstream}, upstream' = None, UNCHANGED over
      PROVE  Connected'
  <2>1. \A u \in Threads : At(u, "adopt")' = At(u, "adopt") /\ (At(u, "adopt") => th'[u].up = th[u].up)
    BY <1>4 DEF At
  <2>2. \A u \in Threads : At(u, "connect")' => th'[u].up = None
    BY <1>4 DEF Connected, At
  <2>3. {th'[u].up : u \in {w \in Threads : At(w, "adopt")'}} = {th[u].up : u \in Adopting}
    BY <2>1
  <2>4. \A u \in Adopting : th[u].up \in Conns /\ th[u].up # upstream
    BY DEF Connected
  <2>5. open' = {th[u].up : u \in Adopting}
    BY <1>2, <1>4, <2>4
  <2>6. NoLeakedConnection'
    BY <1>4, <2>3, <2>5 DEF NoLeakedConnection
  <2> QED
    BY <1>2, <1>4, <2>1, <2>2, <2>4, <2>6 DEF Connected
<1>5. CASE Connect(t)
  <2>1. th[t].pc = "connect" /\ th[t].up = None /\ UNCHANGED <<upstream, over>>
    BY <1>5 DEF fileVars, Connect, Connected, At
  <2>2. CASE Goto(t, "failed") /\ UNCHANGED open
    <3>1. th'[t].pc = "failed"
      BY <1>1, <2>2 DEF Goto, Places
    <3> QED
      BY <1>2, <2>1, <2>2, <3>1, ConnectedSame
  <2>3. CASE open' = open \cup {UnusedConn} /\ th' = [th EXCEPT ![t].pc = "adopt", ![t].up = UnusedConn]
    <3> DEFINE c == UnusedConn
    <3>1. c \in Conns \ open /\ \A u \in Threads : th[u].up # c
      BY <2>1, FreeConn DEF Connected
    <3>2. th'[t].pc = "adopt" /\ th'[t].up = c
      BY <1>1, <2>3 DEF Places
    <3> HIDE DEF c
    <3>3. c # upstream
      BY <1>2, <3>1
    <3>4. {u \in Threads : At(u, "adopt")'} = Adopting \cup {t}
      BY <3>2 DEF At
    <3>5. t \notin Adopting
      BY <2>1 DEF At
    <3>6. {th'[u].up : u \in Adopting \cup {t}} = {th[u].up : u \in Adopting} \cup {c}
      BY <3>2, <3>5
    <3>7. open' = ({upstream'} \ {None}) \cup {th'[u].up : u \in {w \in Threads : At(w, "adopt")'}}
      BY <1>2, <2>1, <2>3, <3>4, <3>6 DEF c
    <3>8. NoLeakedConnection'
      BY <1>2, <2>1, <3>7 DEF NoLeakedConnection
    <3>9. \A u \in Threads : At(u, "adopt")' => th'[u].up \in Conns \ {upstream'}
      BY <2>1, <3>1, <3>2, <3>3 DEF Connected, At
    <3>10. \A u, w \in Threads : At(u, "adopt")' /\ At(w, "adopt")' /\ th'[u].up = th'[w].up => u = w
      BY <3>1, <3>2 DEF Connected, At
    <3>11. \A u \in Threads : At(u, "connect")' => th'[u].up = None
      BY <3>2 DEF Connected, At
    <3> QED
      BY <1>2, <2>1, <3>8, <3>9, <3>10, <3>11 DEF Connected
  <2> QED
    BY <1>5, <2>2, <2>3 DEF fileVars, Connect
<1>6. CASE Adopt(t)
  <2>1. th[t].pc = "adopt" /\ t \in Adopting /\ UNCHANGED over /\ th[t].up \in Conns \ {upstream}
    BY <1>6 DEF fileVars, Adopt, Connected, At
  <2>2. th'[t].pc \in {"failed", "read"}
    BY <1>1, <1>6 DEF fileVars, Adopt, Goto, Places
  <2>3. {u \in Threads : At(u, "adopt")'} = Others
    BY <2>2 DEF At
  <2>4. {th'[u].up : u \in Others} = {th[u].up : u \in Others}
    OBVIOUS
  <2>5. {th[u].up : u \in Adopting} = {th[u].up : u \in Others} \cup {th[t].up}
    BY <2>1
  <2>6. \A u \in Others : th[u].up # th[t].up /\ th[u].up \in Conns \ {upstream}
    BY <2>1 DEF Connected
  <2>7. \/ open' = open \ {th[t].up} /\ upstream' = upstream
        \/ open' = open /\ upstream = None /\ upstream' = th[t].up /\ ~over
    BY <1>6 DEF fileVars, Adopt
  <2> DEFINE ups == {th[u].up : u \in Others}
  <2>8. th[t].up \notin ups /\ open = ({upstream} \ {None}) \cup ups \cup {th[t].up}
    BY <1>2, <2>5, <2>6
  <2> HIDE DEF ups
  <2>9. open' = ({upstream'} \ {None}) \cup ups
    BY <2>1, <2>7, <2>8
  <2>10. NoLeakedConnection'
    BY <1>2, <2>1, <2>3, <2>4, <2>7, <2>9 DEF NoLeakedConnection, ups
  <2>11. \A u \in Threads : At(u, "adopt")' => u \in Others /\ th'[u].up = th[u].up
    BY <2>3
  <2>12. \A u \in Threads : At(u, "adopt")' => th'[u].up \in Conns \ {upstream'}
    BY <2>6, <2>7, <2>11
  <2>13. \A u, w \in Threads : At(u, "adopt")' /\ At(w, "adopt")' /\ th'[u].up = th'[w].up => u = w
    BY <2>11 DEF Connected
  <2>14. \A u \in Threads : At(u, "connect")' => th'[u].up = None
    BY <2>2 DEF Connected, At
  <2>15. kind # "buffered"
    BY <2>1 DEF Types, Placed, BufferedPcs, Both
  <2> QED
    BY <1>2, <2>10, <2>12, <2>13, <2>14, <2>15 DEF Connected
<1>7. CASE DropUpstream(t)
  <2>1. th[t].pc = "failed" /\ th'[t].pc \in {"fetch", "lost"}
    BY <1>1, <1>7 DEF fileVars, DropUpstream, At, Places
  <2> QED
    BY <1>4, <1>7, <2>1 DEF fileVars, DropUpstream
<1>8. CASE t = Prefetcher /\ FinishAll
  <2>1. th[t].pc = "finish" /\ th'[t].pc = "idle" /\ UNCHANGED over
    BY <1>1, <1>8 DEF fileVars, FinishAll, At, Rest, AtRest
  <2> QED
    BY <1>2, <1>4, <1>8, <2>1, ConnectedSame DEF fileVars, FinishAll, connVars
<1> QED
  BY <1>3, <1>5, <1>6, <1>7, <1>8

\* The other moves neither leave nor enter the steps of connecting.
LEMMA OtherMovesPcs ==
  ASSUME Types, NEW t \in Threads,
         \/ Look(t) \/ Recheck(t) \/ \E b \in Blocks : ReadAt(t, b)
         \/ Fetch(t) \/ Put(t) \/ PrefetchAhead(t) \/ Submit(t)
         \/ Attempt(t) \/ Download(t) \/ WriteBlock(t) \/ TakeChannel(t) \/ ReadDisk(t)
         \/ t = Prefetcher /\ (TakeTask \/ Unqueue)
         \/ t = Prefetcher /\ (DownloadAll \/ NextBlock)
  PROVE  /\ th[t].pc # "adopt" /\ th'[t].pc \notin {"adopt", "connect"}
         /\ UNCHANGED <<kind, open, upstream, over>>
<1>1. th \in [Threads -> Places] /\ th[t] \in Places
  BY DEF Types
<1>2. /\ Continue(t, TRUE).pc \notin {"adopt", "connect"}
      /\ Continue(t, FALSE).pc \notin {"adopt", "connect"}
      /\ AtRest.pc \notin {"adopt", "connect"}
  BY ContinuePcs DEF AtRest
<1>3. CASE Look(t)
  <2>1. \/ th' = [th EXCEPT ![t] = Continue(t, FALSE)] \/ th' = [th EXCEPT ![t] = Continue(t, TRUE)]
        \/ th' = [th EXCEPT ![t].pc = "wait"] \/ th' = [th EXCEPT ![t].pc = "fetch"]
    BY <1>3 DEF Look, Goto
  <2>2. [th[t] EXCEPT !.pc = "wait"].pc = "wait" /\ [th[t] EXCEPT !.pc = "fetch"].pc = "fetch"
    BY <1>1 DEF Places
  <2>3. \/ th'[t] = Continue(t, FALSE) \/ th'[t] = Continue(t, TRUE)
        \/ th'[t] = [th[t] EXCEPT !.pc = "wait"] \/ th'[t] = [th[t] EXCEPT !.pc = "fetch"]
    BY <1>1, <2>1
  <2>4. th'[t].pc \notin {"adopt", "connect"}
    BY <1>2, <2>2, <2>3
  <2> QED
    BY <1>3, <2>4 DEF Look, At, audioVars, fileVars, connVars
<1>4. CASE Recheck(t)
  BY <1>1, <1>2, <1>4 DEF Recheck, At, Places, audioVars, fileVars, connVars
<1>5. CASE \E b \in Blocks : ReadAt(t, b)
  <2>1. PICK b \in Blocks : ReadAt(t, b)
    BY <1>5
  <2>2. th'[t].pc = "look"
    BY <1>1, <2>1 DEF ReadAt, Places
  <2> QED
    BY <2>1, <2>2 DEF ReadAt, At, audioVars, fileVars, connVars
<1>6. CASE Fetch(t) \/ Put(t) \/ PrefetchAhead(t)
  BY <1>1, <1>2, <1>6 DEF Fetch, Put, PrefetchAhead, At, Goto, Rest, Places, audioVars, fileVars, connVars
<1>7. CASE Submit(t)
  <2>1. \/ th' = [th EXCEPT ![t] = AtRest]
        \/ th' = [th EXCEPT ![t] = [th[t] EXCEPT !.pc = "ahead", !.n = th[t].n + 1]]
    BY <1>7, Zenon DEF Submit, Rest
  <2>2. [th[t] EXCEPT !.pc = "ahead", !.n = th[t].n + 1].pc = "ahead"
    BY <1>1 DEF Places
  <2>3. th'[t] = AtRest \/ th'[t] = [th[t] EXCEPT !.pc = "ahead", !.n = th[t].n + 1]
    BY <1>1, <2>1
  <2>4. th'[t].pc \notin {"adopt", "connect"}
    BY <1>2, <2>2, <2>3
  <2> QED
    BY <1>7, <2>4 DEF Submit, At, audioVars, fileVars, connVars
<1>8. CASE Attempt(t) \/ Download(t) \/ WriteBlock(t)
  BY <1>1, <1>8 DEF Attempt, Download, WriteBlock, At, Goto, Places, audioVars, fileVars, connVars
<1>9. CASE TakeChannel(t) \/ ReadDisk(t)
  BY <1>1, <1>2, <1>9 DEF TakeChannel, ReadDisk, At, Goto, Rest, audioVars, fileVars, connVars, Places
<1>10. CASE t = Prefetcher /\ (TakeTask \/ Unqueue)
  BY <1>1, <1>2, <1>10 DEF TakeTask, Unqueue, At, Goto, Rest, audioVars, fileVars, connVars, Places
<1>11. CASE t = Prefetcher /\ (DownloadAll \/ NextBlock)
  BY <1>1, <1>2, <1>11 DEF DownloadAll, NextBlock, At, Goto, Rest, audioVars, fileVars, connVars, Places
<1> QED
  BY <1>3, <1>4, <1>5, <1>6, <1>7, <1>8, <1>9, <1>10, <1>11

\* Connected is preserved by every step.
LEMMA ConnectedStep ==
  ASSUME Types, Connected, [Next]_vars
  PROVE  Connected'
<1>1. ASSUME NEW t \in Threads, OneMoves(t)
      PROVE  Connected'
  <2>1. Moves(t) /\ \A u \in Threads : u # t => th'[u] = th[u]
    BY <1>1, OneMovesTypes, MovesTypes
  <2>2. CASE \/ EnsureOpen(t) \/ Connect(t) \/ Adopt(t) \/ DropUpstream(t)
             \/ t = Prefetcher /\ FinishAll
    BY <2>1, <2>2, ConnectedMoves
  <2>3. CASE \/ Look(t) \/ Recheck(t) \/ \E b \in Blocks : ReadAt(t, b)
             \/ Fetch(t) \/ Put(t) \/ PrefetchAhead(t) \/ Submit(t)
             \/ Attempt(t) \/ Download(t) \/ WriteBlock(t) \/ TakeChannel(t) \/ ReadDisk(t)
             \/ t = Prefetcher /\ (TakeTask \/ Unqueue)
             \/ t = Prefetcher /\ (DownloadAll \/ NextBlock)
    BY <2>1, <2>3, OtherMovesPcs, ConnectedSame
  <2> QED
    BY <1>1, <2>2, <2>3 DEF OneMoves
<1>2. ASSUME NEW t \in Threads, Release(t)
      PROVE  Connected'
  <2>1. th \in [Threads -> Places] /\ th[t].pc \in {"got", "lost"}
    BY <1>2 DEF Release, Types
  <2>2. Continue(t, At(t, "got")).pc \notin {"adopt", "connect"}
    BY ContinuePcs DEF At
  <2>3. UNCHANGED <<kind, open, upstream, over>>
    BY <1>2 DEF Release, audioVars, fileVars, connVars
  <2>4. \A u \in Threads : th'[u] = th[u] \/ (th[u].pc # "adopt" /\ th'[u].pc \notin {"adopt", "connect"})
    BY <1>2, <2>1, <2>2 DEF Release, At, Places
  <2> QED
    BY <2>3, <2>4, ConnectedSame
<1>3. CASE Close
  <2>1. /\ kind = "buffered" /\ th \in [Threads -> Places] /\ upstream = None
        /\ UNCHANGED <<kind, open, upstream>>
    BY <1>3 DEF Close, Types, Connected, audioVars, fileVars, connVars
  <2>2. \A u \in Threads : th'[u] = th[u] \/ (th[u].pc # "adopt" /\ th'[u].pc \notin {"adopt", "connect"})
    BY <1>3, <2>1 DEF Close, At, Places
  <2>3. \A u \in Threads : At(u, "adopt")' = At(u, "adopt") /\ (At(u, "adopt") => th'[u].up = th[u].up)
    BY <2>2 DEF At
  <2>4. {th'[u].up : u \in {w \in Threads : At(w, "adopt")'}} = {th[u].up : u \in {w \in Threads : At(w, "adopt")}}
    BY <2>3
  <2>5. NoLeakedConnection'
    BY <2>1, <2>4 DEF Connected, NoLeakedConnection
  <2>6. \A u \in Threads : At(u, "connect")' => th'[u].up = None
    BY <2>2 DEF Connected, At
  <2> QED
    BY <2>1, <2>3, <2>5, <2>6 DEF Connected
<1>4. CASE Dispose
  <2> DEFINE ups == {th[u].up : u \in {w \in Threads : At(w, "adopt")}}
  <2>1. /\ open = ({upstream} \ {None}) \cup ups
        /\ \A c \in ups : c \in Conns \ {upstream}
    BY DEF Connected, NoLeakedConnection
  <2>2. open' = open \ {upstream} /\ upstream' = None /\ th' = th /\ kind' = kind
    BY <1>4 DEF fileVars, Dispose
  <2>3. ups' = ups
    BY <2>2 DEF At
  <2> HIDE DEF ups
  <2>4. open' = ups'
    BY <2>1, <2>2, <2>3
  <2>5. NoLeakedConnection'
    BY <2>2, <2>4 DEF NoLeakedConnection, ups
  <2>6. \A u \in Threads : At(u, "adopt") => th[u].up \in Conns
    BY DEF Connected
  <2> QED
    BY <2>2, <2>5, <2>6 DEF Connected, At
<1>5. CASE UNCHANGED vars
  BY <1>5 DEF vars, audioVars, fileVars, connVars, Connected, NoLeakedConnection, At
<1> QED
  BY <1>1, <1>2, <1>3, <1>4, <1>5, NextCases

------------------------------------------------------------------------------
(* The bitmap.                                                             *)

\* A thread goes on with the block it asked for, if it has it.
LEMMA ContinueBlock ==
  ASSUME Types, NEW t \in Threads, NEW ok \in BOOLEAN
  PROVE  /\ Continue(t, ok).pc \in {"ahead", "channel"} => ok /\ Continue(t, ok).bi = th[t].bi
         /\ t = Prefetcher /\ kind = "buffered" =>
              Continue(t, ok).pc = "unqueue" /\ Continue(t, ok).bi = th[t].bi
<1>1. th[t] \in Places /\ AtRest.pc = "idle"
  BY DEF Types, AtRest
<1>2. CASE t = Prefetcher /\ kind = "buffered"
  BY <1>1, <1>2 DEF Continue, Places
<1>3. CASE t = Prefetcher /\ kind # "buffered"
  BY <1>1, <1>3 DEF Continue, AtRest
<1>4. CASE t # Prefetcher
  BY <1>1, <1>4 DEF Continue, AtRest
<1> QED
  BY <1>2, <1>3, <1>4

\* A thread that moves to a place where nothing is said of its block, or
\* keeps its block, leaves the bitmap true.
LEMMA WrittenSame ==
  ASSUME Written, UNCHANGED <<kind, downloaded, disk, short>>, over => over',
         \A u \in Threads : \/ th'[u].pc \notin {"got", "channel", "disk"}
                            \/ th'[u].bi \in downloaded /\ kind = "audio"
                            \/ th'[u] = th[u]
  PROVE  Written'
  BY DEF Written

\* Written is preserved by every step.
LEMMA WrittenStep ==
  ASSUME Types, Connected, Downloads, Written, [Next]_vars
  PROVE  Written'
<1>1. th \in [Threads -> Places] /\ \A u \in Threads : th[u] \in Places /\ th[u] \in Placed(u)
  BY DEF Types
<1>2. CASE kind # "audio"
  <2>1. kind' = kind
    BY DEF Next, Step, vars, Look, Recheck, Release, Fetch, Put, PrefetchAhead, Submit, Attempt, EnsureOpen,
           Connect, Adopt, Download, WriteBlock, DropUpstream, TakeChannel, ReadDisk, TakeTask, Unqueue,
           NextBlock, FinishAll, ReadAt, Close, DownloadAll, Dispose
  <2> QED
    BY <1>2, <2>1 DEF Written
<1>3. ASSUME NEW t \in Threads, OneMoves(t), kind = "audio"
      PROVE  Written'
  <2>1. Moves(t) /\ \A u \in Threads : u # t => th'[u] = th[u]
    BY <1>3, OneMovesTypes, MovesTypes
  <2>2. th[t].pc \in AudioPcs(t) /\ kind' = kind
    BY <1>1, <1>3, <2>1 DEF Placed, Moves
  <2>3. AtRest.pc = "idle" /\ Continue(t, FALSE).pc \notin {"got", "channel", "disk"}
    BY ContinuePcs, ContinueBlock DEF AtRest
  <2>4. /\ Continue(t, TRUE).pc \notin {"got", "disk"}
        /\ Continue(t, TRUE).pc = "channel" => Continue(t, TRUE).bi = th[t].bi
    BY ContinuePcs, ContinueBlock
  <2>5. ASSUME th'[t].pc \notin {"got", "channel", "disk"} \/ th'[t].bi \in downloaded,
               UNCHANGED <<downloaded, disk, short>>, over => over'
        PROVE  Written'
    BY <1>3, <2>1, <2>2, <2>5, WrittenSame
  <2>6. CASE Look(t)
    <3>1. \/ th' = [th EXCEPT ![t] = Continue(t, FALSE)]
          \/ th' = [th EXCEPT ![t] = Continue(t, TRUE)] /\ th[t].bi \in downloaded
          \/ th' = [th EXCEPT ![t].pc = "wait"] \/ th' = [th EXCEPT ![t].pc = "fetch"]
      BY <1>3, <2>6 DEF Look, Goto, Has
    <3>2. ASSUME th'[t].pc \notin {"got", "channel", "disk"} \/ th'[t].bi \in downloaded
          PROVE  Written'
      BY <2>5, <2>6, <3>2 DEF Look, audioVars, fileVars
    <3>3. CASE th' = [th EXCEPT ![t] = Continue(t, FALSE)]
      <4>1. th'[t] = Continue(t, FALSE)
        BY <1>1, <3>3
      <4> QED
        BY <2>3, <3>2, <4>1
    <3>4. CASE th' = [th EXCEPT ![t] = Continue(t, TRUE)] /\ th[t].bi \in downloaded
      <4>1. th'[t] = Continue(t, TRUE)
        BY <1>1, <3>4
      <4> QED
        BY <2>4, <3>2, <3>4, <4>1
    <3>5. CASE th' = [th EXCEPT ![t].pc = "wait"] \/ th' = [th EXCEPT ![t].pc = "fetch"]
      <4>1. th'[t].pc \in {"wait", "fetch"}
        BY <1>1, <3>5 DEF Places
      <4> QED
        BY <3>2, <4>1
    <3> QED
      BY <3>1, <3>3, <3>4, <3>5
  <2>7. CASE Recheck(t)
    <3>1. th'[t] = IF Has(th[t].bi) THEN Continue(t, TRUE)
                   ELSE IF over THEN Continue(t, FALSE) ELSE [th[t] EXCEPT !.pc = "look"]
      BY <1>1, <2>7 DEF Recheck
    <3>2. ASSUME th'[t].pc \notin {"got", "channel", "disk"} \/ th'[t].bi \in downloaded
          PROVE  Written'
      BY <2>5, <2>7, <3>2 DEF Recheck, audioVars, fileVars
    <3>3. CASE Has(th[t].bi)
      <4>1. th'[t] = Continue(t, TRUE)
        BY <3>1, <3>3
      <4>2. th[t].bi \in downloaded
        BY <1>3, <3>3 DEF Has
      <4> QED
        BY <2>4, <3>2, <4>1, <4>2
    <3>4. CASE ~Has(th[t].bi) /\ over
      <4>1. th'[t] = Continue(t, FALSE)
        BY <3>1, <3>4
      <4> QED
        BY <2>3, <3>2, <4>1
    <3>5. CASE ~Has(th[t].bi) /\ ~over
      <4>1. th'[t].pc = "look"
        BY <1>1, <3>1, <3>5 DEF Places
      <4> QED
        BY <3>2, <4>1
    <3> QED
      BY <3>3, <3>4, <3>5
  <2>8. CASE \E b \in Blocks : ReadAt(t, b)
    <3>1. PICK b \in Blocks : ReadAt(t, b)
      BY <2>8
    <3>2. th'[t].pc = "look"
      BY <1>1, <3>1 DEF ReadAt, Places
    <3> QED
      BY <2>5, <3>1, <3>2 DEF ReadAt, audioVars, fileVars
  <2>9. ~ (\/ Fetch(t) \/ Put(t) \/ PrefetchAhead(t) \/ Submit(t)
           \/ t = Prefetcher /\ (TakeTask \/ Unqueue))
    <3>1. tasks = <<>>
      BY <1>3 DEF Types, Stores
    <3> QED
      BY <1>3, <2>2, <3>1 DEF Fetch, Put, PrefetchAhead, Submit, TakeTask, Unqueue, At, AudioPcs, Both
  <2>10. CASE Attempt(t) \/ EnsureOpen(t) \/ Download(t)
    <3>1. th'[t].pc \notin {"got", "channel", "disk"}
      BY <1>1, <2>10 DEF Attempt, EnsureOpen, Download, Goto, Places
    <3> QED
      BY <2>5, <2>10, <3>1 DEF Attempt, EnsureOpen, Download, audioVars, fileVars
  <2>11. CASE TakeChannel(t) \/ ReadDisk(t)
    <3>1. CASE Rest(t)
      BY <1>1, <2>3, <2>5, <2>11, <3>1 DEF TakeChannel, ReadDisk, Rest, audioVars, fileVars
    <3>2. CASE TakeChannel(t) /\ Goto(t, "disk")
      <4>1. th[t].bi \in downloaded
        BY <1>3, <3>2 DEF TakeChannel, At, Written
      <4>2. th'[t].bi = th[t].bi
        BY <1>1, <3>2 DEF Goto, Places
      <4> QED
        BY <2>5, <3>2, <4>1, <4>2 DEF TakeChannel, audioVars, fileVars
    <3> QED
      BY <2>11, <3>1, <3>2 DEF TakeChannel, ReadDisk
  <2>12. CASE t = Prefetcher /\ (DownloadAll \/ NextBlock)
    <3>1. th'[t].pc \notin {"got", "channel", "disk"}
      BY <1>1, <2>3, <2>12 DEF DownloadAll, NextBlock, Goto, Rest, Places
    <3> QED
      BY <2>5, <2>12, <3>1 DEF DownloadAll, NextBlock, audioVars, fileVars
  <2>13. CASE Connect(t) \/ Adopt(t) \/ DropUpstream(t)
    <3>1. th'[t].pc \notin {"got", "channel", "disk"}
      <4>1. CASE Connect(t)
        BY <1>1, <4>1 DEF fileVars, Connect, Goto, Places
      <4>2. CASE Adopt(t)
        BY <1>1, <4>2 DEF fileVars, Adopt, Goto, Places
      <4>3. CASE DropUpstream(t)
        BY <1>1, <4>3 DEF fileVars, DropUpstream, Places
      <4> QED
        BY <2>13, <4>1, <4>2, <4>3
    <3> QED
      BY <2>5, <2>13, <3>1 DEF fileVars, Connect, Adopt, DropUpstream
  <2>14. CASE t = Prefetcher /\ FinishAll
    <3>1. th'[t].pc \notin {"got", "channel", "disk"}
      BY <1>1, <2>3, <2>14 DEF fileVars, FinishAll, Rest
    <3> QED
      BY <2>5, <2>14, <3>1 DEF fileVars, FinishAll
  <2>15. CASE WriteBlock(t)
    <3>1. CASE UNCHANGED fileVars /\ th' = [th EXCEPT ![t].pc = "lost", ![t].up = None]
      <4>1. th'[t].pc = "lost"
        BY <1>1, <3>1 DEF Places
      <4> QED
        BY <2>5, <2>15, <3>1, <4>1 DEF WriteBlock, fileVars
    <3>2. CASE /\ \/ disk' = (IF over THEN disk ELSE disk \cup {th[t].bi}) /\ short' = short
                  \/ ~over /\ short' = short \cup {th[t].bi} /\ disk' = disk
               /\ downloaded' = downloaded \cup {th[t].bi}
               /\ th' = [th EXCEPT ![t].pc = "got", ![t].up = None]
      <4>1. th'[t].bi = th[t].bi /\ over' = over
        BY <1>1, <2>15, <3>2 DEF Places, WriteBlock
      <4>2. \A u \in Threads : th'[u].pc \in {"got", "channel", "disk"} => th'[u].bi \in downloaded'
        <5>1. \A u \in Threads : th[u].pc \in {"got", "channel", "disk"} => th[u].bi \in downloaded
          BY <1>3 DEF Written
        <5>2. downloaded \subseteq downloaded' /\ th'[t].bi \in downloaded'
          BY <3>2, <4>1
        <5> QED
          BY <2>1, <5>1, <5>2
      <4>3. th[t].bi \notin downloaded
        BY <1>3, <2>15 DEF Downloads, Fetching, WriteBlock, At, Has
      <4>4. ~over' => downloaded' = disk' \cup short' /\ disk' \cap short' = {}
        BY <1>3, <3>2, <4>1, <4>3 DEF Written
      <4> QED
        BY <4>2, <4>4 DEF Written
    <3> QED
      BY <2>15, <3>1, <3>2 DEF WriteBlock
  <2> QED
    BY <1>3, <2>6, <2>7, <2>8, <2>9, <2>10, <2>11, <2>12, <2>13, <2>14, <2>15 DEF OneMoves
<1>4. ASSUME NEW t \in Threads, Release(t), kind = "audio"
      PROVE  Written'
  <2>1. /\ Continue(t, At(t, "got")).pc \notin {"got", "disk"}
        /\ Continue(t, At(t, "got")).pc = "channel" =>
             At(t, "got") /\ Continue(t, At(t, "got")).bi = th[t].bi
    BY ContinuePcs, ContinueBlock DEF At
  <2>2. UNCHANGED <<kind, downloaded, disk, short, over>>
    BY <1>4 DEF Release, audioVars, fileVars
  <2>3. At(t, "got") => th[t].bi \in downloaded
    BY <1>4 DEF Written, At
  <2>4. th'[t].pc \notin {"got", "channel", "disk"} \/ th'[t].bi \in downloaded
    BY <1>4, <2>1, <2>3 DEF Release
  <2>5. \A u \in Threads \ {t} : th'[u].pc = "recheck" \/ th'[u] = th[u]
    BY <1>1, <1>4 DEF Release, Places
  <2> QED
    BY <1>4, <2>2, <2>4, <2>5, WrittenSame
<1>5. CASE Dispose
  BY <1>5, WrittenSame DEF fileVars, Dispose
<1>6. CASE Close
  BY <1>2, <1>6 DEF Close
<1>7. CASE UNCHANGED vars
  BY <1>7 DEF vars, audioVars, fileVars, Written
<1> QED
  BY <1>2, <1>3, <1>4, <1>5, <1>6, <1>7, NextCases

------------------------------------------------------------------------------
(* Downloads.                                                              *)

FetchingPcs == {"fetch", "put", "open", "connect", "adopt", "read", "write", "failed", "got", "lost"}

(* The blocks that need no download.                                       *)
Held == IF kind = "buffered" THEN Elements(cache) ELSE downloaded

LEMMA HasHeld == \A b : Has(b) <=> b \in Held
  BY DEF Has, Held

\* A thread that stays out of the downloads, or goes on with its own, leaves
\* them as they are.
LEMMA DownloadsKept ==
  ASSUME Types, Downloads, NEW t \in Threads, inflight' = inflight,
         \A u \in Threads : u # t => th'[u] = th[u],
         \/ /\ th[t].pc \notin FetchingPcs /\ th'[t].pc \notin FetchingPcs
            /\ th'[t].pc = "wait" => th'[t].bi \in inflight
            /\ Held' \subseteq Held
         \/ /\ th[t].pc \in FetchingPcs \ {"got"} /\ th'[t].pc \in FetchingPcs
            /\ th'[t].bi = th[t].bi
            /\ Held' \subseteq Held \/ (th'[t].pc = "got" /\ Held' \subseteq Held \cup {th[t].bi})
  PROVE  Downloads'
<1>1. Fetching = {u \in Threads : th[u].pc \in FetchingPcs}
  BY DEF Fetching, FetchingPcs
<1>2. Fetching' = {u \in Threads : th'[u].pc \in FetchingPcs}
  BY DEF Fetching, FetchingPcs
<1>3. Fetching' = Fetching /\ \A u \in Fetching : th'[u].bi = th[u].bi
  BY <1>1, <1>2
<1>4. /\ \A u, w \in Fetching : u # w => th[u].bi # th[w].bi
      /\ \A u \in Fetching : th[u].pc # "got" => th[u].bi \notin Held
      /\ inflight = {th[u].bi : u \in Fetching}
      /\ \A u \in Threads : At(u, "wait") => th[u].bi \in inflight
  BY HasHeld DEF Downloads
<1>5. \A u \in Fetching : th[u].bi \in Blocks
  BY <1>1 DEF Types, Places
<1>6. ASSUME NEW u \in Fetching', th'[u].pc # "got"
      PROVE  th'[u].bi \notin Held'
  <2>1. u \in Fetching /\ th'[u].bi = th[u].bi
    BY <1>3, <1>6
  <2>2. CASE u = t
    <3>1. th[t].pc \in FetchingPcs \ {"got"}
      BY <1>1, <1>6, <2>1, <2>2
    <3> QED
      BY <1>1, <1>4, <1>6, <2>1, <2>2, <3>1
  <2>3. CASE u # t
    <3>1. th[u].bi \notin Held
      BY <1>1, <1>4, <1>6, <2>1, <2>3
    <3>2. th[t].pc \in FetchingPcs => th[u].bi # th[t].bi
      BY <1>1, <1>4, <2>1, <2>3
    <3> QED
      BY <2>1, <3>1, <3>2
  <2> QED
    BY <2>2, <2>3
<1>7. \A u \in Threads : At(u, "wait")' => th'[u].bi \in inflight
  BY <1>4 DEF At, FetchingPcs
<1>8. inflight' = {th'[u].bi : u \in Fetching'}
  BY <1>3, <1>4
<1>9. \A u, w \in Fetching' : u # w => th'[u].bi # th'[w].bi
  BY <1>3, <1>4
<1>10. \A u \in Fetching' : th'[u].pc # "got" => ~(Has(th[u].bi))'
  BY <1>6 DEF Has, Held
<1> QED
  BY <1>7, <1>8, <1>9, <1>10 DEF Downloads

\* The moves before and after a download.
LEMMA StepsOutside ==
  ASSUME Types, NEW t \in Threads,
         \/ Recheck(t) \/ \E b \in Blocks : ReadAt(t, b)
         \/ PrefetchAhead(t) \/ Submit(t) \/ TakeChannel(t) \/ ReadDisk(t)
         \/ t = Prefetcher /\ (TakeTask \/ Unqueue)
         \/ t = Prefetcher /\ (DownloadAll \/ NextBlock)
         \/ t = Prefetcher /\ FinishAll
  PROVE  /\ th[t].pc \notin FetchingPcs /\ th'[t].pc \notin FetchingPcs \cup {"wait"}
         /\ inflight' = inflight /\ Held' = Held
<1>1. th \in [Threads -> Places] /\ th[t] \in Places
  BY DEF Types
<1>2. /\ Continue(t, TRUE).pc \notin FetchingPcs \cup {"wait"}
      /\ Continue(t, FALSE).pc \notin FetchingPcs \cup {"wait"}
      /\ AtRest.pc \notin FetchingPcs \cup {"wait"}
  BY ContinuePcs DEF AtRest, FetchingPcs
<1>3. CASE Recheck(t)
  <2>1. th'[t] = IF Has(th[t].bi) THEN Continue(t, TRUE)
                 ELSE IF over THEN Continue(t, FALSE) ELSE [th[t] EXCEPT !.pc = "look"]
    BY <1>1, <1>3 DEF Recheck
  <2>2. [th[t] EXCEPT !.pc = "look"].pc = "look"
    BY <1>1 DEF Places
  <2>3. th'[t] = Continue(t, TRUE) \/ th'[t] = Continue(t, FALSE) \/ th'[t].pc = "look"
    BY <2>1, <2>2
  <2>4. th'[t].pc \notin FetchingPcs \cup {"wait"}
    BY <1>2, <2>3 DEF FetchingPcs
  <2> QED
    BY <1>3, <2>4 DEF Recheck, At, FetchingPcs, Held, bufferedVars, audioVars, fileVars
<1>4. CASE \E b \in Blocks : ReadAt(t, b)
  <2>1. PICK b \in Blocks : ReadAt(t, b)
    BY <1>4
  <2>2. th'[t].pc = "look"
    BY <1>1, <2>1 DEF ReadAt, Places
  <2> QED
    BY <2>1, <2>2 DEF ReadAt, At, FetchingPcs, Held, audioVars, fileVars
<1>5. CASE PrefetchAhead(t)
  <2>1. \/ th' = [th EXCEPT ![t] = AtRest] \/ th' = [th EXCEPT ![t].n = @ + 1]
        \/ th' = [th EXCEPT ![t].pc = "submit"]
    BY <1>5 DEF PrefetchAhead, Rest, Goto
  <2>2. th[t].pc = "ahead"
    BY <1>5 DEF PrefetchAhead, At
  <2>3. th'[t].pc \in {"idle", "ahead", "submit"}
    BY <1>1, <2>1, <2>2 DEF Places, AtRest
  <2> QED
    BY <1>5, <2>2, <2>3 DEF PrefetchAhead, FetchingPcs, Held, audioVars, fileVars
<1>6. CASE Submit(t)
  <2>1. \/ th' = [th EXCEPT ![t] = AtRest]
        \/ th' = [th EXCEPT ![t] = [th[t] EXCEPT !.pc = "ahead", !.n = th[t].n + 1]]
    BY <1>6, Zenon DEF Submit, Rest
  <2>2. [th[t] EXCEPT !.pc = "ahead", !.n = th[t].n + 1].pc = "ahead"
    BY <1>1 DEF Places
  <2>3. th'[t] = AtRest \/ th'[t] = [th[t] EXCEPT !.pc = "ahead", !.n = th[t].n + 1]
    BY <1>1, <2>1
  <2>4. th'[t].pc \notin FetchingPcs \cup {"wait"}
    BY <1>2, <2>2, <2>3 DEF FetchingPcs
  <2> QED
    BY <1>6, <2>4 DEF Submit, At, FetchingPcs, Held, audioVars, fileVars
<1>7. CASE TakeChannel(t) \/ ReadDisk(t)
  <2>1. th'[t].pc \in {"idle", "disk"}
    BY <1>1, <1>7 DEF TakeChannel, ReadDisk, Goto, Rest, AtRest, Places
  <2> QED
    BY <1>7, <2>1 DEF TakeChannel, ReadDisk, At, FetchingPcs, Held, audioVars, fileVars, bufferedVars
<1>8. CASE t = Prefetcher /\ (TakeTask \/ Unqueue)
  <2>1. th'[t].pc \in {"look", "unqueue", "idle"}
    BY <1>1, <1>8 DEF TakeTask, Unqueue, Rest, AtRest, Places
  <2> QED
    BY <1>8, <2>1 DEF TakeTask, Unqueue, At, FetchingPcs, Held, audioVars, fileVars
<1>9. CASE t = Prefetcher /\ (DownloadAll \/ NextBlock)
  <2>1. th'[t].pc \in {"next", "idle", "look"}
    BY <1>1, <1>9 DEF DownloadAll, NextBlock, Goto, Rest, AtRest, Places
  <2> QED
    BY <1>9, <2>1 DEF DownloadAll, NextBlock, At, FetchingPcs, Held, audioVars, fileVars, bufferedVars
<1>10. CASE t = Prefetcher /\ FinishAll
  <2>1. th'[t].pc = "idle"
    BY <1>1, <1>10 DEF fileVars, FinishAll, Rest, AtRest
  <2> QED
    BY <1>10, <2>1 DEF fileVars, FinishAll, At, FetchingPcs, Held, bufferedVars
<1> QED
  BY <1>3, <1>4, <1>5, <1>6, <1>7, <1>8, <1>9, <1>10

\* The moves of a download up to the end of it.
LEMMA StepsWithin ==
  ASSUME Types, NEW t \in Threads,
         \/ Fetch(t) \/ Attempt(t) \/ EnsureOpen(t) \/ Connect(t) \/ Adopt(t)
         \/ Download(t) \/ DropUpstream(t)
  PROVE  /\ th[t].pc \in FetchingPcs \ {"got"} /\ th'[t].pc \in FetchingPcs
         /\ th'[t].bi = th[t].bi /\ inflight' = inflight /\ Held' = Held
<1>1. th \in [Threads -> Places] /\ th[t] \in Places
  BY DEF Types
<1>2. CASE Fetch(t) \/ Attempt(t)
  BY <1>1, <1>2 DEF Fetch, Attempt, At, Goto, Places, FetchingPcs, Held, bufferedVars, audioVars, fileVars
<1>3. CASE EnsureOpen(t)
  BY <1>1, <1>3 DEF EnsureOpen, At, Places, FetchingPcs, Held, bufferedVars, audioVars, fileVars
<1>4. CASE Connect(t)
  BY <1>1, <1>4 DEF fileVars, Connect, At, Goto, Places, FetchingPcs, Held, bufferedVars
<1>5. CASE Adopt(t)
  BY <1>1, <1>5 DEF fileVars, Adopt, At, Goto, Places, FetchingPcs, Held, bufferedVars
<1>6. CASE Download(t)
  BY <1>1, <1>6 DEF Download, At, Goto, Places, FetchingPcs, Held, bufferedVars, audioVars, fileVars
<1>7. CASE DropUpstream(t)
  BY <1>1, <1>7 DEF fileVars, DropUpstream, At, Places, FetchingPcs, Held, bufferedVars
<1> QED
  BY <1>2, <1>3, <1>4, <1>5, <1>6, <1>7

\* The end of a download: the block is cached, or its file has it.
LEMMA StepsToTheEnd ==
  ASSUME Types, NEW t \in Threads, Put(t) \/ WriteBlock(t)
  PROVE  /\ th[t].pc \in FetchingPcs \ {"got"} /\ th'[t].pc \in FetchingPcs
         /\ th'[t].bi = th[t].bi /\ inflight' = inflight
         /\ Held' \subseteq Held \/ (th'[t].pc = "got" /\ Held' \subseteq Held \cup {th[t].bi})
<1>1. th \in [Threads -> Places] /\ th[t] \in Places /\ th[t] \in Placed(t) /\ kind \in {"buffered", "audio"}
  BY DEF Types
<1>2. CASE Put(t)
  <2>1. th[t].pc = "put" /\ th'[t].pc = "got" /\ th'[t].bi = th[t].bi
    BY <1>1, <1>2 DEF Put, At, Goto, Places
  <2>2. kind = "buffered" /\ kind' = "buffered"
    BY <1>1, <1>2, <2>1 DEF Placed, AudioPcs, Both, Put
  <2> DEFINE s == Append(Without(cache, th[t].bi), th[t].bi)
  <2>3. cache \in Seq(Blocks) /\ NoRepeats(cache) /\ th[t].bi \in Blocks
    BY <1>1 DEF Types, Stores, Places
  <2>4. s \in Seq(Blocks) /\ NoRepeats(s) /\ Elements(s) = Elements(cache) \cup {th[t].bi}
    BY <2>3, ToTheEnd
  <2>5. cache' = IF Len(s) > MaxBlocks THEN Tail(s) ELSE s
    BY <1>2 DEF Put
  <2> HIDE DEF s
  <2>6. Elements(cache') \subseteq Elements(s)
    <3>1. CASE s = <<>>
      BY <2>5, <3>1
    <3>2. CASE s # <<>>
      BY <2>4, <2>5, <3>2, WithoutHead
    <3> QED
      BY <3>1, <3>2
  <2>7. Held' \subseteq Held \cup {th[t].bi}
    BY <2>2, <2>4, <2>6 DEF Held, Elements
  <2> QED
    BY <1>2, <2>1, <2>7 DEF Put, FetchingPcs
<1>3. CASE WriteBlock(t)
  <2>1. th[t].pc = "write" /\ UNCHANGED <<kind, cache, inflight>>
    BY <1>3 DEF WriteBlock, At, bufferedVars
  <2>2. kind = "audio"
    BY <1>1, <2>1 DEF Placed, BufferedPcs, Both
  <2>3. th'[t].pc \in {"got", "lost"} /\ th'[t].bi = th[t].bi
    BY <1>1, <1>3 DEF WriteBlock, Places
  <2>4. downloaded' = downloaded \/ (th'[t].pc = "got" /\ downloaded' = downloaded \cup {th[t].bi})
    BY <1>1, <1>3 DEF WriteBlock, Places, fileVars
  <2> QED
    BY <2>1, <2>2, <2>3, <2>4 DEF Held, FetchingPcs
<1> QED
  BY <1>2, <1>3

\* Whoever asks for a block that is being downloaded waits; whoever asks first
\* puts the latch up.
LEMMA LookDownloads ==
  ASSUME Types, Downloads, NEW t \in Threads, Look(t), \A u \in Threads : u # t => th'[u] = th[u]
  PROVE  Downloads'
<1> DEFINE b == th[t].bi
<1>1. /\ th \in [Threads -> Places] /\ th[t] \in Places /\ th[t].pc = "look" /\ b \in Blocks
      /\ kind \in {"buffered", "audio"} /\ kind' = kind /\ downloaded' = downloaded
  BY DEF Types, Look, At, Places, audioVars, fileVars
<1>2. /\ Continue(t, TRUE).pc \notin FetchingPcs \cup {"wait"}
      /\ Continue(t, FALSE).pc \notin FetchingPcs \cup {"wait"}
  BY ContinuePcs DEF FetchingPcs
<1>3. Held' = Held
  <2>1. CASE cache' = cache
    BY <1>1, <2>1 DEF Held
  <2>2. CASE kind = "buffered" /\ b \in Elements(cache) /\ cache' = Append(Without(cache, b), b)
    <3>1. cache \in Seq(Blocks) /\ NoRepeats(cache)
      BY DEF Types, Stores
    <3>2. Elements(Append(Without(cache, b), b)) = Elements(cache) \cup {b}
      BY <1>1, <3>1, ToTheEnd
    <3>3. Elements(cache') = Elements(cache) \cup {b}
      BY <2>2, <3>2, Zenon
    <3>4. Elements(cache)' = Elements(cache')
      BY DEF Elements
    <3>5. Elements(cache)' = Elements(cache)
      BY <2>2, <3>3, <3>4
    <3> QED
      BY <1>1, <2>2, <3>5 DEF Held
  <2> QED
    BY <2>1, <2>2 DEF Look, Has
<1>4. CASE inflight' = inflight /\ \/ th' = [th EXCEPT ![t] = Continue(t, FALSE)]
                                   \/ th' = [th EXCEPT ![t] = Continue(t, TRUE)]
  <2>1. th'[t] = Continue(t, FALSE) \/ th'[t] = Continue(t, TRUE)
    BY <1>1, <1>4
  <2>2. th[t].pc \notin FetchingPcs /\ th'[t].pc \notin FetchingPcs \cup {"wait"}
    BY <1>1, <1>2, <2>1 DEF FetchingPcs
  <2> QED
    BY <1>3, <1>4, <2>2, DownloadsKept
<1>5. CASE b \in inflight /\ inflight' = inflight /\ th' = [th EXCEPT ![t].pc = "wait"]
  <2>1. th'[t].pc = "wait" /\ th'[t].bi = b
    BY <1>1, <1>5 DEF Places
  <2>2. th[t].pc \notin FetchingPcs /\ th'[t].pc \notin FetchingPcs
    BY <1>1, <2>1 DEF FetchingPcs
  <2> QED
    BY <1>3, <1>5, <2>1, <2>2, DownloadsKept
<1>6. CASE /\ ~Has(b) /\ b \notin inflight /\ inflight' = inflight \cup {b}
           /\ th' = [th EXCEPT ![t].pc = "fetch"]
  <2>1. th'[t].pc = "fetch" /\ th'[t].bi = b
    BY <1>1, <1>6 DEF Places
  <2>2. /\ \A u, w \in Fetching : u # w => th[u].bi # th[w].bi
        /\ \A u \in Fetching : th[u].pc # "got" => th[u].bi \notin Held
        /\ inflight = {th[u].bi : u \in Fetching}
        /\ \A u \in Threads : At(u, "wait") => th[u].bi \in inflight
    BY HasHeld DEF Downloads
  <2>3. Fetching' = Fetching \cup {t} /\ t \notin Fetching
    BY <1>1, <2>1 DEF Fetching
  <2>4. \A u \in Fetching : th'[u] = th[u] /\ th[u].bi # b
    BY <1>6, <2>2, <2>3 DEF Fetching
  <2>5. \A u, w \in Fetching' : u # w => th'[u].bi # th'[w].bi
    BY <2>1, <2>2, <2>3, <2>4
  <2>6. \A u \in Fetching' : th'[u].pc # "got" => th'[u].bi \notin Held'
    BY <1>3, <1>6, <2>1, <2>2, <2>3, <2>4, HasHeld
  <2>7. inflight' = {th'[u].bi : u \in Fetching'}
    BY <1>6, <2>1, <2>2, <2>3, <2>4
  <2>8. \A u \in Threads : At(u, "wait")' => th'[u].bi \in inflight'
    BY <1>6, <2>1, <2>2 DEF At
  <2>9. \A u \in Fetching' : th'[u].pc # "got" => ~(Has(th[u].bi))'
    BY <2>6 DEF Has, Held
  <2> QED
    BY <2>5, <2>7, <2>8, <2>9 DEF Downloads
<1> QED
  BY <1>4, <1>5, <1>6 DEF Look, Goto

\* When the latch is counted down, nobody waits for it any more.
LEMMA ReleaseDownloads ==
  ASSUME Types, Downloads, NEW t \in Threads, Release(t)
  PROVE  Downloads'
<1> DEFINE b == th[t].bi
<1>1. th \in [Threads -> Places] /\ t \in Fetching
  BY DEF Types, Release, Fetching
<1>2. Continue(t, At(t, "got")).pc \notin FetchingPcs \cup {"wait"}
  BY ContinuePcs DEF At, FetchingPcs
<1>3. /\ \A u, w \in Fetching : u # w => th[u].bi # th[w].bi
      /\ \A u \in Fetching : th[u].pc # "got" => th[u].bi \notin Held
      /\ inflight = {th[u].bi : u \in Fetching}
      /\ \A u \in Threads : At(u, "wait") => th[u].bi \in inflight
  BY HasHeld DEF Downloads
<1>4. Held' = Held /\ inflight' = inflight \ {b}
  BY DEF Release, Held, bufferedVars, audioVars, fileVars
<1>5. th'[t].pc \notin FetchingPcs \cup {"wait"}
  BY <1>2 DEF Release
<1>6. \A u \in Threads \ {t} : At(u, "wait") /\ th[u].bi = b => th'[u].pc \in {"look", "recheck"}
  BY <1>1 DEF Release, Places
<1>7. \A u \in Threads \ {t} : ~(At(u, "wait") /\ th[u].bi = b) => th'[u] = th[u]
  BY <1>1 DEF Release
<1>8. Fetching' = Fetching \ {t} /\ \A u \in Fetching \ {t} : th'[u] = th[u]
  <2>1. t \notin Fetching'
    BY <1>5 DEF Fetching, FetchingPcs
  <2>2. \A u \in Threads \ {t} : u \in Fetching' <=> u \in Fetching
    BY <1>6, <1>7 DEF Fetching, At
  <2>3. \A u \in Fetching \ {t} : th'[u] = th[u]
    BY <1>7 DEF Fetching, At
  <2> QED
    BY <2>1, <2>2, <2>3 DEF Fetching
<1>9. \A u, w \in Fetching' : u # w => th'[u].bi # th'[w].bi
  BY <1>3, <1>8
<1>10. \A u \in Fetching' : th'[u].pc # "got" => th'[u].bi \notin Held'
  BY <1>3, <1>4, <1>8
<1>11. \A u \in Fetching' : th'[u].pc # "got" => ~(Has(th[u].bi))'
  BY <1>10 DEF Has, Held
<1>12. inflight' = {th'[u].bi : u \in Fetching'}
  BY <1>1, <1>3, <1>4, <1>8
<1>13. \A u \in Threads : At(u, "wait")' => th'[u].bi \in inflight'
  BY <1>3, <1>4, <1>5, <1>6, <1>7 DEF At
<1> QED
  BY <1>9, <1>11, <1>12, <1>13 DEF Downloads

\* Downloads is preserved by every step.
LEMMA DownloadsStep ==
  ASSUME Types, Connected, Downloads, [Next]_vars
  PROVE  Downloads'
<1>1. ASSUME NEW t \in Threads, OneMoves(t)
      PROVE  Downloads'
  <2>1. \A u \in Threads : u # t => th'[u] = th[u]
    BY <1>1, OneMovesTypes, MovesTypes
  <2>2. CASE Look(t)
    BY <2>1, <2>2, LookDownloads
  <2>3. CASE \/ Recheck(t) \/ \E b \in Blocks : ReadAt(t, b)
             \/ PrefetchAhead(t) \/ Submit(t) \/ TakeChannel(t) \/ ReadDisk(t)
             \/ t = Prefetcher /\ (TakeTask \/ Unqueue)
             \/ t = Prefetcher /\ (DownloadAll \/ NextBlock)
             \/ t = Prefetcher /\ FinishAll
    BY <2>1, <2>3, StepsOutside, DownloadsKept
  <2>4. CASE \/ Fetch(t) \/ Attempt(t) \/ EnsureOpen(t) \/ Connect(t) \/ Adopt(t)
             \/ Download(t) \/ DropUpstream(t)
    BY <2>1, <2>4, StepsWithin, DownloadsKept
  <2>5. CASE Put(t) \/ WriteBlock(t)
    BY <2>1, <2>5, StepsToTheEnd, DownloadsKept
  <2> QED
    BY <1>1, <2>2, <2>3, <2>4, <2>5 DEF OneMoves
<1>2. CASE \E t \in Threads : Release(t)
  BY <1>2, ReleaseDownloads
<1>3. CASE Close
  <2>1. /\ th \in [Threads -> Places] /\ UNCHANGED <<inflight, kind, cache, downloaded>>
        /\ Prefetcher \in Threads
    BY <1>3 DEF Types, Close, audioVars, fileVars, Threads
  <2>2. CASE th' = th
    BY <2>1, <2>2 DEF Downloads, Fetching, At, Has
  <2>3. CASE At(Prefetcher, "wait") /\ th' = [th EXCEPT ![Prefetcher].pc = "unqueue"]
    <3>1. th'[Prefetcher].pc = "unqueue" /\ \A u \in Threads : u # Prefetcher => th'[u] = th[u]
      BY <2>1, <2>3 DEF Places
    <3>2. /\ th[Prefetcher].pc \notin FetchingPcs /\ th'[Prefetcher].pc \notin FetchingPcs \cup {"wait"}
          /\ Held' = Held
      BY <2>1, <2>3, <3>1 DEF At, FetchingPcs, Held
    <3> QED
      BY <2>1, <3>1, <3>2, DownloadsKept
  <2> QED
    BY <1>3, <2>2, <2>3 DEF Close
<1>4. CASE Dispose
  BY <1>4 DEF fileVars, Dispose, bufferedVars, Downloads, Fetching, At, Has
<1>5. CASE UNCHANGED vars
  BY <1>5 DEF vars, bufferedVars, audioVars, fileVars, Downloads, Fetching, At, Has
<1> QED
  BY <1>1, <1>2, <1>3, <1>4, <1>5, NextCases

\* A record of the types, in the words of the properties.
LEMMA TypesTypeOK == Types => TypeOK
<1> SUFFICES ASSUME Types PROVE TypeOK
  OBVIOUS
<1>1. \A t \in Threads : th[t].bi \in Blocks /\ th[t].up \in Conns \cup {None} /\ th[t].n \in 0..Limit
  BY DEF Types, Places
<1>2. \A i \in 1..Len(tasks) : tasks[i] \in Tasks
  BY DEF Types, Stores
<1> QED
  BY <1>1, <1>2 DEF TypeOK, Types, Stores, Limit, Tasks

------------------------------------------------------------------------------
(* Prefetches.                                                             *)

\* The memory cache takes only its own steps.
LEMMA BufferedMoves ==
  ASSUME Types, kind = "buffered", NEW t \in Threads, OneMoves(t)
  PROVE  \/ Look(t) \/ \E b \in Blocks : ReadAt(t, b)
         \/ Fetch(t) \/ Put(t) \/ PrefetchAhead(t) \/ Submit(t)
         \/ t = Prefetcher /\ (TakeTask \/ Unqueue)
<1>1. th[t].pc \in BufferedPcs(t)
  BY DEF Types, Placed
<1>2. ~ (Recheck(t) \/ Attempt(t) \/ EnsureOpen(t) \/ Connect(t) \/ Adopt(t) \/ Download(t))
  BY <1>1 DEF Recheck, Attempt, EnsureOpen, Connect, Adopt, Download, At, BufferedPcs, Both
<1>3. ~ (WriteBlock(t) \/ DropUpstream(t) \/ TakeChannel(t) \/ ReadDisk(t))
  BY <1>1 DEF WriteBlock, DropUpstream, TakeChannel, ReadDisk, At, BufferedPcs, Both
<1>4. ~ (t = Prefetcher /\ (DownloadAll \/ NextBlock)) /\ ~ (t = Prefetcher /\ FinishAll)
  BY <1>1 DEF DownloadAll, NextBlock, FinishAll, At, BufferedPcs, Both
<1> QED
  BY <1>2, <1>3, <1>4 DEF OneMoves

\* What Tasked says of a cache that is not closed.
LEMMA TaskedFacts ==
  ASSUME Tasked, kind = "buffered", ~over
  PROVE  /\ queued = {tasks[i].bi : i \in 1..Len(tasks)} \cup {Submitting(u) : u \in Submitters}
                     \cup (IF Prefetching THEN {th[Prefetcher].bi} ELSE {})
         /\ \A i, j \in 1..Len(tasks) : tasks[i].bi = tasks[j].bi => i = j
         /\ \A u, w \in Submitters : Submitting(u) = Submitting(w) => u = w
         /\ \A i \in 1..Len(tasks), u \in Submitters : tasks[i].bi # Submitting(u)
         /\ Prefetching => /\ \A i \in 1..Len(tasks) : tasks[i].bi # th[Prefetcher].bi
                           /\ \A u \in Submitters : Submitting(u) # th[Prefetcher].bi
  BY DEF Tasked, QueuedHasTask, Submitters, Prefetching

\* Steps that change neither the tasks, nor who submits one, nor the block of
\* the prefetch thread.
LEMMA TaskedSame ==
  ASSUME Types, Tasked, UNCHANGED <<kind, over, queued>>,
         Len(tasks') = Len(tasks), \A i \in 1..Len(tasks) : tasks'[i].bi = tasks[i].bi,
         \A u \in Readers : th'[u] = th[u] \/ (~At(u, "submit") /\ ~At(u, "submit")'),
         \/ th'[Prefetcher] = th[Prefetcher]
         \/ /\ ~At(Prefetcher, "idle") /\ ~At(Prefetcher, "idle")'
            /\ th'[Prefetcher].bi = th[Prefetcher].bi
  PROVE  Tasked'
<1> SUFFICES ASSUME kind = "buffered", ~over
             PROVE  Tasked'
  BY DEF Tasked
<1>1. Submitters' = Submitters /\ \A u \in Submitters : th'[u] = th[u]
  BY DEF Submitters, At
<1>2. Prefetching' = Prefetching /\ (Prefetching => th'[Prefetcher].bi = th[Prefetcher].bi)
  BY DEF Prefetching, At
<1>3. /\ queued = {tasks[i].bi : i \in 1..Len(tasks)} \cup {Submitting(u) : u \in Submitters}
                  \cup (IF Prefetching THEN {th[Prefetcher].bi} ELSE {})
      /\ \A i, j \in 1..Len(tasks) : tasks[i].bi = tasks[j].bi => i = j
      /\ \A u, w \in Submitters : Submitting(u) = Submitting(w) => u = w
      /\ \A i \in 1..Len(tasks), u \in Submitters : tasks[i].bi # Submitting(u)
      /\ Prefetching => /\ \A i \in 1..Len(tasks) : tasks[i].bi # th[Prefetcher].bi
                        /\ \A u \in Submitters : Submitting(u) # th[Prefetcher].bi
  BY TaskedFacts
<1>4. {tasks'[i].bi : i \in 1..Len(tasks')} = {tasks[i].bi : i \in 1..Len(tasks)}
  OBVIOUS
<1>5. \A u \in Submitters : Submitting(u)' = Submitting(u)
  BY <1>1 DEF Submitting
<1>6. {Submitting(u)' : u \in Submitters'} = {Submitting(u) : u \in Submitters}
  BY <1>1, <1>5
<1>7. queued' = {tasks'[i].bi : i \in 1..Len(tasks')} \cup {Submitting(u)' : u \in Submitters'}
                \cup (IF Prefetching' THEN {th'[Prefetcher].bi} ELSE {})
  BY <1>2, <1>3, <1>4, <1>6
<1>8. QueuedHasTask'
  BY <1>7 DEF QueuedHasTask, Submitters, Prefetching
<1>9. \A i, j \in 1..Len(tasks') : tasks'[i].bi = tasks'[j].bi => i = j
  BY <1>3
<1>10. \A u, w \in Submitters' : Submitting(u)' = Submitting(w)' => u = w
  BY <1>1, <1>3, <1>5
<1>11. \A i \in 1..Len(tasks'), u \in Submitters' : tasks'[i].bi # Submitting(u)'
  BY <1>1, <1>3, <1>5
<1>12. Prefetching' => /\ \A i \in 1..Len(tasks') : tasks'[i].bi # th'[Prefetcher].bi
                       /\ \A u \in Submitters' : Submitting(u)' # th'[Prefetcher].bi
  BY <1>1, <1>2, <1>3, <1>5
<1> QED
  BY <1>8, <1>9, <1>10, <1>11, <1>12 DEF Tasked

\* A reader queues the next block, or goes on.
LEMMA AheadTasked ==
  ASSUME Types, Tasked, NEW t \in Threads, PrefetchAhead(t), \A u \in Threads : u # t => th'[u] = th[u]
  PROVE  Tasked'
<1> DEFINE b == th[t].bi + th[t].n + 1
<1>1. /\ th \in [Threads -> Places] /\ th[t] \in Places /\ th[t] \in Placed(t) /\ th[t].pc = "ahead"
      /\ UNCHANGED <<kind, over, tasks>>
  BY DEF Types, PrefetchAhead, At
<1>2. t \in Readers /\ t # Prefetcher
  BY <1>1 DEF Placed, AudioPcs, BufferedPcs, Both, Threads
<1>3. CASE queued' = queued /\ th'[t].pc # "submit"
  BY <1>1, <1>2, <1>3, TaskedSame DEF Threads, At
<1>4. CASE b \notin queued /\ queued' = queued \cup {b} /\ th' = [th EXCEPT ![t].pc = "submit"]
  <2> SUFFICES ASSUME kind = "buffered", ~over
               PROVE  Tasked'
    BY <1>1 DEF Tasked
  <2>1. th'[t].pc = "submit" /\ th'[t].bi = th[t].bi /\ th'[t].n = th[t].n
    BY <1>1, <1>4 DEF Places
  <2>2. Submitters' = Submitters \cup {t} /\ t \notin Submitters
    BY <1>1, <1>2, <2>1 DEF Submitters, At, Threads
  <2>3. Submitting(t)' = b /\ \A u \in Submitters : Submitting(u)' = Submitting(u)
    BY <2>1, <2>2 DEF Submitting, Submitters, Threads
  <2>4. {Submitting(u)' : u \in Submitters'} = {Submitting(u) : u \in Submitters} \cup {b}
    BY <2>2, <2>3
  <2>5. th'[Prefetcher] = th[Prefetcher] /\ Prefetching' = Prefetching
    BY <1>2 DEF Prefetching, At, Threads
  <2>6. /\ queued = {tasks[i].bi : i \in 1..Len(tasks)} \cup {Submitting(u) : u \in Submitters}
                    \cup (IF Prefetching THEN {th[Prefetcher].bi} ELSE {})
        /\ \A i, j \in 1..Len(tasks) : tasks[i].bi = tasks[j].bi => i = j
        /\ \A u, w \in Submitters : Submitting(u) = Submitting(w) => u = w
        /\ \A i \in 1..Len(tasks), u \in Submitters : tasks[i].bi # Submitting(u)
        /\ Prefetching => /\ \A i \in 1..Len(tasks) : tasks[i].bi # th[Prefetcher].bi
                          /\ \A u \in Submitters : Submitting(u) # th[Prefetcher].bi
    BY TaskedFacts
  <2>7. /\ \A i \in 1..Len(tasks) : tasks[i].bi # b
        /\ \A u \in Submitters : Submitting(u) # b
        /\ Prefetching => th[Prefetcher].bi # b
    BY <1>4, <2>6
  <2>8. queued' = {tasks[i].bi : i \in 1..Len(tasks)} \cup {Submitting(u)' : u \in Submitters'}
                  \cup (IF Prefetching THEN {th[Prefetcher].bi} ELSE {})
    BY <1>4, <2>4, <2>6
  <2>9. QueuedHasTask'
    BY <1>1, <2>5, <2>8 DEF QueuedHasTask, Submitters, Prefetching
  <2>10. \A u, w \in Submitters' : Submitting(u)' = Submitting(w)' => u = w
    BY <2>2, <2>3, <2>6, <2>7
  <2>11. \A i \in 1..Len(tasks), u \in Submitters' : tasks[i].bi # Submitting(u)'
    BY <2>2, <2>3, <2>6, <2>7
  <2>12. Prefetching => \A u \in Submitters' : Submitting(u)' # th[Prefetcher].bi
    BY <2>2, <2>3, <2>6, <2>7
  <2> QED
    BY <1>1, <2>5, <2>6, <2>9, <2>10, <2>11, <2>12 DEF Tasked
<1>5. ASSUME Rest(t) \/ th' = [th EXCEPT ![t].n = @ + 1]
      PROVE  th'[t].pc # "submit"
  BY <1>1, <1>5 DEF Rest, AtRest, Places
<1> QED
  BY <1>3, <1>4, <1>5 DEF PrefetchAhead, Goto

\* The reader hands the task over.
LEMMA SubmitTasked ==
  ASSUME Types, Tasked, NEW t \in Threads, Submit(t), \A u \in Threads : u # t => th'[u] = th[u]
  PROVE  Tasked'
<1> SUFFICES ASSUME kind = "buffered", ~over
             PROVE  Tasked'
  BY DEF Tasked, Submit
<1> DEFINE task == [bi |-> Submitting(t), fresh |-> TRUE]
<1>1. /\ th \in [Threads -> Places] /\ th[t] \in Places /\ th[t] \in Placed(t) /\ th[t].pc = "submit"
      /\ UNCHANGED <<kind, over, queued>>
  BY DEF Types, Submit, At
<1>2. t \in Readers /\ t # Prefetcher /\ Submitting(t) \in Blocks
  BY <1>1 DEF Placed, AudioPcs, BufferedPcs, Both, Threads, Submitting
<1>3. tasks' = Append(tasks, task) /\ th' = [th EXCEPT ![t] = [th[t] EXCEPT !.pc = "ahead", !.n = th[t].n + 1]]
  BY Zenon DEF Submit
<1>4. th'[t].pc = "ahead"
  BY <1>1, <1>3 DEF Places
<1>5. Submitters' = Submitters \ {t} /\ t \in Submitters
  BY <1>1, <1>2, <1>4 DEF Submitters, At, Threads
<1>6. \A u \in Submitters' : Submitting(u)' = Submitting(u)
  BY <1>5 DEF Submitting, Submitters, Threads
<1>7. th'[Prefetcher] = th[Prefetcher] /\ Prefetching' = Prefetching
  BY <1>2 DEF Prefetching, At, Threads
<1>8. tasks \in Seq(Tasks) /\ task \in Tasks
  BY <1>2 DEF Types, Stores, Tasks
<1>9. /\ Len(tasks) \in Nat /\ Len(tasks') = Len(tasks) + 1
      /\ \A i \in 1..Len(tasks) : tasks'[i] = tasks[i]
      /\ tasks'[Len(tasks) + 1] = task
  BY <1>3, <1>8, AppendProperties, LenProperties
<1>10. task.bi = Submitting(t)
  OBVIOUS
<1> HIDE DEF task
<1>11. /\ queued = {tasks[i].bi : i \in 1..Len(tasks)} \cup {Submitting(u) : u \in Submitters}
                   \cup (IF Prefetching THEN {th[Prefetcher].bi} ELSE {})
       /\ \A i, j \in 1..Len(tasks) : tasks[i].bi = tasks[j].bi => i = j
       /\ \A u, w \in Submitters : Submitting(u) = Submitting(w) => u = w
       /\ \A i \in 1..Len(tasks), u \in Submitters : tasks[i].bi # Submitting(u)
       /\ Prefetching => /\ \A i \in 1..Len(tasks) : tasks[i].bi # th[Prefetcher].bi
                         /\ \A u \in Submitters : Submitting(u) # th[Prefetcher].bi
  BY TaskedFacts
<1>12. {tasks'[i].bi : i \in 1..Len(tasks')} = {tasks[i].bi : i \in 1..Len(tasks)} \cup {Submitting(t)}
  BY <1>9, <1>10
<1>13. {Submitting(u) : u \in Submitters} = {Submitting(u)' : u \in Submitters'} \cup {Submitting(t)}
  BY <1>5, <1>6
<1>14. queued' = {tasks'[i].bi : i \in 1..Len(tasks')} \cup {Submitting(u)' : u \in Submitters'}
                 \cup (IF Prefetching THEN {th[Prefetcher].bi} ELSE {})
  BY <1>1, <1>11, <1>12, <1>13
<1>15. QueuedHasTask'
  BY <1>1, <1>7, <1>14 DEF QueuedHasTask, Submitters, Prefetching
<1>16. \A i, j \in 1..Len(tasks') : tasks'[i].bi = tasks'[j].bi => i = j
  BY <1>5, <1>9, <1>10, <1>11
<1>17. \A u, w \in Submitters' : Submitting(u)' = Submitting(w)' => u = w
  BY <1>5, <1>6, <1>11
<1>18. \A i \in 1..Len(tasks'), u \in Submitters' : tasks'[i].bi # Submitting(u)'
  BY <1>5, <1>6, <1>9, <1>10, <1>11
<1>19. Prefetching => /\ \A i \in 1..Len(tasks') : tasks'[i].bi # th[Prefetcher].bi
                      /\ \A u \in Submitters' : Submitting(u)' # th[Prefetcher].bi
  BY <1>5, <1>6, <1>9, <1>10, <1>11
<1> QED
  BY <1>1, <1>7, <1>15, <1>16, <1>17, <1>18, <1>19 DEF Tasked

\* The prefetch thread takes a task, and unmarks its block in the end.
LEMMA PrefetcherTasked ==
  ASSUME Types, Tasked, TakeTask \/ Unqueue
  PROVE  Tasked'
<1> SUFFICES ASSUME kind = "buffered", ~over
             PROVE  Tasked'
  BY DEF Tasked, TakeTask, Unqueue
<1> DEFINE p == th[Prefetcher].bi
<1>1. /\ th \in [Threads -> Places] /\ Prefetcher \in Threads /\ th[Prefetcher] \in Places
      /\ UNCHANGED <<kind, over>> /\ tasks \in Seq(Tasks)
  BY DEF Types, Stores, Threads, TakeTask, Unqueue
<1>2. \A u \in Readers : th'[u] = th[u]
  BY <1>1 DEF TakeTask, Unqueue, Rest, Threads
<1>3. Submitters' = Submitters /\ \A u \in Submitters : Submitting(u)' = Submitting(u)
  BY <1>2 DEF Submitters, Submitting, At
<1>4. {Submitting(u)' : u \in Submitters'} = {Submitting(u) : u \in Submitters}
  BY <1>3
<1>5. /\ queued = {tasks[i].bi : i \in 1..Len(tasks)} \cup {Submitting(u) : u \in Submitters}
                  \cup (IF Prefetching THEN {p} ELSE {})
      /\ \A i, j \in 1..Len(tasks) : tasks[i].bi = tasks[j].bi => i = j
      /\ \A u, w \in Submitters : Submitting(u) = Submitting(w) => u = w
      /\ \A i \in 1..Len(tasks), u \in Submitters : tasks[i].bi # Submitting(u)
      /\ Prefetching => /\ \A i \in 1..Len(tasks) : tasks[i].bi # p
                        /\ \A u \in Submitters : Submitting(u) # p
  BY TaskedFacts
<1>6. CASE TakeTask
  <2>1. tasks # <<>> /\ tasks' = Tail(tasks) /\ queued' = queued /\ ~Prefetching
    BY <1>6 DEF TakeTask, Prefetching
  <2>2. /\ Len(tasks) \in Nat \ {0} /\ Head(tasks) = tasks[1] /\ Len(tasks') = Len(tasks) - 1
        /\ \A i \in 1..(Len(tasks) - 1) : tasks'[i] = tasks[i + 1]
    BY <1>1, <2>1, HeadTailProperties, LenProperties, EmptySeq
  <2>3. th'[Prefetcher].bi = tasks[1].bi /\ th'[Prefetcher].pc \in {"look", "unqueue"}
    BY <1>1, <1>6, <2>2 DEF TakeTask, Places
  <2>4. Prefetching'
    BY <2>3 DEF Prefetching, At
  <2>5. {tasks[i].bi : i \in 1..Len(tasks)} = {tasks'[i].bi : i \in 1..Len(tasks')} \cup {tasks[1].bi}
    <3>1. \A i \in 1..Len(tasks) : i = 1 \/ (i - 1 \in 1..Len(tasks') /\ tasks'[i - 1] = tasks[i])
      BY <2>2
    <3>2. \A i \in 1..Len(tasks') : i + 1 \in 1..Len(tasks) /\ tasks'[i] = tasks[i + 1]
      BY <2>2
    <3>3. tasks[1].bi \in {tasks[i].bi : i \in 1..Len(tasks)}
      BY <2>2
    <3>4. \A i \in 1..Len(tasks') : tasks'[i].bi \in {tasks[j].bi : j \in 1..Len(tasks)}
      BY <3>2
    <3>5. \A i \in 1..Len(tasks) :
            tasks[i].bi = tasks[1].bi \/ tasks[i].bi \in {tasks'[j].bi : j \in 1..Len(tasks')}
      BY <3>1
    <3> QED
      BY <3>3, <3>4, <3>5
  <2>6. queued' = {tasks'[i].bi : i \in 1..Len(tasks')} \cup {Submitting(u)' : u \in Submitters'}
                  \cup {th'[Prefetcher].bi}
    BY <1>4, <1>5, <2>1, <2>3, <2>5
  <2>7. QueuedHasTask'
    BY <2>4, <2>6 DEF QueuedHasTask, Submitters, Prefetching
  <2>8. \A i, j \in 1..Len(tasks') : tasks'[i].bi = tasks'[j].bi => i = j
    BY <1>5, <2>2
  <2>9. \A u, w \in Submitters' : Submitting(u)' = Submitting(w)' => u = w
    BY <1>3, <1>5
  <2>10. \A i \in 1..Len(tasks'), u \in Submitters' : tasks'[i].bi # Submitting(u)'
    BY <1>3, <1>5, <2>2
  <2>11. \A i \in 1..Len(tasks') : tasks'[i].bi # tasks[1].bi
    BY <1>5, <2>2
  <2>12. \A u \in Submitters' : Submitting(u)' # tasks[1].bi
    BY <1>3, <1>5, <2>2
  <2> QED
    BY <2>3, <2>7, <2>8, <2>9, <2>10, <2>11, <2>12 DEF Tasked
<1>7. CASE Unqueue
  <2>1. tasks' = tasks /\ queued' = queued \ {p} /\ Prefetching /\ ~Prefetching'
    BY <1>1, <1>7 DEF Unqueue, Prefetching, At, Rest, AtRest
  <2>2. queued' = {tasks[i].bi : i \in 1..Len(tasks)} \cup {Submitting(u) : u \in Submitters}
    BY <1>5, <2>1
  <2>3. QueuedHasTask'
    BY <1>4, <2>1, <2>2 DEF QueuedHasTask, Submitters, Prefetching
  <2> QED
    BY <1>3, <1>5, <2>1, <2>3 DEF Tasked
<1> QED
  BY <1>6, <1>7

\* Reading, waiting and downloading leave the queued blocks alone.
LEMMA DownloadTasked ==
  ASSUME Types, Tasked, kind = "buffered", NEW t \in Threads,
         \/ Look(t) \/ \E b \in Blocks : ReadAt(t, b)
         \/ Fetch(t) \/ Put(t) \/ Release(t)
  PROVE  Tasked'
<1>1. th \in [Threads -> Places] /\ \A u \in Threads : th[u] \in Places
  BY DEF Types
<1>2. \A ok \in BOOLEAN : Continue(t, ok).pc \in {"unqueue", "ahead", "idle", "next", "finish", "channel"}
  BY ContinuePcs
<1>3. t = Prefetcher => \A ok \in BOOLEAN : Continue(t, ok).pc = "unqueue" /\ Continue(t, ok).bi = th[t].bi
  BY ContinueBlock
<1> DEFINE Keeps(u, v) == \/ v = th[u]
                          \/ /\ th[u].pc \notin {"idle", "submit"} /\ v.pc \notin {"idle", "submit"}
                             /\ v.bi = th[u].bi
                          \/ u # Prefetcher /\ th[u].pc # "submit" /\ v.pc # "submit"
<1>4. ASSUME NEW ok \in BOOLEAN, th[t].pc \notin {"idle", "submit"}
      PROVE  Keeps(t, Continue(t, ok))
  BY <1>2, <1>3, <1>4
<1>5. ASSUME NEW pc \in {"wait", "fetch", "put", "lost", "got", "look"}, NEW u \in Threads,
             th[u].pc \notin {"idle", "submit"}
      PROVE  Keeps(u, [th[u] EXCEPT !.pc = pc])
  <2>1. [th[u] EXCEPT !.pc = pc].pc = pc /\ [th[u] EXCEPT !.pc = pc].bi = th[u].bi
    BY <1>1 DEF Places
  <2> DEFINE v == [th[u] EXCEPT !.pc = pc]
  <2> HIDE DEF v
  <2>2. v.pc = pc /\ v.bi = th[u].bi
    BY <2>1 DEF v
  <2>3. Keeps(u, v)
    BY <1>5, <2>2
  <2> QED
    BY <2>3 DEF v
<1> HIDE DEF Keeps
<1>6. \A u \in Threads : Keeps(u, th'[u])
  <2>1. \A u \in Threads : Keeps(u, th[u])
    BY DEF Keeps
  <2>2. CASE Look(t)
    <3>1. th[t].pc = "look"
      BY <2>2 DEF Look, At
    <3>2. \/ th' = [th EXCEPT ![t] = Continue(t, FALSE)]
          \/ th' = [th EXCEPT ![t] = Continue(t, TRUE)]
          \/ th' = [th EXCEPT ![t] = [th[t] EXCEPT !.pc = "wait"]]
          \/ th' = [th EXCEPT ![t] = [th[t] EXCEPT !.pc = "fetch"]]
      BY <2>2 DEF Look, Goto
    <3>3. Keeps(t, Continue(t, FALSE)) /\ Keeps(t, Continue(t, TRUE))
      BY <1>4, <3>1
    <3>4. Keeps(t, [th[t] EXCEPT !.pc = "wait"]) /\ Keeps(t, [th[t] EXCEPT !.pc = "fetch"])
      BY <1>5, <3>1
    <3>5. ASSUME NEW v, Keeps(t, v), th' = [th EXCEPT ![t] = v]
          PROVE  \A u \in Threads : Keeps(u, th'[u])
      BY <1>1, <2>1, <3>5
    <3>6. CASE th' = [th EXCEPT ![t] = Continue(t, FALSE)]
      BY <3>3, <3>5, <3>6
    <3>7. CASE th' = [th EXCEPT ![t] = Continue(t, TRUE)]
      BY <3>3, <3>5, <3>7
    <3>8. CASE th' = [th EXCEPT ![t] = [th[t] EXCEPT !.pc = "wait"]]
      BY <3>4, <3>5, <3>8, Zenon
    <3>9. CASE th' = [th EXCEPT ![t] = [th[t] EXCEPT !.pc = "fetch"]]
      BY <3>4, <3>5, <3>9, Zenon
    <3> QED
      BY <3>2, <3>6, <3>7, <3>8, <3>9
  <2>3. CASE \E b \in Blocks : ReadAt(t, b)
    <3>1. PICK b \in Blocks : ReadAt(t, b)
      BY <2>3
    <3>2. th' = [th EXCEPT ![t].pc = "look", ![t].bi = b] /\ th[t].pc = "idle" /\ t # Prefetcher
      BY <3>1 DEF ReadAt, At
    <3>3. /\ t # Prefetcher /\ th[t].pc = "idle" /\ th'[t].pc = "look"
          /\ \A u \in Threads : u # t => th'[u] = th[u]
      BY <1>1, <3>2 DEF Places
    <3> QED
      BY <2>1, <3>3 DEF Keeps
  <2>4. CASE Fetch(t)
    <3>1. th[t].pc = "fetch" /\ th'[t].pc \in {"put", "lost"} /\ th'[t].bi = th[t].bi
      BY <1>1, <2>4 DEF Fetch, Goto, At, Places
    <3>2. \A u \in Threads : u # t => th'[u] = th[u]
      BY <1>1, <2>4 DEF Fetch, Goto
    <3> QED
      BY <2>1, <3>1, <3>2 DEF Keeps
  <2>5. CASE Put(t)
    <3>1. th[t].pc = "put" /\ th'[t].pc = "got" /\ th'[t].bi = th[t].bi
      BY <1>1, <2>5 DEF Put, Goto, At, Places
    <3>2. \A u \in Threads : u # t => th'[u] = th[u]
      BY <1>1, <2>5 DEF Put, Goto
    <3> QED
      BY <2>1, <3>1, <3>2 DEF Keeps
  <2>6. CASE Release(t)
    <3>1. th'[t] = Continue(t, At(t, "got")) /\ th[t].pc \in {"got", "lost"}
      BY <2>6 DEF Release
    <3>2. Keeps(t, th'[t])
      BY <1>4, <3>1 DEF At
    <3>3. \A u \in Threads \ {t} : th'[u] = th[u] \/ (At(u, "wait") /\ th'[u] = [th[u] EXCEPT !.pc = "look"])
      BY <2>6 DEF Release
    <3>4. \A u \in Threads : At(u, "wait") => Keeps(u, [th[u] EXCEPT !.pc = "look"])
      BY <1>5 DEF At
    <3>5. \A u \in Threads \ {t} : Keeps(u, th'[u])
      BY <2>1, <3>3, <3>4
    <3> QED
      BY <3>2, <3>5
  <2> QED
    BY <2>2, <2>3, <2>4, <2>5, <2>6
<1>7. /\ UNCHANGED <<kind, over, queued>>
      /\ Len(tasks') = Len(tasks) /\ \A i \in 1..Len(tasks) : tasks'[i].bi = tasks[i].bi
  <2>1. CASE Look(t) \/ Fetch(t) \/ Put(t) \/ Release(t)
    BY <2>1 DEF Look, Fetch, Put, Release, bufferedVars
  <2>2. CASE \E b \in Blocks : ReadAt(t, b)
    <3>1. tasks \in Seq(Tasks)
      BY DEF Types, Stores
    <3>2. \A i \in 1..Len(tasks) : [tasks[i] EXCEPT !.fresh = FALSE].bi = tasks[i].bi
      BY <3>1 DEF Tasks
    <3>3. CASE tasks' = tasks
      BY <2>2, <3>3 DEF ReadAt
    <3>4. CASE tasks' = [i \in 1..Len(tasks) |-> [tasks[i] EXCEPT !.fresh = FALSE]]
      <4>1. Len(tasks) \in Nat
        BY <3>1
      <4>2. Len(tasks') = Len(tasks)
        BY <3>4, <4>1
      <4> QED
        BY <2>2, <3>2, <3>4, <4>2 DEF ReadAt
    <3> QED
      BY <2>2, <3>3, <3>4 DEF ReadAt
  <2> QED
    BY <2>1, <2>2
<1>8. \A u \in Readers : th'[u] = th[u] \/ (~At(u, "submit") /\ ~At(u, "submit")')
  BY <1>6 DEF Keeps, At, Threads
<1>9. \/ th'[Prefetcher] = th[Prefetcher]
      \/ /\ ~At(Prefetcher, "idle") /\ ~At(Prefetcher, "idle")'
         /\ th'[Prefetcher].bi = th[Prefetcher].bi
  BY <1>6 DEF Keeps, At, Threads
<1> QED
  BY <1>7, <1>8, <1>9, TaskedSame

\* Tasked is preserved by every step.
LEMMA TaskedStep ==
  ASSUME Types, Connected, Tasked, [Next]_vars
  PROVE  Tasked'
<1>1. CASE kind # "buffered"
  <2>1. kind' = kind
    BY DEF Next, Step, vars, Look, Recheck, Release, Fetch, Put, PrefetchAhead, Submit, Attempt, EnsureOpen,
           Connect, Adopt, Download, WriteBlock, DropUpstream, TakeChannel, ReadDisk, TakeTask, Unqueue,
           NextBlock, FinishAll, ReadAt, Close, DownloadAll, Dispose
  <2> QED
    BY <1>1, <2>1 DEF Tasked
<1>2. ASSUME NEW t \in Threads, OneMoves(t), kind = "buffered"
      PROVE  Tasked'
  <2>1. \A u \in Threads : u # t => th'[u] = th[u]
    BY <1>2, OneMovesTypes, MovesTypes
  <2>2. \/ Look(t) \/ \E b \in Blocks : ReadAt(t, b)
        \/ Fetch(t) \/ Put(t) \/ PrefetchAhead(t) \/ Submit(t)
        \/ t = Prefetcher /\ (TakeTask \/ Unqueue)
    BY <1>2, BufferedMoves
  <2> QED
    BY <1>2, <2>1, <2>2, AheadTasked, SubmitTasked, PrefetcherTasked, DownloadTasked
<1>3. ASSUME NEW t \in Threads, Release(t), kind = "buffered"
      PROVE  Tasked'
  BY <1>3, DownloadTasked
<1>4. CASE Close
  BY <1>4 DEF Close, Tasked
<1>5. CASE Dispose
  BY <1>1, <1>5 DEF fileVars, Dispose
<1>6. CASE UNCHANGED vars
  BY <1>6 DEF vars, bufferedVars, Tasked, QueuedHasTask, Submitters, Submitting, Prefetching, At
<1> QED
  BY <1>1, <1>2, <1>3, <1>4, <1>5, <1>6, NextCases

------------------------------------------------------------------------------
(* The theorems.                                                           *)

\* The inductive invariant, which every part needs Types for, and Types what
\* Connected says of the connections a thread can open.
THEOREM Invariant == Spec => []IInv
<1>1. IInv /\ [Next]_vars => IInv'
  BY TypesStep, ConnectedStep, DownloadsStep, WrittenStep, TaskedStep DEF IInv
<1> QED
  BY InitInvariant, <1>1, PTL DEF Spec

\* No block is downloaded twice, and nobody waits for a download that has
\* ended: in every behaviour, for any number of threads and blocks.
THEOREM OneDownload == Spec => []DownloadedOnce
<1>1. IInv => DownloadedOnce
  BY TypesTypeOK DEF IInv, Downloads, DownloadedOnce
<1> QED
  BY Invariant, <1>1, PTL

\* No connection is lost, though threads open them outside the lock: in
\* every behaviour, for any number of threads and blocks.
THEOREM ConnectionsKept == Spec => []NoLeakedConnection
<1>1. IInv => NoLeakedConnection
  BY DEF IInv, Connected
<1> QED
  BY Invariant, <1>1, PTL

\* Until the entry is disposed, a block the bitmap marks is whole in the
\* file, unless the write of that very block came back short: for any number
\* of threads and blocks, however downloads fail and connections break.
THEOREM BitmapTrue == Spec => []BitmapIsTrue
<1>1. IInv => BitmapIsTrue
  BY DEF IInv, Written, BitmapIsTrue, Threads
<1> QED
  BY Invariant, <1>1, PTL

\* A block that is marked as queued has a task that will unmark it: in every
\* behaviour, for any number of readers and blocks, however far they prefetch.
THEOREM QueuedTask == Spec => []QueuedHasTask
<1>1. IInv => QueuedHasTask
  BY DEF IInv, Tasked, QueuedHasTask
<1> QED
  BY Invariant, <1>1, PTL
=============================================================================
