---------------------------- MODULE Queues_proofs ----------------------------
(***************************************************************************)
(* Proofs about the two components whose correctness is that of queues:    *)
(* the copy pipeline, for every pool depth and every source length, and    *)
(* the RPC transport of libnfs, for every number of calls, every limit on  *)
(* the calls in flight and every mode.                                     *)
(***************************************************************************)
EXTENDS CopyPipe, RpcClient,
        WellFoundedInduction, FiniteSetTheorems, SequenceTheorems, TLAPS

-----------------------------------------------------------------------------
(* The copy pipeline.  Its properties are not inductive by themselves.     *)
(* Handshake says which thread owns a buffer at each of its program        *)
(* points, and where an end marker can be; Stream counts the chunks on     *)
(* their way from the source to the destination, so that the next chunk    *)
(* written is the next in order.                                           *)

ReaderHolds == readerPc = "offer" /\ ~readerEnd

\* Chunks that have left the queue: written, or about to be.
Drained == Len(out) + (IF writerPc = "write" THEN 1 ELSE 0)

Handshake ==
  /\ readerPc \in {"read", "offer"} => readerBuf \in Buffers
  /\ readerPc = "take" => readerBuf = NoBuffer
  /\ writerPc \in {"write", "recycle"} => writerBuf \in Buffers
  /\ writerPc \in {"check", "poll"} => writerBuf = NoBuffer
  /\ writerPc # "done" <=> result = "none"
  /\ writerPc # "done" => ~interrupted
  /\ \A i \in 1..Len(filled) :
       filled[i].end => i = Len(filled) /\ readerPc = "done"
  /\ writerPc # "done" /\ readerPc = "done" =>
       Len(filled) > 0 /\ filled[Len(filled)].end

Stream ==
  /\ reported = Len(out) - (IF writerPc = "recycle" THEN 1 ELSE 0)
  /\ writerPc = "write" => held[writerBuf] = Len(out) + 1
  /\ writerPc # "done" =>
       /\ \A i \in 1..Len(filled) :
            ~filled[i].end => held[filled[i].buf] = Drained + i
       /\ ReaderHolds => held[readerBuf] = position
       /\ position = Drained + Len(filled)
                     + (IF readerPc = "done" THEN -1 ELSE 0)
                     + (IF ReaderHolds THEN 1 ELSE 0)

PipeInv == PipeTypeOK /\ NoSharedBuffer /\ Handshake /\ Stream /\ OutInOrder /\ SuccessIsWhole

Entry == [buf : Buffers, end : BOOLEAN]

-----------------------------------------------------------------------------
(* Type correctness *)

LEMMA FlagsInit == PipeInit => FlagsOK
  BY DEF PipeInit, FlagsOK

LEMMA FlagsStep == FlagsOK /\ [PipeNext]_pipeVars => FlagsOK'
  BY Zenon DEF FlagsOK, PipeNext, Reader, Writer, Take, Read, Offer, CheckCancelled,
     Poll, Outcome, Write, Recycle, Cancel, Ended, LeavePipe, pipeVars, readerVars, writerVars

LEMMA TypeInit == PipeInit => PipeTypeOK
<1> SUFFICES ASSUME PipeInit PROVE PipeTypeOK
  OBVIOUS
<1>1. FlagsOK
  BY FlagsInit
<1> QED BY <1>1, PipeAssumption DEF PipeAssumption, PipeInit, PipeTypeOK, Buffers, NoBuffer

LEMMA TypeStep == PipeTypeOK /\ Handshake /\ [PipeNext]_pipeVars => PipeTypeOK'
<1> SUFFICES ASSUME PipeTypeOK, Handshake, [PipeNext]_pipeVars PROVE PipeTypeOK'
  OBVIOUS
<1>0. FlagsOK'
  BY FlagsStep DEF PipeTypeOK
<1>a. /\ PipeDepth \in Nat \ {0} /\ Chunks \in Nat
      /\ position \in 0..Chunks /\ held \in [Buffers -> 0..Chunks]
      /\ out \in Seq(0..Chunks)
  BY PipeAssumption DEF PipeAssumption, PipeTypeOK
<1>1. CASE Take
  BY <1>0, <1>1 DEF Take, writerVars, PipeTypeOK, Buffers, NoBuffer
<1>2. CASE Read
  <2>1. readerBuf \in Buffers
    BY <1>2, Zenon DEF Read, Handshake
  <2>2. \/ /\ position < Chunks
           /\ position' = position + 1
           /\ held' = [held EXCEPT ![readerBuf] = position + 1]
        \/ position' = position /\ held' = held
    BY <1>2, Zenon DEF Read
  <2>3. position' \in 0..Chunks /\ held' \in [Buffers -> 0..Chunks]
    BY <1>a, <2>1, <2>2
  <2> QED BY <1>0, <1>2, <2>3 DEF Read, writerVars, PipeTypeOK
<1>3. CASE Offer
  <2>1. CASE interrupted
    BY <1>0, <1>3, <2>1 DEF Offer, writerVars, PipeTypeOK
  <2>2. CASE ~interrupted
    <3>0. readerEnd \in BOOLEAN
      BY DEF PipeTypeOK, FlagsOK
    <3> DEFINE e == [buf |-> readerBuf, end |-> readerEnd]
    <3>1. e \in [buf : Buffers, end : BOOLEAN]
      BY <1>3, <3>0 DEF Offer, Handshake
    <3>2. filled' = Append(filled, e)
      BY <1>3, <2>2, Zenon DEF Offer
    <3>3. filled' \in Seq([buf : Buffers, end : BOOLEAN])
      <4> HIDE DEF e
      <4> QED BY <3>1, <3>2 DEF PipeTypeOK
    <3> QED BY <1>0, <1>3, <2>2, <3>3 DEF Offer, writerVars, PipeTypeOK, NoBuffer
  <2> QED BY <2>1, <2>2
<1>4. CASE CheckCancelled
  BY <1>0, <1>4 DEF CheckCancelled, LeavePipe, readerVars, PipeTypeOK
<1>5. CASE Poll
  <2>1. filled' \in Seq([buf : Buffers, end : BOOLEAN])
    <3>1. filled' = filled \/ (filled # <<>> /\ filled' = Tail(filled))
      BY <1>5 DEF Poll, Outcome
    <3>2. filled # <<>> => Tail(filled) \in Seq([buf : Buffers, end : BOOLEAN])
      BY HeadTailProperties, LenProperties, EmptySeq DEF PipeTypeOK
    <3> QED BY <3>1, <3>2 DEF PipeTypeOK
  <2>2. writerBuf' \in Buffers \cup {NoBuffer}
    <3>1. CASE filled = <<>>
      BY <1>5, <3>1 DEF Poll, Outcome, PipeTypeOK
    <3>2. CASE filled # <<>>
      <4>1. Head(filled) \in [buf : Buffers, end : BOOLEAN]
        BY <3>2, HeadTailProperties, LenProperties, EmptySeq DEF PipeTypeOK
      <4> QED BY <1>5, <3>2, <4>1 DEF Poll, Outcome
    <3> QED BY <3>1, <3>2
  <2> QED BY <1>0, <1>5, <2>1, <2>2 DEF Poll, Outcome, LeavePipe, readerVars, PipeTypeOK
<1>6. CASE Write
  <2>1. out' \in Seq(0..Chunks)
    <3>1. held[writerBuf] \in 0..Chunks
      BY <1>a, <1>6 DEF Write, Handshake
    <3>2. out' = out \/ out' = Append(out, held[writerBuf])
      BY <1>6, Zenon DEF Write
    <3> QED BY <1>a, <3>1, <3>2
  <2> QED BY <1>0, <1>6, <2>1 DEF Write, LeavePipe, readerVars, PipeTypeOK
<1>7. CASE Recycle
  BY <1>0, <1>7 DEF Recycle, readerVars, Handshake, PipeTypeOK, NoBuffer
<1>8. CASE Cancel
  BY <1>0, <1>8 DEF Cancel, readerVars, writerVars, PipeTypeOK
<1>9. CASE Ended \/ UNCHANGED pipeVars
  BY <1>0, <1>9 DEF Ended, pipeVars, readerVars, writerVars, PipeTypeOK
<1> QED BY <1>1, <1>2, <1>3, <1>4, <1>5, <1>6, <1>7, <1>8, <1>9 DEF PipeNext, Reader, Writer

-----------------------------------------------------------------------------
(* Who holds a buffer *)

LEMMA SharedStep == PipeTypeOK /\ Handshake /\ NoSharedBuffer /\ [PipeNext]_pipeVars => NoSharedBuffer'
<1> SUFFICES ASSUME PipeTypeOK, Handshake, NoSharedBuffer, [PipeNext]_pipeVars PROVE NoSharedBuffer'
  OBVIOUS
<1>a. /\ filled \in Seq(Entry)
      /\ readerBuf \in Buffers \cup {NoBuffer} /\ writerBuf \in Buffers \cup {NoBuffer}
      /\ pool \subseteq Buffers
  BY DEF PipeTypeOK, Entry
<1>b. NoBuffer \notin Buffers
  BY PipeAssumption DEF PipeAssumption, Buffers, NoBuffer
<1>c. \A i \in 1..Len(filled) : filled[i].buf \in Buffers
  <2> SUFFICES ASSUME NEW i \in 1..Len(filled) PROVE filled[i].buf \in Buffers
    OBVIOUS
  <2>1. filled[i] \in Entry
    BY <1>a, ElementOfSeq
  <2> QED BY <2>1 DEF Entry
<1>1. CASE Take
  <2>1. \/ readerBuf' = readerBuf /\ pool' = pool
        \/ \E b \in pool : readerBuf' = b /\ pool' = pool \ {b}
    BY <1>1 DEF Take
  <2>2. filled' = filled /\ writerBuf' = writerBuf
    BY <1>1 DEF Take, writerVars
  <2> QED BY <1>a, <1>b, <1>c, <2>1, <2>2 DEF NoSharedBuffer
<1>2. CASE Read
  BY <1>2 DEF Read, writerVars, NoSharedBuffer
<1>3. CASE Offer
  <2>1. CASE filled' = filled /\ readerBuf' = readerBuf
    BY <1>3, <2>1 DEF Offer, writerVars, NoSharedBuffer
  <2>2. CASE /\ filled' = Append(filled, [buf |-> readerBuf, end |-> readerEnd])
             /\ readerBuf' = NoBuffer
    <3>1. readerBuf \in Buffers /\ pool' = pool /\ writerBuf' = writerBuf
      BY <1>3 DEF Offer, Handshake, writerVars
    <3> DEFINE e == [buf |-> readerBuf, end |-> readerEnd]
    <3>2. readerEnd \in BOOLEAN
      BY DEF PipeTypeOK, FlagsOK
    <3>3. e \in Entry /\ e.buf = readerBuf
      BY <3>1, <3>2 DEF Entry
    <3>4. filled' = Append(filled, e)
      BY <2>2
    <3> HIDE DEF e
    <3>5. /\ Len(filled) \in Nat /\ Len(filled') = Len(filled) + 1
          /\ \A i \in 1..Len(filled) : filled'[i] = filled[i]
          /\ filled'[Len(filled) + 1] = e
      BY <1>a, <3>3, <3>4, AppendProperties, LenProperties
    <3> DEFINE n == Len(filled)
    <3>6. filled'[n + 1].buf = readerBuf
      BY <3>3, <3>5
    <3>7. \A i \in 1..Len(filled') : i \in 1..n \/ i = n + 1
      BY <3>5
    <3>8. \A i \in 1..n : filled'[i].buf = filled[i].buf
      BY <3>5
    <3>9. \A i \in 1..n : filled[i].buf \notin pool \cup {readerBuf, writerBuf}
      BY DEF NoSharedBuffer
    <3>10. \A i, j \in 1..Len(filled') : i # j => filled'[i].buf # filled'[j].buf
      BY <3>6, <3>7, <3>8, <3>9 DEF NoSharedBuffer
    <3>11. \A i \in 1..Len(filled') :
              filled'[i].buf \notin pool' \cup {readerBuf', writerBuf'}
      BY <1>b, <1>c, <2>2, <3>1, <3>6, <3>7, <3>8, <3>9 DEF NoSharedBuffer
    <3> QED BY <1>a, <1>b, <2>2, <3>1, <3>10, <3>11 DEF NoSharedBuffer
  <2> QED BY <1>3, <2>1, <2>2 DEF Offer
<1>4. CASE CheckCancelled
  BY <1>4 DEF CheckCancelled, readerVars, NoSharedBuffer
<1>5. CASE Poll
  <2>1. pool' = pool /\ readerBuf' = readerBuf
    BY <1>5 DEF Poll, Outcome, readerVars
  <2>2. CASE filled = <<>>
    BY <1>5, <2>1, <2>2 DEF Poll, Outcome, NoSharedBuffer
  <2>3. CASE filled # <<>>
    <3>1. /\ Len(filled) \in Nat \ {0}
          /\ writerBuf' = filled[1].buf
          /\ Len(filled') = Len(filled) - 1
          /\ \A i \in 1..Len(filled') : filled'[i] = filled[i + 1]
      <4>1. filled' = Tail(filled) /\ writerBuf' = Head(filled).buf
        BY <1>5, <2>3 DEF Poll, Outcome
      <4> QED BY <1>a, <2>3, <4>1, HeadTailProperties, LenProperties, EmptySeq
    <3>2. \A i, j \in 1..Len(filled') : i # j => filled'[i].buf # filled'[j].buf
      <4> SUFFICES ASSUME NEW i \in 1..Len(filled'), NEW j \in 1..Len(filled'), i # j
                   PROVE  filled'[i].buf # filled'[j].buf
        OBVIOUS
      <4>1. i + 1 \in 1..Len(filled) /\ j + 1 \in 1..Len(filled) /\ i + 1 # j + 1
        BY <3>1
      <4> QED BY <3>1, <4>1 DEF NoSharedBuffer
    <3>3. \A i \in 1..Len(filled') :
             filled'[i].buf \notin pool' \cup {readerBuf', writerBuf'}
      <4> SUFFICES ASSUME NEW i \in 1..Len(filled')
                   PROVE  filled'[i].buf \notin pool' \cup {readerBuf', writerBuf'}
        OBVIOUS
      <4>1. i + 1 \in 1..Len(filled) /\ 1 \in 1..Len(filled) /\ i + 1 # 1
        BY <3>1
      <4> QED BY <2>1, <3>1, <4>1 DEF NoSharedBuffer
    <3>4. 1 \in 1..Len(filled)
      BY <3>1
    <3> QED BY <2>1, <3>1, <3>2, <3>3, <3>4 DEF NoSharedBuffer
  <2> QED BY <2>2, <2>3
<1>6. CASE Write
  BY <1>6 DEF Write, readerVars, NoSharedBuffer
<1>7. CASE Recycle
  <2>1. /\ writerBuf \in Buffers /\ pool' = pool \cup {writerBuf} /\ writerBuf' = NoBuffer
        /\ filled' = filled /\ readerBuf' = readerBuf
    BY <1>7 DEF Recycle, readerVars, Handshake
  <2> QED BY <1>a, <1>b, <1>c, <2>1 DEF NoSharedBuffer
<1>8. CASE Cancel
  BY <1>8 DEF Cancel, readerVars, writerVars, NoSharedBuffer
<1>9. CASE Ended \/ UNCHANGED pipeVars
  BY <1>9 DEF Ended, pipeVars, readerVars, writerVars, NoSharedBuffer
<1> QED BY <1>1, <1>2, <1>3, <1>4, <1>5, <1>6, <1>7, <1>8, <1>9 DEF PipeNext, Reader, Writer

-----------------------------------------------------------------------------
(* Program points, buffers and end markers *)

LEMMA HandshakeStep == PipeTypeOK /\ Handshake /\ [PipeNext]_pipeVars => Handshake'
<1> SUFFICES ASSUME PipeTypeOK, Handshake, [PipeNext]_pipeVars PROVE Handshake'
  OBVIOUS
<1>a. filled \in Seq(Entry) /\ pool \subseteq Buffers /\ Len(filled) \in Nat
  BY LenProperties DEF PipeTypeOK, Entry
<1>1. CASE Take
  BY <1>a, <1>1 DEF Take, writerVars, Handshake
<1>2. CASE Read
  <2>1. readerPc = "read" /\ readerPc' = "offer" /\ readerBuf' = readerBuf
    BY <1>2 DEF Read
  <2>2. UNCHANGED <<filled, writerPc, writerBuf, result>>
    BY <1>2 DEF Read, writerVars
  <2>3. ~interrupted => ~interrupted'
    BY <1>2, Zenon DEF Read
  <2> QED BY <2>1, <2>2, <2>3 DEF Handshake
<1>3. CASE Offer
  <2>1. CASE interrupted
    BY <1>3, <2>1 DEF Offer, writerVars, Handshake
  <2>2. CASE ~interrupted
    <3> DEFINE e == [buf |-> readerBuf, end |-> readerEnd]
               n == Len(filled)
    <3>1. readerEnd \in BOOLEAN /\ readerBuf \in Buffers
      BY <1>3 DEF PipeTypeOK, FlagsOK, Offer, Handshake
    <3>2. e \in Entry /\ e.end = readerEnd
      BY <3>1 DEF Entry
    <3>3. filled' = Append(filled, e) /\ readerBuf' = NoBuffer
      BY <1>3, <2>2 DEF Offer
    <3>4. readerPc' = IF readerEnd THEN "done" ELSE "take"
      BY <1>3, <2>2 DEF Offer
    <3> HIDE DEF e
    <3>5. /\ Len(filled') = n + 1 /\ filled'[n + 1] = e
          /\ \A i \in 1..n : filled'[i] = filled[i]
      BY <1>a, <3>2, <3>3, AppendProperties, LenProperties
    <3>6. \A i \in 1..n : ~filled[i].end
      BY <1>3 DEF Offer, Handshake
    <3>7. \A i \in 1..Len(filled') : i \in 1..n \/ i = n + 1
      BY <1>a, <3>5
    <3>8. \A i \in 1..Len(filled') : filled'[i].end => i = n + 1 /\ readerEnd
      BY <3>2, <3>5, <3>6, <3>7
    <3>9. Len(filled') > 0
      BY <1>a, <3>5
    <3>10. readerPc' = "done" => readerEnd
      BY <3>4
    <3>11. readerEnd => readerPc' = "done" /\ filled'[Len(filled')].end
      BY <3>2, <3>4, <3>5
    <3>12. readerPc' = "done" \/ readerPc' = "take"
      BY <3>4
    <3>13. UNCHANGED <<writerPc, writerBuf, result, interrupted>>
      BY <1>3 DEF Offer, writerVars
    <3> QED BY <3>3, <3>5, <3>8, <3>9, <3>10, <3>11, <3>12, <3>13 DEF Handshake
  <2> QED BY <2>1, <2>2
<1>4. CASE CheckCancelled
  BY <1>4 DEF CheckCancelled, LeavePipe, readerVars, Handshake
<1>5. CASE Poll
  <2>1. UNCHANGED <<readerPc, readerBuf>>
    BY <1>5 DEF Poll, Outcome, readerVars
  <2>2. CASE filled = <<>>
    BY <1>5, <2>1, <2>2 DEF Poll, Outcome, Handshake
  <2>3. CASE filled # <<>>
    <3>1. /\ Len(filled) \in Nat \ {0} /\ filled[1] = Head(filled)
          /\ Head(filled) \in Entry
          /\ Len(filled') = Len(filled) - 1
          /\ \A i \in 1..Len(filled') : filled'[i] = filled[i + 1]
      BY <1>a, <1>5, <2>3, HeadTailProperties, LenProperties, EmptySeq DEF Poll, Outcome
    <3>2. \A i \in 1..Len(filled') : filled'[i].end => i = Len(filled') /\ readerPc = "done"
      <4> SUFFICES ASSUME NEW i \in 1..Len(filled'), filled'[i].end
                   PROVE  i = Len(filled') /\ readerPc = "done"
        OBVIOUS
      <4>1. i + 1 \in 1..Len(filled) /\ filled'[i] = filled[i + 1]
        BY <3>1
      <4>2. i + 1 = Len(filled) /\ readerPc = "done"
        BY <4>1 DEF Handshake
      <4> QED BY <3>1, <4>2
    <3>3. CASE Head(filled).end
      <4>1. writerPc' = "done" /\ result' \in {"failed", "done"}
        BY <1>5, <2>3, <3>3 DEF Poll, Outcome, LeavePipe
      <4> QED BY <2>1, <3>2, <4>1 DEF Handshake
    <3>4. CASE ~Head(filled).end
      <4>1. writerPc' = "write" /\ UNCHANGED <<interrupted, result>>
        BY <1>5, <2>3, <3>4 DEF Poll, Outcome
      <4>2. writerBuf' = Head(filled).buf
        BY <1>5, <2>3 DEF Poll, Outcome
      <4>3. writerBuf' \in Buffers
        BY <3>1, <4>2 DEF Entry
      <4>4. readerPc = "done" => Len(filled') > 0 /\ filled'[Len(filled')].end
        <5> SUFFICES ASSUME readerPc = "done"
                     PROVE  Len(filled') > 0 /\ filled'[Len(filled')].end
          OBVIOUS
        <5>1. filled[Len(filled)].end
          BY <1>5 DEF Poll, Outcome, Handshake
        <5>2. Len(filled) # 1
          BY <3>1, <3>4, <5>1
        <5>3. Len(filled') > 0 /\ Len(filled') \in 1..Len(filled') /\ Len(filled') + 1 = Len(filled)
          BY <3>1, <5>2
        <5>4. filled'[Len(filled')] = filled[Len(filled)]
          BY <3>1, <5>3
        <5> QED BY <5>1, <5>3, <5>4
      <4>5. result = "none" /\ ~interrupted
        BY <1>5 DEF Poll, Outcome, Handshake
      <4> QED BY <2>1, <3>2, <4>1, <4>3, <4>4, <4>5 DEF Handshake
    <3> QED BY <3>3, <3>4
  <2> QED BY <2>2, <2>3
<1>6. CASE Write
  BY <1>6 DEF Write, LeavePipe, readerVars, Handshake
<1>7. CASE Recycle
  BY <1>7 DEF Recycle, readerVars, Handshake
<1>8. CASE Cancel
  BY <1>8 DEF Cancel, readerVars, writerVars, Handshake
<1>9. CASE Ended \/ UNCHANGED pipeVars
  BY <1>9 DEF Ended, pipeVars, readerVars, writerVars, Handshake
<1> QED BY <1>1, <1>2, <1>3, <1>4, <1>5, <1>6, <1>7, <1>8, <1>9 DEF PipeNext, Reader, Writer

-----------------------------------------------------------------------------
(* The chunks on their way *)

LEMMA StreamStep ==
  PipeTypeOK /\ Handshake /\ NoSharedBuffer /\ Stream /\ [PipeNext]_pipeVars => Stream'
<1> SUFFICES ASSUME PipeTypeOK, Handshake, NoSharedBuffer, Stream, [PipeNext]_pipeVars PROVE Stream'
  OBVIOUS
<1>a. /\ filled \in Seq(Entry) /\ Len(filled) \in Nat
      /\ out \in Seq(0..Chunks) /\ Len(out) \in Nat
      /\ position \in Nat /\ reported \in Nat
  <2>1. filled \in Seq(Entry) /\ out \in Seq(0..Chunks)
    BY DEF PipeTypeOK, Entry
  <2>2. position \in Nat /\ reported \in Nat
    BY PipeAssumption DEF PipeTypeOK, PipeAssumption
  <2> QED BY <2>1, <2>2, LenProperties
<1>b. held \in [Buffers -> 0..Chunks] /\ pool \subseteq Buffers
  BY DEF PipeTypeOK
<1>c. \A i \in 1..Len(filled) : filled[i].buf \in Buffers
  <2> SUFFICES ASSUME NEW i \in 1..Len(filled) PROVE filled[i].buf \in Buffers
    OBVIOUS
  <2>1. filled[i] \in Entry
    BY <1>a, ElementOfSeq
  <2> QED BY <2>1 DEF Entry
<1>1. CASE Take
  BY <1>a, <1>1 DEF Take, writerVars, Stream, Handshake, Drained, ReaderHolds
<1>2. CASE Read
  <2>1. /\ readerPc = "read" /\ readerPc' = "offer" /\ readerBuf' = readerBuf
        /\ readerBuf \in Buffers
    BY <1>2 DEF Read, Handshake
  <2>2. UNCHANGED <<filled, writerPc, writerBuf, out, reported>>
    BY <1>2 DEF Read, writerVars
  <2>3. \/ /\ position' = position + 1 /\ readerEnd' = FALSE
           /\ held' = [held EXCEPT ![readerBuf] = position + 1]
        \/ position' = position /\ held' = held /\ readerEnd' = TRUE
    BY <1>2, Zenon DEF Read
  <2>4. \A b \in Buffers : b # readerBuf => held'[b] = held[b]
    BY <1>b, <2>1, <2>3
  <2>5. readerEnd' = FALSE => held'[readerBuf] = position + 1 /\ position' = position + 1
    BY <1>b, <2>1, <2>3
  <2>6. writerPc = "write" => held'[writerBuf] = held[writerBuf]
    <3> SUFFICES ASSUME writerPc = "write" PROVE held'[writerBuf] = held[writerBuf]
      OBVIOUS
    <3>1. writerBuf \in Buffers
      BY DEF Handshake
    <3>2. NoBuffer \notin Buffers
      BY PipeAssumption DEF PipeAssumption, Buffers, NoBuffer
    <3>3. writerBuf # readerBuf
      BY <2>1, <3>1, <3>2 DEF NoSharedBuffer
    <3> QED BY <2>4, <3>1, <3>3
  <2>7. \A i \in 1..Len(filled) : held'[filled[i].buf] = held[filled[i].buf]
    BY <1>c, <2>4 DEF NoSharedBuffer
  <2>8. readerEnd' = TRUE => position' = position
    BY <2>3
  <2>9. CASE readerEnd' = FALSE
    <3>1. ReaderHolds' /\ ~ReaderHolds
      BY <2>1, <2>9 DEF ReaderHolds
    <3>2. Drained' = Drained /\ Drained \in Nat
      BY <1>a, <2>2 DEF Drained
    <3>3. writerPc # "done" => position' = Drained + Len(filled) + 1
      BY <1>a, <2>1, <2>5, <2>9, <3>1, <3>2 DEF Stream
    <3>4. held'[readerBuf'] = position'
      BY <2>1, <2>5, <2>9
    <3> QED BY <1>a, <2>1, <2>2, <2>6, <2>7, <3>1, <3>2, <3>3, <3>4 DEF Stream
  <2>10. CASE readerEnd' = TRUE
    BY <1>a, <2>1, <2>2, <2>6, <2>7, <2>8, <2>10 DEF Stream, Drained, ReaderHolds
  <2> QED BY <2>3, <2>9, <2>10
<1>3. CASE Offer
  <2>1. CASE interrupted
    <3>1. writerPc = "done"
      BY <2>1 DEF Handshake
    <3> QED BY <1>3, <3>1 DEF Offer, writerVars, Stream
  <2>2. CASE ~interrupted
    <3> DEFINE e == [buf |-> readerBuf, end |-> readerEnd]
               n == Len(filled)
    <3>1. readerEnd \in BOOLEAN /\ readerBuf \in Buffers /\ readerPc = "offer"
      BY <1>3 DEF PipeTypeOK, FlagsOK, Offer, Handshake
    <3>2. e \in Entry /\ e.end = readerEnd /\ e.buf = readerBuf
      BY <3>1 DEF Entry
    <3>3. filled' = Append(filled, e)
      BY <1>3, <2>2 DEF Offer
    <3>4. readerPc' = IF readerEnd THEN "done" ELSE "take"
      BY <1>3, <2>2 DEF Offer
    <3> HIDE DEF e
    <3>5. /\ Len(filled') = n + 1 /\ filled'[n + 1] = e
          /\ \A i \in 1..n : filled'[i] = filled[i]
      BY <1>a, <3>2, <3>3, AppendProperties, LenProperties
    <3>6. \A i \in 1..Len(filled') : i \in 1..n \/ i = n + 1
      BY <1>a, <3>5
    <3>7. UNCHANGED <<writerPc, writerBuf, out, reported, position, held, readerEnd>>
      BY <1>3 DEF Offer, writerVars
    <3>8. CASE writerPc = "done"
      BY <3>7, <3>8 DEF Stream
    <3>9. CASE writerPc # "done"
      <4>1. readerPc # "done" /\ (ReaderHolds <=> ~readerEnd)
        BY <3>1 DEF ReaderHolds
      <4>2. position = Drained + n + (IF readerEnd THEN 0 ELSE 1)
        <5>1. CASE readerEnd
          <6>1. ~ReaderHolds
            BY <4>1, <5>1
          <6>2. Drained \in Nat
            BY <1>a DEF Drained
          <6> QED BY <1>a, <3>9, <4>1, <5>1, <6>1, <6>2 DEF Stream
        <5>2. CASE ~readerEnd
          <6>1. ReaderHolds
            BY <4>1, <5>2
          <6>2. Drained \in Nat
            BY <1>a DEF Drained
          <6> QED BY <1>a, <3>9, <4>1, <5>2, <6>1, <6>2 DEF Stream
        <5> QED BY <5>1, <5>2
      <4>3. ~ReaderHolds'
        BY <3>4 DEF ReaderHolds
      <4>4. Drained' = Drained /\ Drained \in Nat
        BY <1>a, <3>7 DEF Drained
      <4>5. position = Drained + (n + 1) + (IF readerPc' = "done" THEN -1 ELSE 0)
        BY <1>a, <3>4, <4>2, <4>4
      <4>6. \A i \in 1..Len(filled') : ~filled'[i].end => held[filled'[i].buf] = Drained + i
        <5> SUFFICES ASSUME NEW i \in 1..Len(filled'), ~filled'[i].end
                     PROVE  held[filled'[i].buf] = Drained + i
          OBVIOUS
        <5>1. CASE i \in 1..n
          BY <3>5, <3>9, <5>1 DEF Stream
        <5>2. CASE i = n + 1
          <6>1. ~readerEnd
            BY <3>2, <3>5, <5>2
          <6>2. held[readerBuf] = position
            BY <3>9, <4>1, <6>1 DEF Stream
          <6> QED BY <1>a, <3>2, <3>5, <4>2, <4>4, <5>2, <6>1, <6>2
        <5> QED BY <3>6, <5>1, <5>2
      <4> QED BY <1>a, <3>5, <3>7, <3>9, <4>3, <4>4, <4>5, <4>6 DEF Stream
    <3> QED BY <3>8, <3>9
  <2> QED BY <2>1, <2>2
<1>4. CASE CheckCancelled
  BY <1>a, <1>4 DEF CheckCancelled, LeavePipe, readerVars, Stream, Drained, ReaderHolds
<1>5. CASE Poll
  <2>1. UNCHANGED <<readerPc, readerBuf, readerEnd, position, held, out, reported>>
    BY <1>5 DEF Poll, Outcome, readerVars
  <2>2. CASE filled = <<>>
    BY <1>a, <1>5, <2>1, <2>2 DEF Poll, Outcome, Stream, Drained, ReaderHolds
  <2>3. CASE filled # <<>>
    <3>1. /\ Len(filled) \in Nat \ {0} /\ filled[1] = Head(filled)
          /\ Len(filled') = Len(filled) - 1
          /\ \A i \in 1..Len(filled') : filled'[i] = filled[i + 1]
      BY <1>a, <1>5, <2>3, HeadTailProperties, LenProperties, EmptySeq DEF Poll, Outcome
    <3>2. CASE Head(filled).end
      BY <1>a, <1>5, <2>1, <2>3, <3>2 DEF Poll, Outcome, LeavePipe, Stream
    <3>3. CASE ~Head(filled).end
      <4>1. writerPc = "poll" /\ writerPc' = "write" /\ writerBuf' = filled[1].buf
        BY <1>5, <2>3, <3>1, <3>3 DEF Poll, Outcome
      <4>2. Drained = Len(out) /\ Drained' = Len(out) + 1
        BY <1>a, <2>1, <4>1 DEF Drained
      <4>3. held[filled[1].buf] = Len(out) + 1
        <5>1. 1 \in 1..Len(filled)
          BY <3>1
        <5> QED BY <1>a, <3>1, <3>3, <4>1, <4>2, <5>1 DEF Stream
      <4>4. \A i \in 1..Len(filled') : ~filled'[i].end => held[filled'[i].buf] = Drained' + i
        <5> SUFFICES ASSUME NEW i \in 1..Len(filled'), ~filled'[i].end
                     PROVE  held[filled'[i].buf] = Drained' + i
          OBVIOUS
        <5>1. i + 1 \in 1..Len(filled) /\ filled'[i] = filled[i + 1]
          BY <3>1
        <5>2. held[filled[i + 1].buf] = Drained + (i + 1)
          BY <4>1, <5>1 DEF Stream
        <5> QED BY <1>a, <4>2, <5>1, <5>2
      <4>5. ReaderHolds' = ReaderHolds
        BY <2>1 DEF ReaderHolds
      <4>6. position = Drained' + Len(filled') + (IF readerPc = "done" THEN -1 ELSE 0)
                       + (IF ReaderHolds THEN 1 ELSE 0)
        BY <1>a, <3>1, <4>1, <4>2 DEF Stream
      <4>7. reported = Len(out) /\ (ReaderHolds => held[readerBuf] = position)
        BY <1>a, <4>1 DEF Stream
      <4> QED BY <1>a, <2>1, <4>1, <4>3, <4>4, <4>5, <4>6, <4>7 DEF Stream
    <3> QED BY <3>2, <3>3
  <2> QED BY <2>2, <2>3
<1>6. CASE Write
  <2>1. UNCHANGED <<filled, readerPc, readerBuf, readerEnd, position, held, writerBuf, reported>>
    BY <1>6 DEF Write, readerVars
  <2>2. CASE writerPc' = "done"
    BY <1>6, <2>1, <2>2 DEF Write, LeavePipe, Stream
  <2>3. CASE writerPc' # "done"
    <3>1. writerPc = "write" /\ writerPc' = "recycle" /\ out' = Append(out, held[writerBuf])
      BY <1>6, <2>3 DEF Write, LeavePipe
    <3>2. held[writerBuf] \in 0..Chunks
      BY <1>b, <3>1 DEF Handshake
    <3>3. Len(out') = Len(out) + 1
      BY <1>a, <3>1, <3>2, AppendProperties, LenProperties
    <3>4. Drained' = Drained
      BY <1>a, <3>1, <3>3 DEF Drained
    <3>5. ReaderHolds' = ReaderHolds
      BY <2>1 DEF ReaderHolds
    <3> QED BY <1>a, <2>1, <3>1, <3>3, <3>4, <3>5 DEF Stream
  <2> QED BY <2>2, <2>3
<1>7. CASE Recycle
  BY <1>a, <1>7 DEF Recycle, readerVars, Stream, Drained, ReaderHolds
<1>8. CASE Cancel
  BY <1>8 DEF Cancel, readerVars, writerVars, Stream, Drained, ReaderHolds
<1>9. CASE Ended \/ UNCHANGED pipeVars
  <2>1. UNCHANGED <<filled, held, readerPc, readerBuf, readerEnd, position>>
    BY <1>9 DEF Ended, pipeVars, readerVars
  <2>2. UNCHANGED <<writerPc, writerBuf, out, reported>>
    BY <1>9 DEF Ended, pipeVars, writerVars
  <2> QED BY <2>1, <2>2 DEF Stream, Drained, ReaderHolds
<1> QED BY <1>1, <1>2, <1>3, <1>4, <1>5, <1>6, <1>7, <1>8, <1>9 DEF PipeNext, Reader, Writer

-----------------------------------------------------------------------------
(* What reaches the destination *)

LEMMA OrderStep == PipeTypeOK /\ Handshake /\ Stream /\ OutInOrder /\ [PipeNext]_pipeVars => OutInOrder'
<1> SUFFICES ASSUME PipeTypeOK, Handshake, Stream, OutInOrder, [PipeNext]_pipeVars PROVE OutInOrder'
  OBVIOUS
<1>a. out \in Seq(0..Chunks) /\ Len(out) \in Nat
  BY LenProperties DEF PipeTypeOK
<1>1. CASE out' = out
  BY <1>1 DEF OutInOrder
<1>2. CASE writerPc = "write" /\ out' = Append(out, held[writerBuf])
  <2>1. held[writerBuf] \in 0..Chunks /\ held[writerBuf] = Len(out) + 1
    BY <1>2 DEF PipeTypeOK, Handshake, Stream
  <2>2. /\ Len(out') = Len(out) + 1 /\ out'[Len(out) + 1] = Len(out) + 1
        /\ \A i \in 1..Len(out) : out'[i] = out[i]
    BY <1>a, <1>2, <2>1, AppendProperties, LenProperties
  <2> QED BY <1>a, <2>2 DEF OutInOrder
<1>3. out' = out \/ (writerPc = "write" /\ out' = Append(out, held[writerBuf]))
  <2>1. CASE Write
    BY <2>1 DEF Write, LeavePipe
  <2>2. CASE Reader \/ Cancel \/ Ended \/ UNCHANGED pipeVars
    BY <2>2 DEF Reader, Take, Read, Offer, Cancel, Ended, pipeVars, writerVars
  <2>3. CASE CheckCancelled \/ Poll \/ Recycle
    BY <2>3 DEF CheckCancelled, Poll, Outcome, Recycle, LeavePipe
  <2> QED BY <2>1, <2>2, <2>3 DEF PipeNext, Writer
<1> QED BY <1>1, <1>2, <1>3

LEMMA SuccessStep ==
  PipeTypeOK /\ Handshake /\ Stream /\ SuccessIsWhole /\ [PipeNext]_pipeVars => SuccessIsWhole'
<1> SUFFICES ASSUME PipeTypeOK, Handshake, Stream, SuccessIsWhole, [PipeNext]_pipeVars, result' = "done"
             PROVE  /\ ~err' /\ Len(out') = position' /\ reported' = position'
                    /\ readerPc' = "done"
  BY DEF SuccessIsWhole
<1>1. CASE result = "done"
  <2>1. readerPc = "done" /\ writerPc = "done" /\ ~err /\ Len(out) = position /\ reported = position
    BY <1>1 DEF SuccessIsWhole, Handshake
  <2>2. ~Take /\ ~Read /\ ~Offer /\ ~Writer
    BY <2>1 DEF Take, Read, Offer, Writer, CheckCancelled, Poll, Outcome, Write, Recycle
  <2>3. UNCHANGED <<err, readerPc, position, out, reported>>
    BY <2>2 DEF PipeNext, Reader, Cancel, Ended, pipeVars, readerVars, writerVars
  <2> QED BY <2>1, <2>3
<1>2. CASE result # "done"
  <2>1. Poll /\ filled # <<>> /\ Head(filled).end /\ ~err
    BY <1>2 DEF PipeNext, Reader, Writer, Take, Read, Offer, CheckCancelled, Poll, Outcome, Write, Recycle,
       Cancel, Ended, LeavePipe, pipeVars, readerVars, writerVars
  <2>2. UNCHANGED <<err, readerPc, position, out, reported>> /\ writerPc = "poll"
    BY <2>1 DEF Poll, Outcome, readerVars
  <2>3. filled \in Seq(Entry) /\ Len(out) \in Nat /\ position \in Nat
    <3>1. filled \in Seq(Entry) /\ out \in Seq(0..Chunks)
      BY DEF PipeTypeOK, Entry
    <3> QED BY <3>1, PipeAssumption, LenProperties DEF PipeTypeOK, PipeAssumption
  <2>4. Len(filled) \in Nat \ {0} /\ Head(filled) = filled[1]
    BY <2>1, <2>3, HeadTailProperties, LenProperties, EmptySeq
  <2>5. 1 \in 1..Len(filled) /\ filled[1].end
    BY <2>1, <2>4
  <2>6. Len(filled) = 1 /\ readerPc = "done"
    BY <2>5 DEF Handshake
  <2>7. ~ReaderHolds /\ Drained = Len(out)
    BY <2>2, <2>3, <2>6 DEF ReaderHolds, Drained
  <2>8. position = Len(out) /\ reported = Len(out)
    BY <2>2, <2>3, <2>6, <2>7 DEF Stream
  <2> QED BY <2>1, <2>2, <2>6, <2>8
<1> QED BY <1>1, <1>2

\* The queue never holds more entries than there are buffers.
LEMMA QueueBound == PipeTypeOK /\ NoSharedBuffer => Len(filled) <= PipeDepth
<1> SUFFICES ASSUME PipeTypeOK, NoSharedBuffer, ~(Len(filled) <= PipeDepth) PROVE FALSE
  OBVIOUS
<1>a. filled \in Seq(Entry) /\ Len(filled) \in Nat /\ PipeDepth \in Nat
  <2>1. filled \in Seq(Entry)
    BY DEF PipeTypeOK, Entry
  <2> QED BY <2>1, LenProperties, PipeAssumption DEF PipeAssumption
<1> DEFINE f == [i \in 1..Len(filled) |-> filled[i].buf]
<1>1. \A i \in 1..Len(filled) : filled[i].buf \in Buffers
  <2> SUFFICES ASSUME NEW i \in 1..Len(filled) PROVE filled[i].buf \in Buffers
    OBVIOUS
  <2>1. filled[i] \in Entry
    BY <1>a, ElementOfSeq
  <2> QED BY <2>1 DEF Entry
<1>2. f \in [1..Len(filled) -> Buffers]
  BY <1>1
<1>3. /\ IsFiniteSet(1..Len(filled)) /\ Cardinality(1..Len(filled)) = Len(filled)
      /\ IsFiniteSet(Buffers) /\ Cardinality(Buffers) = PipeDepth
  <2>1. \A n \in Nat : IsFiniteSet(1..n) /\ Cardinality(1..n) = n
    <3> SUFFICES ASSUME NEW n \in Nat PROVE IsFiniteSet(1..n) /\ Cardinality(1..n) = n
      OBVIOUS
    <3>1. /\ IsFiniteSet(1..n)
          /\ Cardinality(1..n) = IF 1 > n THEN 0 ELSE n - 1 + 1
      BY FS_Interval
    <3> QED BY <3>1
  <2> QED BY <1>a, <2>1 DEF Buffers
<1>4. \E i, j \in 1..Len(filled) : i # j /\ f[i] = f[j]
  <2> HIDE DEF f
  <2>1. Cardinality(Buffers) < Cardinality(1..Len(filled))
    BY <1>a, <1>3
  <2> QED BY <1>2, <1>3, <2>1, FS_PigeonHole
<1> QED BY <1>4 DEF NoSharedBuffer

-----------------------------------------------------------------------------
(* The theorems *)

LEMMA PipeInvInit == PipeInit => PipeInv
<1> SUFFICES ASSUME PipeInit PROVE PipeInv
  OBVIOUS
<1>1. PipeTypeOK
  BY TypeInit
<1>2. filled = <<>> /\ Len(filled) = 0 /\ out = <<>> /\ Len(out) = 0
  BY DEF PipeInit
<1>3. NoSharedBuffer
  BY <1>2, PipeAssumption DEF PipeInit, NoSharedBuffer, Buffers, NoBuffer, PipeAssumption
<1>4. Handshake
  BY <1>2 DEF PipeInit, Handshake
<1>5. Stream
  BY <1>2 DEF PipeInit, Stream, Drained, ReaderHolds
<1>6. OutInOrder /\ SuccessIsWhole
  BY <1>2 DEF PipeInit, OutInOrder, SuccessIsWhole
<1> QED BY <1>1, <1>3, <1>4, <1>5, <1>6 DEF PipeInv

LEMMA PipeInvStep == PipeInv /\ [PipeNext]_pipeVars => PipeInv'
  BY TypeStep, SharedStep, HandshakeStep, StreamStep, OrderStep, SuccessStep DEF PipeInv

LEMMA PipeInvHolds == PipeSpec => []PipeInv
<1>1. PipeInit => PipeInv
  BY PipeInvInit
<1>2. PipeInv /\ [PipeNext]_pipeVars => PipeInv'
  BY PipeInvStep
<1> QED BY <1>1, <1>2, PTL DEF PipeSpec

\* The variables of the pipe keep their types.
THEOREM PipeTypes == PipeSpec => []PipeTypeOK
<1>1. PipeInv => PipeTypeOK
  BY DEF PipeInv
<1> QED BY <1>1, PipeInvHolds, PTL

\* No two hands ever hold the same buffer of the pool.
THEOREM BuffersNeverShared == PipeSpec => []NoSharedBuffer
<1>1. PipeInv => NoSharedBuffer
  BY DEF PipeInv
<1> QED BY <1>1, PipeInvHolds, PTL

\* Whatever the depth of the pool and the speed of either thread, the
\* destination receives a prefix of the source.
THEOREM DestinationInOrder == PipeSpec => []OutInOrder
<1>1. PipeInv => OutInOrder
  BY DEF PipeInv
<1> QED BY <1>1, PipeInvHolds, PTL

\* pipe() returning true means: all that was read was written and reported,
\* no read failed, and the reader has let go of the source.
THEOREM SuccessMeansWhole == PipeSpec => []SuccessIsWhole
<1>1. PipeInv => SuccessIsWhole
  BY DEF PipeInv
<1> QED BY <1>1, PipeInvHolds, PTL

\* One slot more than buffers is enough: the reader's offer never waits.
THEOREM OfferNeverWaits == PipeSpec => []OfferNeverBlocks
<1>1. PipeInv => OfferNeverBlocks
  <2> SUFFICES ASSUME PipeInv PROVE Len(filled) < FilledCapacity
    BY DEF OfferNeverBlocks
  <2>1. filled \in Seq(Entry) /\ Len(filled) <= PipeDepth
    BY QueueBound DEF PipeInv, PipeTypeOK, Entry
  <2> QED BY <2>1, LenProperties, PipeAssumption DEF FilledCapacity, PipeAssumption
<1> QED BY <1>1, PipeInvHolds, PTL

-----------------------------------------------------------------------------
(* The RPC transport.  Its loops (rpc_timeout_scan, rpc_reconnect_requeue) *)
(* are recursive functions, and what they compute is proved by the least   *)
(* index at which a loop invariant would fail.                             *)

(* A set of natural numbers has a least member.                            *)
LEMMA LeastMember == ASSUME NEW T, T \subseteq Nat, T # {} PROVE \E m \in T : \A k \in T : m <= k
<1>1. PICK m \in T : \A y \in T : ~(<<y, m>> \in OpToRel(<, Nat))
  BY WFMin, NatLessThanWellFounded, Zenon
<1>2. \A k \in T : ~(k < m)
  BY <1>1 DEF OpToRel
<1> QED BY <1>2

(* Induction up to n, over the set of the indices a loop invariant holds at. *)
LEMMA UpTo ==
  ASSUME NEW n \in Nat, NEW P, 0 \in P, \A k \in 1..n : k - 1 \in P => k \in P
  PROVE  \A k \in 0..n : k \in P
<1>1. SUFFICES ASSUME {k \in 0..n : k \notin P} # {} PROVE FALSE OBVIOUS
<1>2. {k \in 0..n : k \notin P} \subseteq Nat OBVIOUS
<1>3. PICK m \in {k \in 0..n : k \notin P} : \A k \in {j \in 0..n : j \notin P} : m <= k
  BY <1>1, <1>2, LeastMember
<1>4. m \in 0..n /\ m \notin P /\ m # 0 BY <1>3
<1>5. m - 1 \in 0..n /\ m \in 1..n /\ ~(m <= m - 1) BY <1>4
<1>6. m - 1 \in P BY <1>3, <1>5
<1> QED BY <1>4, <1>5, <1>6

(* No call stands twice in s.                                              *)
Distinct(s) == \A i, j \in 1..Len(s) : s[i] = s[j] => i = j

(* t is s with x inserted behind its first i members.                      *)
Inserted(t, s, i, x) ==
  /\ Len(t) = Len(s) + 1
  /\ \A k \in 1..i : t[k] = s[k]
  /\ t[i + 1] = x
  /\ \A k \in (i + 1)..Len(s) : t[k + 1] = s[k]

(* t is s without its member i.                                            *)
Removed(t, s, i) ==
  /\ Len(t) = Len(s) - 1
  /\ \A k \in 1..(i - 1) : t[k] = s[k]
  /\ \A k \in (i + 1)..Len(s) : t[k - 1] = s[k]

(* What an insertion or a removal does to the members, and that it leaves  *)
(* them distinct.                                                          *)
LEMMA InsertedMembers ==
  ASSUME NEW s \in Seq(Calls), NEW t \in Seq(Calls), NEW i \in 0..Len(s), NEW x, Inserted(t, s, i, x)
  PROVE  Elements(t) = Elements(s) \cup {x}
<1>1. Elements(t) \subseteq Elements(s) \cup {x}
  <2>1. SUFFICES ASSUME NEW e \in Elements(t) PROVE e \in Elements(s) \cup {x} OBVIOUS
  <2>2. PICK k \in 1..Len(t) : t[k] = e BY <2>1 DEF Elements
  <2>3. CASE k <= i
    <3>1. k \in 1..Len(s) /\ s[k] = e BY <2>2, <2>3 DEF Inserted
    <3> QED BY <3>1 DEF Elements
  <2>4. CASE k = i + 1
    BY <2>2, <2>4 DEF Inserted
  <2>5. CASE k > i + 1
    <3>1. k - 1 \in (i + 1)..Len(s) /\ (k - 1) + 1 = k BY <2>2, <2>5 DEF Inserted
    <3>2. s[k - 1] = e BY <3>1, <2>2 DEF Inserted
    <3>3. k - 1 \in 1..Len(s) BY <3>1
    <3> QED BY <3>2, <3>3 DEF Elements
  <2> QED BY <2>3, <2>4, <2>5
<1>2. Elements(s) \subseteq Elements(t)
  <2>1. SUFFICES ASSUME NEW e \in Elements(s) PROVE e \in Elements(t) OBVIOUS
  <2>2. PICK k \in 1..Len(s) : s[k] = e BY <2>1 DEF Elements
  <2>3. CASE k <= i
    <3>1. k \in 1..Len(t) /\ t[k] = e BY <2>2, <2>3 DEF Inserted
    <3> QED BY <3>1 DEF Elements
  <2>4. CASE k > i
    <3>1. k + 1 \in 1..Len(t) /\ t[k + 1] = e BY <2>2, <2>4 DEF Inserted
    <3> QED BY <3>1 DEF Elements
  <2> QED BY <2>3, <2>4
<1>3. x \in Elements(t)
  <2>1. i + 1 \in 1..Len(t) /\ t[i + 1] = x BY DEF Inserted
  <2> QED BY <2>1 DEF Elements
<1> QED BY <1>1, <1>2, <1>3

LEMMA InsertedDistinct ==
  ASSUME NEW s \in Seq(Calls), NEW t \in Seq(Calls), NEW i \in 0..Len(s), NEW x, Inserted(t, s, i, x),
         Distinct(s), x \notin Elements(s)
  PROVE  Distinct(t)
<1>1. \A k \in 1..Len(s) : s[k] # x BY DEF Elements
<1>2. SUFFICES ASSUME NEW k \in 1..Len(t), NEW l \in 1..Len(t), k < l, t[k] = t[l] PROVE FALSE
  BY DEF Distinct
<1> DEFINE old(m) == IF m <= i THEN m ELSE m - 1
<1>3. \A m \in 1..Len(t) : m # i + 1 => old(m) \in 1..Len(s) /\ t[m] = s[old(m)]
  <2>1. TAKE m \in 1..Len(t)
  <2>2. HAVE m # i + 1
  <2>3. CASE m <= i BY <2>3 DEF Inserted
  <2>4. CASE m > i + 1
    <3>1. m - 1 \in (i + 1)..Len(s) /\ (m - 1) + 1 = m BY <2>4 DEF Inserted
    <3>2. t[m] = s[m - 1] BY <3>1 DEF Inserted
    <3> QED BY <3>1, <3>2
  <2> QED BY <2>2, <2>3, <2>4
<1>4. t[i + 1] = x BY DEF Inserted
<1>5. CASE k = i + 1
  <2>1. l # i + 1 BY <1>2, <1>5
  <2> QED BY <2>1, <1>1, <1>2, <1>3, <1>4, <1>5
<1>6. CASE l = i + 1
  <2>1. k # i + 1 BY <1>2, <1>6
  <2> QED BY <2>1, <1>1, <1>2, <1>3, <1>4, <1>6
<1>7. CASE k # i + 1 /\ l # i + 1
  <2>1. old(k) \in 1..Len(s) /\ old(l) \in 1..Len(s) /\ s[old(k)] = s[old(l)]
    BY <1>2, <1>3, <1>7
  <2>2. old(k) = old(l) BY <2>1 DEF Distinct
  <2>3. old(k) < old(l) BY <1>2, <1>7
  <2> QED BY <2>1, <2>2, <2>3
<1> QED BY <1>5, <1>6, <1>7

LEMMA RemovedMembers ==
  ASSUME NEW s \in Seq(Calls), NEW t \in Seq(Calls), NEW i \in 1..Len(s), Removed(t, s, i), Distinct(s)
  PROVE  Elements(t) = Elements(s) \ {s[i]} /\ Distinct(t)
<1> DEFINE old(m) == IF m < i THEN m ELSE m + 1
<1>1. \A m \in 1..Len(t) : old(m) \in 1..Len(s) /\ old(m) # i /\ t[m] = s[old(m)]
  <2>1. TAKE m \in 1..Len(t)
  <2>2. CASE m < i BY <2>2 DEF Removed
  <2>3. CASE m >= i
    <3>1. m + 1 \in (i + 1)..Len(s) /\ (m + 1) - 1 = m BY <2>3 DEF Removed
    <3>2. t[m] = s[m + 1] BY <3>1 DEF Removed
    <3> QED BY <3>1, <3>2, <2>3
  <2> QED BY <2>2, <2>3
<1>2. Elements(t) \subseteq Elements(s) \ {s[i]}
  <2>1. SUFFICES ASSUME NEW e \in Elements(t) PROVE e \in Elements(s) \ {s[i]} OBVIOUS
  <2>2. PICK m \in 1..Len(t) : t[m] = e BY <2>1 DEF Elements
  <2>3. old(m) \in 1..Len(s) /\ old(m) # i /\ s[old(m)] = e BY <1>1, <2>2
  <2>4. e # s[i] BY <2>3 DEF Distinct
  <2> HIDE DEF old
  <2> QED BY <2>3, <2>4 DEF Elements
<1>3. Elements(s) \ {s[i]} \subseteq Elements(t)
  <2>1. SUFFICES ASSUME NEW e \in Elements(s) \ {s[i]} PROVE e \in Elements(t) OBVIOUS
  <2>2. PICK k \in 1..Len(s) : s[k] = e BY <2>1 DEF Elements
  <2>3. CASE k < i
    <3>1. k \in 1..Len(t) /\ t[k] = e BY <2>2, <2>3 DEF Removed
    <3> QED BY <3>1 DEF Elements
  <2>4. CASE k > i
    <3>1. k \in (i + 1)..Len(s) BY <2>2, <2>4
    <3>2. k - 1 \in 1..Len(t) /\ t[k - 1] = e BY <3>1, <2>2 DEF Removed
    <3> QED BY <3>2 DEF Elements
  <2> QED BY <2>1, <2>2, <2>3, <2>4
<1>4. Distinct(t)
  <2>1. SUFFICES ASSUME NEW k \in 1..Len(t), NEW l \in 1..Len(t), t[k] = t[l] PROVE k = l
    BY DEF Distinct
  <2>2. old(k) = old(l) BY <1>1, <2>1 DEF Distinct
  <2> QED BY <2>2
<1> QED BY <1>2, <1>3, <1>4

(* The three ways rpc_add_to_outqueue_head and _lowp link a PDU in.        *)
LEMMA InsertForms ==
  ASSUME NEW s \in Seq(Calls), NEW x \in Calls
  PROVE  /\ <<x>> \o s \in Seq(Calls) /\ Inserted(<<x>> \o s, s, 0, x)
         /\ Append(s, x) \in Seq(Calls) /\ Inserted(Append(s, x), s, Len(s), x)
         /\ s # <<>> => /\ <<Head(s), x>> \o Tail(s) \in Seq(Calls)
                        /\ Inserted(<<Head(s), x>> \o Tail(s), s, 1, x)
<1>1. <<x>> \o s \in Seq(Calls) /\ Inserted(<<x>> \o s, s, 0, x)
  BY DEF Inserted
<1>2. Append(s, x) \in Seq(Calls) /\ Inserted(Append(s, x), s, Len(s), x)
  BY AppendProperties DEF Inserted
<1>3. ASSUME s # <<>>
      PROVE  <<Head(s), x>> \o Tail(s) \in Seq(Calls) /\ Inserted(<<Head(s), x>> \o Tail(s), s, 1, x)
  <2>1. Head(s) = s[1] /\ Head(s) \in Calls /\ Tail(s) \in Seq(Calls) /\ Len(Tail(s)) = Len(s) - 1 /\ Len(s) >= 1
    BY <1>3, HeadTailProperties, EmptySeq, LenProperties
  <2>2. \A k \in 1..Len(Tail(s)) : Tail(s)[k] = s[k + 1]
    BY <1>3, HeadTailProperties
  <2>3. PICK u \in Seq(Calls) : u = Tail(s) BY <2>1
  <2>4. PICK h \in Calls : h = Head(s) BY <2>1
  <2>5. <<h, x>> \o u \in Seq(Calls) /\ Len(<<h, x>> \o u) = Len(u) + 2
    OBVIOUS
  <2>6. (<<h, x>> \o u)[1] = h /\ (<<h, x>> \o u)[2] = x
    OBVIOUS
  <2>7. \A k \in 2..Len(s) : (<<h, x>> \o u)[k + 1] = u[k - 1]
    BY <2>1, <2>3
  <2>8. \A k \in 2..Len(s) : u[k - 1] = s[k]
    BY <2>1, <2>2, <2>3
  <2>9. Inserted(<<h, x>> \o u, s, 1, x)
    BY <2>1, <2>3, <2>4, <2>5, <2>6, <2>7, <2>8 DEF Inserted
  <2> QED BY <2>3, <2>4, <2>5, <2>9
<1> QED BY <1>1, <1>2, <1>3

(* What \o makes, member by member.                                        *)
LEMMA Joined ==
  ASSUME NEW a \in Seq(Calls), NEW b \in Seq(Calls)
  PROVE  /\ a \o b \in Seq(Calls) /\ Len(a \o b) = Len(a) + Len(b)
         /\ \A k \in 1..Len(a) : (a \o b)[k] = a[k]
         /\ \A k \in 1..Len(b) : (a \o b)[Len(a) + k] = b[k]
OBVIOUS

(* rpc_add_to_outqueue_highp links the PDU in behind tailp.                *)
LEMMA InsertBehind ==
  ASSUME NEW s \in Seq(Calls), NEW x \in Calls, NEW i \in 1..Len(s)
  PROVE  /\ SubSeq(s, 1, i) \o <<x>> \o SubSeq(s, i + 1, Len(s)) \in Seq(Calls)
         /\ Inserted(SubSeq(s, 1, i) \o <<x>> \o SubSeq(s, i + 1, Len(s)), s, i, x)
<1>1. SubSeq(s, 1, i) \in Seq(Calls) /\ Len(SubSeq(s, 1, i)) = i /\ \A k \in 1..i : SubSeq(s, 1, i)[k] = s[k]
  BY SubSeqProperties
<1>2. /\ SubSeq(s, i + 1, Len(s)) \in Seq(Calls) /\ Len(SubSeq(s, i + 1, Len(s))) = Len(s) - i
      /\ \A k \in 1..(Len(s) - i) : SubSeq(s, i + 1, Len(s))[k] = s[i + k]
  BY SubSeqProperties
<1>3. PICK a \in Seq(Calls) : a = SubSeq(s, 1, i) BY <1>1
<1>4. PICK b \in Seq(Calls) : b = SubSeq(s, i + 1, Len(s)) BY <1>2
<1>5. /\ a \o <<x>> \in Seq(Calls) /\ Len(a \o <<x>>) = i + 1 /\ (a \o <<x>>)[i + 1] = x
      /\ \A k \in 1..i : (a \o <<x>>)[k] = s[k]
  <2>1. <<x>> \in Seq(Calls) /\ Len(<<x>>) = 1 /\ <<x>>[1] = x OBVIOUS
  <2>2. PICK e \in Seq(Calls) : e = <<x>> BY <2>1
  <2>3. Len(a) = i /\ Len(e) = 1 /\ e[1] = x BY <2>1, <2>2, <1>1, <1>3
  <2>4. a \o e \in Seq(Calls) /\ Len(a \o e) = Len(a) + Len(e) /\ (a \o e)[Len(a) + 1] = e[1]
    <3>1. 1 \in 1..Len(e) BY <2>3
    <3> QED BY <3>1, Joined
  <2>5. \A k \in 1..i : (a \o e)[k] = a[k]
    BY <2>3, Joined
  <2> QED BY <2>2, <2>3, <2>4, <2>5, <1>1, <1>3
<1>6. PICK c \in Seq(Calls) : c = a \o <<x>> BY <1>5
<1>7. Len(c) = i + 1 /\ c[i + 1] = x /\ (\A k \in 1..i : c[k] = s[k]) /\ Len(b) = Len(s) - i
  BY <1>2, <1>4, <1>5, <1>6
<1>8. /\ c \o b \in Seq(Calls) /\ Len(c \o b) = Len(s) + 1
      /\ \A k \in 1..(i + 1) : (c \o b)[k] = c[k]
      /\ \A k \in (i + 1)..Len(s) : (c \o b)[k + 1] = b[k - i]
  <2>1. i \in Nat /\ Len(s) \in Nat BY LenProperties
  <2>2. /\ c \o b \in Seq(Calls) /\ Len(c \o b) = Len(s) + 1
        /\ \A k \in 1..(i + 1) : (c \o b)[k] = c[k]
    <3>1. c \o b \in Seq(Calls) /\ Len(c \o b) = Len(c) + Len(b) /\ \A k \in 1..Len(c) : (c \o b)[k] = c[k]
      BY Joined
    <3>2. Len(c) = i + 1 /\ Len(c) + Len(b) = Len(s) + 1 BY <2>1, <1>7
    <3> QED BY <3>1, <3>2
  <2>3. ASSUME NEW k \in (i + 1)..Len(s) PROVE (c \o b)[k + 1] = b[k - i]
    <3>1. k - i \in 1..Len(b) /\ Len(c) + (k - i) = k + 1 BY <2>1, <1>7
    <3> QED BY <3>1, Joined
  <2> QED BY <2>2, <2>3
<1>9. \A k \in (i + 1)..Len(s) : b[k - i] = s[k]
  <2>1. TAKE k \in (i + 1)..Len(s)
  <2>2. k - i \in 1..(Len(s) - i) /\ i + (k - i) = k OBVIOUS
  <2> QED BY <2>2, <1>2, <1>4
<1>10. Inserted(c \o b, s, i, x)
  <2>1. i + 1 \in 1..(i + 1) /\ \A k \in 1..i : k \in 1..(i + 1) OBVIOUS
  <2> QED BY <2>1, <1>7, <1>8, <1>9 DEF Inserted
<1>11. SubSeq(s, 1, i) \o <<x>> \o SubSeq(s, i + 1, Len(s)) = c \o b
  BY <1>3, <1>4, <1>6
<1> QED BY <1>8, <1>10, <1>11

LEMMA Positions ==
  ASSUME NEW s, NEW x \in Elements(s)
  PROVE  Position(s, x) \in 1..Len(s) /\ s[Position(s, x)] = x
BY DEF Position, Elements

(* The walk of rpc_remove_pdu_from_queue takes out one member.             *)
LEMMA WithoutIs ==
  ASSUME NEW s \in Seq(Calls), NEW x \in Elements(s)
  PROVE  Without(s, x) \in Seq(Calls) /\ Removed(Without(s, x), s, Position(s, x))
<1>1. PICK i \in 1..Len(s) : i = Position(s, x) BY Positions
<1>2. i - 1 \in 0..Len(s) /\ i + 1 \in 1..(Len(s) + 1) /\ i \in Nat /\ Len(s) \in Nat BY LenProperties
<1>3. /\ SubSeq(s, 1, i - 1) \in Seq(Calls) /\ Len(SubSeq(s, 1, i - 1)) = i - 1
      /\ \A k \in 1..(i - 1) : SubSeq(s, 1, i - 1)[k] = s[k]
  BY <1>2, SubSeqProperties
<1>4. /\ SubSeq(s, i + 1, Len(s)) \in Seq(Calls) /\ Len(SubSeq(s, i + 1, Len(s))) = Len(s) - i
      /\ \A k \in 1..(Len(s) - i) : SubSeq(s, i + 1, Len(s))[k] = s[i + k]
  BY <1>2, SubSeqProperties
<1>5. PICK a \in Seq(Calls) : a = SubSeq(s, 1, i - 1) BY <1>3
<1>6. PICK b \in Seq(Calls) : b = SubSeq(s, i + 1, Len(s)) BY <1>4
<1>7. /\ a \o b \in Seq(Calls) /\ Len(a \o b) = Len(s) - 1
      /\ \A k \in 1..(i - 1) : (a \o b)[k] = s[k]
  <2>1. Len(a) = i - 1 /\ Len(b) = Len(s) - i /\ \A k \in 1..(i - 1) : a[k] = s[k]
    BY <1>3, <1>4, <1>5, <1>6
  <2>2. /\ a \o b \in Seq(Calls) /\ Len(a \o b) = Len(a) + Len(b)
        /\ \A k \in 1..Len(a) : (a \o b)[k] = a[k]
    BY Joined
  <2>3. Len(a \o b) = Len(s) - 1
    <3>1. Len(s) \in Int /\ i \in Int BY <1>2
    <3> QED BY ONLY <2>1, <2>2, <3>1
  <2> QED BY <2>1, <2>2, <2>3
<1>9. ASSUME NEW k \in (i + 1)..Len(s) PROVE (a \o b)[k - 1] = b[k - i]
  <2>1. Len(a) = i - 1 /\ Len(b) = Len(s) - i
    BY <1>3, <1>4, <1>5, <1>6
  <2>2. k - i \in 1..Len(b) /\ Len(a) + (k - i) = k - 1 BY <2>1, <1>2
  <2> QED BY <2>2, Joined
<1>10. \A k \in (i + 1)..Len(s) : b[k - i] = s[k]
  <2>1. TAKE k \in (i + 1)..Len(s)
  <2>2. k - i \in 1..(Len(s) - i) /\ i + (k - i) = k OBVIOUS
  <2> QED BY <2>2, <1>4, <1>6
<1>11. Removed(a \o b, s, i)
  BY <1>7, <1>9, <1>10 DEF Removed
<1>12. Without(s, x) = a \o b BY <1>1, <1>5, <1>6 DEF Without
<1> QED BY <1>1, <1>7, <1>11, <1>12

(* The values rpc may have.                                                *)
RpcStates ==
  [out : Seq(Calls), tailp : Calls \cup {None}, outlen : Nat, wait : Seq(Calls), waitlen : Nat,
   begun : SUBSET Calls, again : SUBSET Calls, pdu : Calls \cup {None}, phase : {"marker", "payload", "data"}]

(* outqueue in order.                                                      *)
OutOK(r) ==
  /\ r \in RpcStates
  /\ Distinct(r.out) /\ r.outlen = Len(r.out)
  /\ r.tailp # None => r.tailp \in High \cap Elements(r.out)
  /\ r.begun \subseteq (IF r.out = <<>> THEN {} ELSE {Head(r.out)})

(* The high priority run, the half-written head apart, and its end.        *)
Run(s, tailp) ==
  /\ \A i, j \in 1..Len(s) : 1 < i /\ i < j /\ s[j] \in High => s[i] \in High
  /\ \A j \in 1..Len(s) : s[j] \in High => \E k \in j..Len(s) : s[k] = tailp

(* The insertions and removals of outqueue leave everything else alone.    *)
SameRest(t, r) == t.wait = r.wait /\ t.waitlen = r.waitlen /\ t.pdu = r.pdu /\ t.phase = r.phase

LEMMA HeadIs ==
  ASSUME NEW s \in Seq(Calls)
  PROVE  /\ s # <<>> <=> Len(s) > 0
         /\ s # <<>> => Head(s) = s[1] /\ Head(s) \in Calls /\ Head(s) \in Elements(s)
<1>1. s # <<>> <=> Len(s) > 0 BY EmptySeq, LenProperties
<1>2. ASSUME s # <<>> PROVE Head(s) = s[1] /\ Head(s) \in Calls /\ 1 \in 1..Len(s)
  BY <1>1, <1>2, HeadTailProperties
<1> QED BY <1>1, <1>2 DEF Elements

LEMMA ElementsType ==
  ASSUME NEW s \in Seq(Calls)
  PROVE  Elements(s) \subseteq Calls /\ (s = <<>> => Elements(s) = {}) /\ (Elements(s) = {} => s = <<>>)
<1>1. Elements(s) \subseteq Calls BY DEF Elements
<1>2. s # <<>> => Elements(s) # {} BY HeadIs
<1>3. s = <<>> => Elements(s) = {} BY DEF Elements
<1> QED BY <1>1, <1>2, <1>3

(* What the insertions make of the record, given the new queue u.          *)
Put(r, u, p) == [r EXCEPT !.out = u, !.tailp = p, !.outlen = @ + 1]

(* x goes behind the first i calls, and not before a begun head.           *)
MayPut(r, x, i, u, p) ==
  /\ u \in Seq(Calls) /\ i \in 0..Len(r.out) /\ Inserted(u, r.out, i, x)
  /\ i = 0 => r.begun = {}
  /\ p # None => p \in High \cap (Elements(r.out) \cup {x})

LEMMA PutOK ==
  ASSUME NEW r, OutOK(r), NEW x \in Calls, x \notin Elements(r.out),
         NEW i, NEW u, NEW p, MayPut(r, x, i, u, p)
  PROVE  /\ OutOK(Put(r, u, p)) /\ Elements(Put(r, u, p).out) = Elements(r.out) \cup {x}
         /\ Put(r, u, p).begun = r.begun /\ SameRest(Put(r, u, p), r)
<1>0. PICK t : t = Put(r, u, p) OBVIOUS
<1>1. r \in RpcStates /\ r.out \in Seq(Calls) /\ r.outlen = Len(r.out) /\ r.outlen \in Nat
  BY DEF OutOK, RpcStates
<1>10. /\ u \in Seq(Calls) /\ i \in 0..Len(r.out) /\ Inserted(u, r.out, i, x)
       /\ i = 0 => r.begun = {}
  BY DEF MayPut
<1>2. p \in Calls \cup {None} /\ (p # None => p \in High \cap (Elements(r.out) \cup {x}))
  BY RpcAssumption DEF MayPut
<1>3. /\ t \in RpcStates /\ t.out = u /\ t.tailp = p /\ t.outlen = r.outlen + 1 /\ t.begun = r.begun
      /\ SameRest(t, r)
  <2>1. PICK m \in Nat : m = r.outlen + 1 BY <1>1
  <2>2. t = [r EXCEPT !.out = u, !.tailp = p, !.outlen = m] BY <2>1, <1>0 DEF Put
  <2> QED BY <2>1, <2>2, <1>1, <1>2, <1>10 DEF RpcStates, SameRest
<1>4. Elements(u) = Elements(r.out) \cup {x} BY <1>1, <1>10, InsertedMembers
<1>5. Distinct(u) BY <1>1, <1>10, InsertedDistinct DEF OutOK
<1>6. Len(u) = Len(r.out) + 1 BY <1>10 DEF Inserted
<1>7. u # <<>> BY <1>1, <1>6, <1>10, HeadIs, LenProperties
<1>8. r.begun \subseteq {Head(u)}
  <2>1. CASE i = 0 BY <2>1, <1>10
  <2>2. CASE r.out = <<>>
    <3>1. r.begun = {} BY <2>2 DEF OutOK
    <3> QED BY <3>1
  <2>3. CASE i # 0 /\ r.out # <<>>
    <3>1. 1 \in 1..i BY <2>3, <1>10
    <3>2. u[1] = r.out[1] BY <3>1, <1>10 DEF Inserted
    <3>3. Head(u) = Head(r.out) BY <3>2, <2>3, <1>1, <1>7, <1>10, HeadIs
    <3> QED BY <3>3, <2>3 DEF OutOK
  <2> QED BY <2>1, <2>2, <2>3
<1>9. OutOK(t)
  BY <1>1, <1>2, <1>3, <1>4, <1>5, <1>6, <1>7, <1>8 DEF OutOK
<1> QED BY <1>0, <1>3, <1>4, <1>9

(* A low priority call at the end, and a high priority one behind the run. *)
LEMMA RunPutLow ==
  ASSUME NEW s \in Seq(Calls), NEW p, Run(s, p), NEW x \in Calls, x \notin High, NEW u \in Seq(Calls),
         Inserted(u, s, Len(s), x)
  PROVE  Run(u, p)
<1>1. Len(u) = Len(s) + 1 /\ u[Len(s) + 1] = x /\ (\A k \in 1..Len(s) : u[k] = s[k]) /\ Len(s) \in Nat
  BY LenProperties DEF Inserted
<1>2. \A j \in 1..Len(u) : u[j] \in High => j \in 1..Len(s) BY <1>1
<1>3. ASSUME NEW i \in 1..Len(u), NEW j \in 1..Len(u), 1 < i, i < j, u[j] \in High PROVE u[i] \in High
  <2>1. i \in 1..Len(s) /\ j \in 1..Len(s) /\ s[j] \in High BY <1>1, <1>2, <1>3
  <2>2. s[i] \in High BY <2>1, <1>3 DEF Run
  <2> QED BY <2>1, <2>2, <1>1
<1>4. ASSUME NEW j \in 1..Len(u), u[j] \in High PROVE \E k \in j..Len(u) : u[k] = p
  <2>1. j \in 1..Len(s) /\ s[j] \in High BY <1>1, <1>2, <1>4
  <2>2. PICK k \in j..Len(s) : s[k] = p BY <2>1 DEF Run
  <2>3. k \in 1..Len(s) /\ k \in j..Len(u) BY <2>1, <1>1
  <2> QED BY <2>2, <2>3, <1>1
<1> QED BY <1>3, <1>4 DEF Run

(* A high priority call may go behind the end of the run.                  *)
LEMMA RunPutHigh ==
  ASSUME NEW s \in Seq(Calls), NEW p, Run(s, p), NEW x \in High, NEW u \in Seq(Calls),
         NEW i \in 0..Len(s), Inserted(u, s, i, x),
         \A k \in (i + 1)..Len(s) : s[k] \notin High,
         \A k \in 2..i : s[k] \in High
  PROVE  Run(u, x)
<1>1. /\ Len(u) = Len(s) + 1 /\ u[i + 1] = x /\ Len(s) \in Nat
      /\ \A k \in 1..i : u[k] = s[k]
      /\ \A k \in (i + 1)..Len(s) : u[k + 1] = s[k]
  BY LenProperties DEF Inserted
<1>2. ASSUME NEW j \in 1..Len(u), u[j] \in High PROVE j <= i + 1
  <2>1. SUFFICES ASSUME j > i + 1 PROVE FALSE OBVIOUS
  <2>2. j - 1 \in (i + 1)..Len(s) /\ (j - 1) + 1 = j BY <2>1, <1>1
  <2>3. u[j] = s[j - 1] BY <2>2, <1>1
  <2> QED BY <2>2, <2>3, <1>2
<1>3. ASSUME NEW k \in 1..Len(u), NEW j \in 1..Len(u), 1 < k, k < j, u[j] \in High PROVE u[k] \in High
  <2>1. k \in 2..i BY <1>2, <1>3
  <2> QED BY <2>1, <1>1
<1>4. ASSUME NEW j \in 1..Len(u), u[j] \in High PROVE \E k \in j..Len(u) : u[k] = x
  <2>1. i + 1 \in j..Len(u) BY <1>1, <1>2, <1>4
  <2> QED BY <2>1, <1>1
<1> QED BY <1>3, <1>4 DEF Run

(* The ways into outqueue keep it in order and displace nothing begun.     *)
LEMMA AddHeadOK ==
  ASSUME NEW r, OutOK(r), NEW x \in Calls, x \notin Elements(r.out)
  PROVE  /\ OutOK(AddHead(r, x)) /\ Elements(AddHead(r, x).out) = Elements(r.out) \cup {x}
         /\ AddHead(r, x).begun = r.begun /\ SameRest(AddHead(r, x), r)
<1>1. r \in RpcStates /\ r.out \in Seq(Calls) /\ r.outlen \in Nat /\ r.tailp \in Calls \cup {None}
  BY DEF OutOK, RpcStates
<1>2. Len(r.out) \in Nat BY <1>1, LenProperties
<1>3. CASE r.out = <<>> \/ Head(r.out) \notin r.begun
  <2>1. PICK u \in Seq(Calls) : u = <<x>> \o r.out /\ Inserted(u, r.out, 0, x) BY <1>1, InsertForms
  <2>2. r.begun = {} BY <1>3 DEF OutOK
  <2>3. PICK p : p = IF x \in High /\ r.tailp = None THEN x ELSE r.tailp OBVIOUS
  <2>4. p # None => p \in High \cap (Elements(r.out) \cup {x}) BY <2>3 DEF OutOK
  <2>5. AddHead(r, x) = Put(r, u, p)
    BY <1>1, <1>3, <2>1, <2>3 DEF AddHead, RpcStates, Put
  <2>6. 0 \in 0..Len(r.out) BY <1>2
  <2>7. MayPut(r, x, 0, u, p) BY <2>1, <2>2, <2>4, <2>6 DEF MayPut
  <2> QED BY <2>5, <2>7, PutOK
<1>4. CASE r.out # <<>> /\ Head(r.out) \in r.begun
  <2>1. PICK u \in Seq(Calls) : u = <<Head(r.out), x>> \o Tail(r.out) /\ Inserted(u, r.out, 1, x)
    BY <1>1, <1>4, InsertForms
  <2>3. PICK p : p = IF x \in High /\ r.tailp \in {None, Head(r.out)} THEN x ELSE r.tailp OBVIOUS
  <2>4. p # None => p \in High \cap (Elements(r.out) \cup {x}) BY <2>3 DEF OutOK
  <2>5. AddHead(r, x) = Put(r, u, p)
    BY <1>1, <1>4, <2>1, <2>3 DEF AddHead, RpcStates, Put
  <2>6. 1 \in 0..Len(r.out) /\ (1 = 0 => r.begun = {}) BY <1>1, <1>2, <1>4, HeadIs
  <2>7. MayPut(r, x, 1, u, p) BY <2>1, <2>4, <2>6 DEF MayPut
  <2> QED BY <2>5, <2>7, PutOK
<1> QED BY <1>3, <1>4

LEMMA AddLowOK ==
  ASSUME NEW r, OutOK(r), NEW x \in Calls, x \notin Elements(r.out)
  PROVE  /\ OutOK(AddLow(r, x)) /\ Elements(AddLow(r, x).out) = Elements(r.out) \cup {x}
         /\ AddLow(r, x).begun = r.begun /\ SameRest(AddLow(r, x), r)
<1>1. r \in RpcStates /\ r.out \in Seq(Calls) /\ r.outlen \in Nat /\ r.tailp \in Calls \cup {None}
  BY DEF OutOK, RpcStates
<1>2. PICK u \in Seq(Calls) : u = Append(r.out, x) /\ Inserted(u, r.out, Len(r.out), x) BY <1>1, InsertForms
<1>3. PICK p : p = r.tailp OBVIOUS
<1>4. p # None => p \in High \cap (Elements(r.out) \cup {x}) BY <1>3 DEF OutOK
<1>5. AddLow(r, x) = Put(r, u, p)
  BY <1>1, <1>2, <1>3 DEF AddLow, RpcStates, Put
<1>6. Len(r.out) \in 0..Len(r.out) BY <1>1, LenProperties
<1>7. Len(r.out) = 0 => r.begun = {}
  <2>1. Len(r.out) = 0 => r.out = <<>> BY <1>1, HeadIs
  <2> QED BY <2>1 DEF OutOK
<1>8. MayPut(r, x, Len(r.out), u, p) BY <1>2, <1>4, <1>6, <1>7 DEF MayPut
<1> QED BY <1>5, <1>8, PutOK

LEMMA AddHighOK ==
  ASSUME NEW r, OutOK(r), NEW x \in High, x \notin Elements(r.out)
  PROVE  /\ OutOK(AddHigh(r, x)) /\ Elements(AddHigh(r, x).out) = Elements(r.out) \cup {x}
         /\ AddHigh(r, x).begun = r.begun /\ SameRest(AddHigh(r, x), r)
<1>1. r \in RpcStates /\ r.out \in Seq(Calls) /\ r.outlen \in Nat /\ x \in Calls
  BY RpcAssumption DEF OutOK, RpcStates
<1>2. CASE r.tailp = None
  BY <1>1, <1>2, AddHeadOK DEF AddHigh
<1>3. CASE r.tailp # None
  <2>1. r.tailp \in Elements(r.out) BY <1>3 DEF OutOK
  <2>2. PICK i \in 1..Len(r.out) : i = Position(r.out, r.tailp) BY <2>1, Positions
  <2>3. PICK u \in Seq(Calls) :
          u = SubSeq(r.out, 1, i) \o <<x>> \o SubSeq(r.out, i + 1, Len(r.out)) /\ Inserted(u, r.out, i, x)
    BY <1>1, InsertBehind
  <2>4. AddHigh(r, x) = Put(r, u, x)
    BY <1>1, <1>3, <2>2, <2>3 DEF AddHigh, RpcStates, Put
  <2>5. i \in 0..Len(r.out) /\ (i = 0 => r.begun = {}) BY <2>2
  <2>6. x # None => x \in High \cap (Elements(r.out) \cup {x}) OBVIOUS
  <2>7. MayPut(r, x, i, u, x) BY <2>3, <2>5, <2>6 DEF MayPut
  <2> QED BY <1>1, <2>4, <2>7, PutOK
<1> QED BY <1>2, <1>3

(* The insertions of rpc_queue_pdu2 keep the run.                          *)
LEMMA QueuedRun ==
  ASSUME NEW r, OutOK(r), NEW x \in Calls, x \notin Elements(r.out), Run(r.out, r.tailp)
  PROVE  /\ x \notin High => Run(AddLow(r, x).out, AddLow(r, x).tailp)
         /\ x \in High => Run(AddHigh(r, x).out, AddHigh(r, x).tailp)
<1>1. r \in RpcStates /\ r.out \in Seq(Calls) /\ r.outlen \in Nat /\ Len(r.out) \in Nat
  BY LenProperties DEF OutOK, RpcStates
<1>2. ASSUME x \notin High PROVE Run(AddLow(r, x).out, AddLow(r, x).tailp)
  <2>1. AddLow(r, x).out = Append(r.out, x) /\ AddLow(r, x).tailp = r.tailp
    BY <1>1 DEF AddLow, RpcStates
  <2> QED BY <1>1, <1>2, <2>1, InsertForms, RunPutLow
<1>3. ASSUME x \in High, r.tailp = None PROVE Run(AddHead(r, x).out, AddHead(r, x).tailp)
  <2>1. \A k \in 1..Len(r.out) : r.out[k] \notin High
    <3>1. ASSUME NEW k \in 1..Len(r.out), r.out[k] \in High PROVE FALSE
      <4>1. PICK l \in k..Len(r.out) : r.out[l] = None BY <1>3, <3>1 DEF Run
      <4>2. l \in 1..Len(r.out) BY <1>1, <4>1
      <4> QED BY <1>1, <4>1, <4>2, RpcAssumption
    <3> QED BY <3>1
  <2>2. CASE r.out = <<>> \/ Head(r.out) \notin r.begun
    <3>1. PICK u \in Seq(Calls) : u = <<x>> \o r.out /\ Inserted(u, r.out, 0, x) BY <1>1, InsertForms
    <3>2. AddHead(r, x).out = u /\ AddHead(r, x).tailp = x
      BY <1>1, <1>3, <2>2, <3>1 DEF AddHead, RpcStates
    <3>3. 0 \in 0..Len(r.out) BY <1>1
    <3>4. \A k \in 2..0 : r.out[k] \in High OBVIOUS
    <3>5. \A k \in (0 + 1)..Len(r.out) : r.out[k] \notin High BY <2>1
    <3> QED BY <1>1, <1>3, <3>1, <3>2, <3>3, <3>4, <3>5, RunPutHigh
  <2>3. CASE r.out # <<>> /\ Head(r.out) \in r.begun
    <3>1. PICK u \in Seq(Calls) : u = <<Head(r.out), x>> \o Tail(r.out) /\ Inserted(u, r.out, 1, x)
      BY <1>1, <2>3, InsertForms
    <3>2. AddHead(r, x).out = u /\ AddHead(r, x).tailp = x
      BY <1>1, <1>3, <2>3, <3>1 DEF AddHead, RpcStates
    <3>3. 1 \in 0..Len(r.out) BY <1>1, <2>3, HeadIs
    <3>4. \A k \in 2..1 : r.out[k] \in High OBVIOUS
    <3>5. \A k \in (1 + 1)..Len(r.out) : r.out[k] \notin High BY <2>1
    <3> QED BY <1>1, <1>3, <3>1, <3>2, <3>3, <3>4, <3>5, RunPutHigh
  <2> QED BY <2>2, <2>3
<1>4. ASSUME x \in High, r.tailp # None PROVE Run(AddHigh(r, x).out, AddHigh(r, x).tailp)
  <2>1. r.tailp \in Elements(r.out) /\ r.tailp \in High BY <1>4 DEF OutOK
  <2>2. PICK i \in 1..Len(r.out) : i = Position(r.out, r.tailp) /\ r.out[i] = r.tailp BY <2>1, Positions
  <2>3. PICK u \in Seq(Calls) :
          u = SubSeq(r.out, 1, i) \o <<x>> \o SubSeq(r.out, i + 1, Len(r.out)) /\ Inserted(u, r.out, i, x)
    BY <1>1, InsertBehind
  <2>4. AddHigh(r, x).out = u /\ AddHigh(r, x).tailp = x
    BY <1>1, <1>4, <2>2, <2>3 DEF AddHigh, RpcStates
  <2>5. i \in 0..Len(r.out) BY <2>2
  <2>6. ASSUME NEW k \in (i + 1)..Len(r.out), r.out[k] \in High PROVE FALSE
    <3>1. k \in 1..Len(r.out) /\ k > i BY <2>6, <1>1
    <3>2. PICK l \in k..Len(r.out) : r.out[l] = r.tailp BY <3>1, <2>6 DEF Run
    <3>3. l \in 1..Len(r.out) /\ l # i BY <3>1, <3>2, <1>1
    <3> QED BY <3>2, <3>3, <2>2 DEF OutOK, Distinct
  <2>7. ASSUME NEW k \in 2..i PROVE r.out[k] \in High
    <3>1. k \in 1..Len(r.out) /\ 1 < k BY <2>7, <1>1
    <3>2. CASE k = i BY <3>2, <2>1, <2>2
    <3>3. CASE k < i BY <3>1, <3>3, <2>1, <2>2 DEF Run
    <3> QED BY <3>2, <3>3, <2>7
  <2> QED BY <1>1, <1>4, <2>3, <2>4, <2>5, <2>6, <2>7, RunPutHigh
<1> QED BY <1>2, <1>3, <1>4 DEF AddHigh

LEMMA ReturnOK ==
  ASSUME NEW r, OutOK(r), NEW x \in Calls, x \notin Elements(r.out)
  PROVE  /\ OutOK(Return(r, x)) /\ Elements(Return(r, x).out) = Elements(r.out) \cup {x}
         /\ Return(r, x).begun = r.begun /\ SameRest(Return(r, x), r)
<1>1. PICK s : s = AddHead(r, x) OBVIOUS
<1>2. OutOK(s) /\ Elements(s.out) = Elements(r.out) \cup {x} /\ s.begun = r.begun /\ SameRest(s, r)
  BY <1>1, AddHeadOK
<1>3. PICK t : t = Return(r, x) OBVIOUS
<1>4. t = [s EXCEPT !.again = @ \cup {x}, !.begun = @ \ {x}] BY <1>1, <1>3 DEF Return
<1>5. s \in RpcStates /\ r \in RpcStates BY <1>2 DEF OutOK
<1>6. /\ t \in RpcStates /\ t.out = s.out /\ t.tailp = s.tailp /\ t.outlen = s.outlen
      /\ t.begun = s.begun \ {x} /\ SameRest(t, s)
  BY <1>4, <1>5 DEF RpcStates, SameRest
<1>7. x \notin r.begun
  <2>1. r.out \in Seq(Calls) BY <1>5 DEF RpcStates
  <2> QED BY <2>1, HeadIs DEF OutOK
<1>8. t.begun = s.begun BY <1>2, <1>6, <1>7
<1>9. OutOK(t) BY <1>2, <1>6, <1>8 DEF OutOK
<1> QED BY <1>2, <1>3, <1>6, <1>8, <1>9 DEF SameRest

(* The ways out of outqueue: tailp never names a call that has left.       *)
LEMMA TailpWithoutIs ==
  ASSUME NEW r, OutOK(r), NEW x \in Elements(r.out), NEW i \in 1..Len(r.out), i = Position(r.out, x)
  PROVE  /\ TailpWithout(r, x) # None => TailpWithout(r, x) \in High \cap (Elements(r.out) \ {x})
         /\ r.tailp # x => TailpWithout(r, x) = r.tailp
         /\ r.tailp = x /\ i > 1 /\ r.out[i - 1] \in High => TailpWithout(r, x) = r.out[i - 1]
<1>1. r.out \in Seq(Calls) /\ Len(r.out) \in Nat BY LenProperties DEF OutOK, RpcStates
<1>2. r.out[i] = x BY Positions
<1>3. CASE r.tailp # x
  <2>1. TailpWithout(r, x) = r.tailp BY <1>3 DEF TailpWithout
  <2> QED BY <1>3, <2>1 DEF OutOK
<1>4. CASE r.tailp = x
  <2>1. TailpWithout(r, x) = IF i > 1 /\ r.out[i - 1] \in High THEN r.out[i - 1] ELSE None
    BY <1>4 DEF TailpWithout
  <2>2. i > 1 => r.out[i - 1] \in Elements(r.out) \ {x}
    <3>1. ASSUME i > 1 PROVE r.out[i - 1] \in Elements(r.out) \ {x}
      <4>1. i - 1 \in 1..Len(r.out) /\ i - 1 # i BY <3>1, <1>1
      <4>2. r.out[i - 1] # r.out[i] BY <4>1 DEF OutOK, Distinct
      <4> QED BY <4>1, <4>2, <1>2 DEF Elements
    <3> QED BY <3>1
  <2> QED BY <1>4, <2>1, <2>2
<1> QED BY <1>3, <1>4

LEMMA RemoveOutOK ==
  ASSUME NEW r, OutOK(r), NEW x \in Elements(r.out)
  PROVE  /\ OutOK(RemoveOut(r, x)) /\ Elements(RemoveOut(r, x).out) = Elements(r.out) \ {x}
         /\ RemoveOut(r, x).begun = r.begun \ {x} /\ SameRest(RemoveOut(r, x), r)
<1>1. /\ r \in RpcStates /\ r.out \in Seq(Calls) /\ r.outlen = Len(r.out) /\ Len(r.out) \in Nat
      /\ r.begun \subseteq Calls /\ Distinct(r.out)
  BY LenProperties DEF OutOK, RpcStates
<1>2. PICK i \in 1..Len(r.out) : i = Position(r.out, x) /\ r.out[i] = x BY Positions
<1>3. PICK u \in Seq(Calls) : u = Without(r.out, x) /\ Removed(u, r.out, i) BY <1>1, <1>2, WithoutIs
<1>4. Elements(u) = Elements(r.out) \ {x} /\ Distinct(u) BY <1>1, <1>2, <1>3, RemovedMembers
<1>5. PICK p : p = TailpWithout(r, x) OBVIOUS
<1>6. p # None => p \in High \cap Elements(u) BY <1>2, <1>4, <1>5, TailpWithoutIs
<1>7. p \in Calls \cup {None} BY <1>6, RpcAssumption
<1>8. PICK m \in Nat : m = r.outlen - 1
  <2>1. Len(r.out) - 1 \in Nat BY <1>1, <1>2
  <2> QED BY <2>1, <1>1
<1>9. PICK t : t = RemoveOut(r, x) OBVIOUS
<1>10. t = [r EXCEPT !.out = u, !.tailp = p, !.outlen = m, !.begun = r.begun \ {x}]
  BY <1>1, <1>3, <1>5, <1>8, <1>9 DEF RemoveOut, RpcStates
<1>11. /\ t \in RpcStates /\ t.out = u /\ t.tailp = p /\ t.outlen = m /\ t.begun = r.begun \ {x}
       /\ SameRest(t, r)
  BY <1>1, <1>7, <1>10 DEF RpcStates, SameRest
<1>12. m = Len(u) BY <1>1, <1>3, <1>8 DEF Removed
<1>13. t.begun \subseteq (IF u = <<>> THEN {} ELSE {Head(u)})
  <2>0. r.out # <<>> /\ Head(r.out) = r.out[1] /\ r.begun \subseteq {Head(r.out)}
    <3>1. r.out # <<>> BY <1>1, <1>2, HeadIs
    <3> QED BY <3>1, <1>1, HeadIs DEF OutOK
  <2>1. CASE i = 1
    <3>1. r.begun \subseteq {x} BY <2>0, <2>1, <1>2
    <3> QED BY <3>1, <1>11
  <2>2. CASE i > 1
    <3>1. Len(u) > 0 /\ 1 \in 1..(i - 1) BY <2>2, <1>1, <1>2, <1>3 DEF Removed
    <3>2. u[1] = r.out[1] BY <3>1, <1>3 DEF Removed
    <3>3. u # <<>> /\ Head(u) = u[1] BY <3>1, HeadIs
    <3> QED BY <3>2, <3>3, <2>0, <1>11
  <2> QED BY <2>1, <2>2, <1>2
<1>14. OutOK(t) BY <1>4, <1>6, <1>11, <1>12, <1>13 DEF OutOK
<1> QED BY <1>4, <1>9, <1>11, <1>14

(* A removal leaves the run closed, and tailp at its end.                  *)
LEMMA RemoveOutRun ==
  ASSUME NEW r, OutOK(r), NEW x \in Elements(r.out), Run(r.out, r.tailp)
  PROVE  Run(RemoveOut(r, x).out, RemoveOut(r, x).tailp)
<1>1. /\ r \in RpcStates /\ r.out \in Seq(Calls) /\ Len(r.out) \in Nat /\ Distinct(r.out)
  BY LenProperties DEF OutOK, RpcStates
<1>2. PICK i \in 1..Len(r.out) : i = Position(r.out, x) /\ r.out[i] = x BY Positions
<1>3. PICK u \in Seq(Calls) : u = Without(r.out, x) /\ Removed(u, r.out, i) BY <1>1, <1>2, WithoutIs
<1>4. PICK q : q = TailpWithout(r, x) OBVIOUS
<1>5. RemoveOut(r, x).out = u /\ RemoveOut(r, x).tailp = q
  BY <1>1, <1>3, <1>4 DEF RemoveOut, RpcStates
<1>6. /\ Len(u) = Len(r.out) - 1
      /\ \A k \in 1..(i - 1) : u[k] = r.out[k]
      /\ \A k \in (i + 1)..Len(r.out) : u[k - 1] = r.out[k]
  BY <1>3 DEF Removed
<1> DEFINE old(m) == IF m < i THEN m ELSE m + 1
<1>7. ASSUME NEW m \in 1..Len(u)
      PROVE  old(m) \in 1..Len(r.out) /\ old(m) # i /\ u[m] = r.out[old(m)] /\ old(m) >= m
  <2>1. CASE m < i BY <2>1, <1>1, <1>6
  <2>2. CASE m >= i
    <3>1. m + 1 \in (i + 1)..Len(r.out) /\ (m + 1) - 1 = m BY <2>2, <1>1, <1>6
    <3>2. u[m] = r.out[m + 1] BY <3>1, <1>6
    <3> QED BY <3>1, <3>2, <2>2
  <2> QED BY <2>1, <2>2
<1>8. ASSUME NEW k \in 1..Len(u), NEW j \in 1..Len(u), 1 < k, k < j, u[j] \in High PROVE u[k] \in High
  <2>1. old(k) \in 1..Len(r.out) /\ old(j) \in 1..Len(r.out) /\ u[k] = r.out[old(k)] /\ u[j] = r.out[old(j)]
    BY <1>7
  <2>2. 1 < old(k) /\ old(k) < old(j) BY <1>8
  <2> HIDE DEF old
  <2> QED BY <2>1, <2>2, <1>8 DEF Run
<1>9. ASSUME NEW j \in 1..Len(u), u[j] \in High PROVE \E k \in j..Len(u) : u[k] = q
  <2>1. PICK n \in 1..Len(r.out) : n = old(j) /\ n # i /\ r.out[n] \in High /\ n >= j BY <1>7, <1>9
  <2>2. PICK k \in n..Len(r.out) : r.out[k] = r.tailp BY <2>1 DEF Run
  <2>3. CASE r.tailp # x
    <3>1. k # i BY <2>2, <2>3, <1>2
    <3>2. q = r.tailp BY <2>3, <1>2, <1>4, TailpWithoutIs
    <3>3. CASE k < i
      <4>1. k \in j..Len(u) /\ k \in 1..(i - 1) BY <3>3, <2>1, <2>2, <1>1, <1>2, <1>6
      <4> QED BY <4>1, <3>2, <2>2, <1>6
    <3>4. CASE k > i
      <4>1. k \in (i + 1)..Len(r.out) BY <3>4, <2>2, <1>1
      <4>2. k - 1 >= j
        <5>1. CASE n < i BY <5>1, <3>4, <2>1
        <5>2. CASE n > i
          <6>1. n = j + 1 BY <5>2, <2>1
          <6> QED BY <6>1, <2>2
        <5> QED BY <5>1, <5>2, <2>1
      <4>3. k - 1 \in j..Len(u) BY <4>1, <4>2, <1>1, <1>6
      <4> QED BY <4>1, <4>3, <3>2, <2>2, <1>6
    <3> QED BY <3>1, <3>3, <3>4, <2>2
  <2>4. CASE r.tailp = x
    <3>1. k \in 1..Len(r.out) BY <2>1, <2>2
    <3>2. k = i BY <3>1, <2>2, <2>4, <1>1, <1>2 DEF Distinct
    <3>3. n < i /\ n = j BY <3>2, <2>1, <2>2
    <3>4. i - 1 \in 1..Len(r.out) /\ i > 1 /\ i - 1 >= n BY <3>3, <1>2
    <3>5. r.out[i - 1] \in High
      <4>1. CASE n = i - 1 BY <4>1, <2>1
      <4>2. CASE n < i - 1
        <5>1. x \in High
          <6>1. x \in Calls BY <1>1, <1>2
          <6>2. x # None BY <6>1, RpcAssumption
          <6> QED BY <6>2, <2>4 DEF OutOK
        <5>2. 1 < i - 1 /\ i - 1 < i BY <4>2, <2>1
        <5> QED BY <5>1, <5>2, <3>4, <1>2 DEF Run
      <4> QED BY <4>1, <4>2, <3>4
    <3>6. q = r.out[i - 1] BY <3>4, <3>5, <2>4, <1>2, <1>4, TailpWithoutIs
    <3>7. i - 1 \in j..Len(u) /\ i - 1 \in 1..(i - 1) BY <3>3, <3>4, <1>1, <1>2, <1>6
    <3> QED BY <3>6, <3>7, <1>6
  <2> QED BY <2>3, <2>4
<1> HIDE DEF old
<1> QED BY <1>5, <1>8, <1>9 DEF Run

(* waitpdu and its counter.                                                *)
WaitOK(r) == r \in RpcStates /\ Distinct(r.wait) /\ r.waitlen = Len(r.wait)

(* t is r without the call x of its waitpdu.                               *)
WaitRemoved(t, r, x) ==
  /\ OutOK(t) /\ WaitOK(t) /\ Elements(t.wait) = Elements(r.wait) \ {x} /\ Len(t.wait) <= Len(r.wait)
  /\ t.out = r.out /\ t.tailp = r.tailp /\ t.begun = r.begun /\ t.pdu = r.pdu /\ t.phase = r.phase

LEMMA RemoveWaitOK ==
  ASSUME NEW r, OutOK(r), WaitOK(r), NEW x \in Elements(r.wait)
  PROVE  WaitRemoved(RemoveWait(r, x), r, x)
<1>1. /\ r \in RpcStates /\ r.wait \in Seq(Calls) /\ r.waitlen = Len(r.wait) /\ Len(r.wait) \in Nat
      /\ Distinct(r.wait)
  BY LenProperties DEF WaitOK, RpcStates
<1>2. PICK i \in 1..Len(r.wait) : i = Position(r.wait, x) /\ r.wait[i] = x BY Positions
<1>3. PICK u \in Seq(Calls) : u = Without(r.wait, x) /\ Removed(u, r.wait, i) BY <1>1, <1>2, WithoutIs
<1>4. Elements(u) = Elements(r.wait) \ {x} /\ Distinct(u) BY <1>1, <1>2, <1>3, RemovedMembers
<1>8. PICK m \in Nat : m = r.waitlen - 1
  <2>1. Len(r.wait) - 1 \in Nat BY <1>1, <1>2
  <2> QED BY <2>1, <1>1
<1>9. PICK t : t = RemoveWait(r, x) OBVIOUS
<1>10. t = [r EXCEPT !.wait = u, !.waitlen = m]
  BY <1>1, <1>3, <1>8, <1>9 DEF RemoveWait, RpcStates
<1>11. /\ t \in RpcStates /\ t.wait = u /\ t.waitlen = m /\ t.out = r.out /\ t.tailp = r.tailp
       /\ t.outlen = r.outlen /\ t.begun = r.begun /\ t.pdu = r.pdu /\ t.phase = r.phase
  BY <1>1, <1>10 DEF RpcStates
<1>12. m = Len(u) /\ Len(u) <= Len(r.wait) BY <1>1, <1>3, <1>8 DEF Removed
<1>13. OutOK(t) BY <1>11 DEF OutOK
<1>14. WaitOK(t) BY <1>4, <1>11, <1>12 DEF WaitOK
<1>15. WaitRemoved(t, r, x) BY <1>4, <1>11, <1>12, <1>13, <1>14 DEF WaitRemoved
<1> QED BY <1>9, <1>15

------------------------------------------------------------------------------
(* The three loops.  The function each is defined by exists, and has a     *)
(* loop invariant.                                                         *)

ReturnFcn(f, b, w, n) == f = [i \in 0..n |-> IF i = 0 THEN b ELSE Return(f[i - 1], w[i])]

LEMMA ReturnFcnExists ==
  ASSUME NEW b, NEW w, NEW n \in Nat
  PROVE  \E f : ReturnFcn(f, b, w, n)
<1> DEFINE P == {k \in Nat : \E f : ReturnFcn(f, b, w, k)}
<1>1. 0 \in P
  <2>1. ReturnFcn([i \in 0..0 |-> b], b, w, 0) BY DEF ReturnFcn
  <2> QED BY <2>1
<1>2. ASSUME NEW k \in 1..n, k - 1 \in P PROVE k \in P
  <2>1. PICK f : ReturnFcn(f, b, w, k - 1) BY <1>2
  <2>2. PICK g : g = [i \in 0..k |-> IF i = k THEN Return(f[k - 1], w[k]) ELSE f[i]] OBVIOUS
  <2>3. \A i \in 0..k : g[i] = IF i = k THEN Return(f[k - 1], w[k]) ELSE f[i] BY <2>2
  <2>4. ASSUME NEW i \in 0..k PROVE g[i] = IF i = 0 THEN b ELSE Return(g[i - 1], w[i])
    <3>1. CASE i = k
      <4>1. k - 1 \in 0..k /\ k - 1 # k OBVIOUS
      <4>2. i # 0 BY <3>1
      <4>3. g[k - 1] = f[k - 1] BY <2>3, <4>1
      <4> QED BY <2>3, <3>1, <4>2, <4>3
    <3>2. CASE i < k
      <4>1. i \in 0..(k - 1) /\ i # k BY <3>2
      <4>2. f[i] = IF i = 0 THEN b ELSE Return(f[i - 1], w[i]) BY <2>1, <4>1 DEF ReturnFcn
      <4>3. i # 0 => i - 1 \in 0..k /\ i - 1 # k BY <3>2
      <4>4. i # 0 => g[i - 1] = f[i - 1] BY <2>3, <4>3
      <4> QED BY <2>3, <4>1, <4>2, <4>4
    <3> QED BY <3>1, <3>2
  <2>5. g = [i \in 0..k |-> IF i = 0 THEN b ELSE Return(g[i - 1], w[i])] BY <2>2, <2>4
  <2>6. ReturnFcn(g, b, w, k) BY <2>5 DEF ReturnFcn
  <2> QED BY <2>6
<1> HIDE DEF P
<1>3. n \in P BY <1>1, <1>2, UpTo
<1> QED BY <1>3 DEF P

(* One turn of each scan, and the function that repeats it.                *)
OutStep(s, x, late) == IF x \in late /\ ~Kept(x) THEN RemoveOut(s, x) ELSE s
ScanOutFcn(f, r, late, n) == f = [i \in 0..n |-> IF i = 0 THEN r ELSE OutStep(f[i - 1], r.out[i], late)]

LEMMA ScanOutFcnExists ==
  ASSUME NEW r, NEW late, NEW n \in Nat
  PROVE  \E f : ScanOutFcn(f, r, late, n)
<1> DEFINE P == {k \in Nat : \E f : ScanOutFcn(f, r, late, k)}
<1>1. 0 \in P
  <2>1. ScanOutFcn([i \in 0..0 |-> r], r, late, 0) BY DEF ScanOutFcn
  <2> QED BY <2>1
<1>2. ASSUME NEW k \in 1..n, k - 1 \in P PROVE k \in P
  <2>1. PICK f : ScanOutFcn(f, r, late, k - 1) BY <1>2
  <2>2. PICK g : g = [i \in 0..k |-> IF i = k THEN OutStep(f[k - 1], r.out[k], late) ELSE f[i]] OBVIOUS
  <2>3. \A i \in 0..k : g[i] = IF i = k THEN OutStep(f[k - 1], r.out[k], late) ELSE f[i] BY <2>2
  <2>4. ASSUME NEW i \in 0..k PROVE g[i] = IF i = 0 THEN r ELSE OutStep(g[i - 1], r.out[i], late)
    <3>1. CASE i = k
      <4>1. k - 1 \in 0..k /\ k - 1 # k OBVIOUS
      <4>2. i # 0 BY <3>1
      <4>3. g[k - 1] = f[k - 1] BY <2>3, <4>1
      <4> QED BY <2>3, <3>1, <4>2, <4>3
    <3>2. CASE i < k
      <4>1. i \in 0..(k - 1) /\ i # k BY <3>2
      <4>2. f[i] = IF i = 0 THEN r ELSE OutStep(f[i - 1], r.out[i], late) BY <2>1, <4>1 DEF ScanOutFcn
      <4>3. i # 0 => i - 1 \in 0..k /\ i - 1 # k BY <3>2
      <4>4. i # 0 => g[i - 1] = f[i - 1] BY <2>3, <4>3
      <4> QED BY <2>3, <4>1, <4>2, <4>4
    <3> QED BY <3>1, <3>2
  <2>5. g = [i \in 0..k |-> IF i = 0 THEN r ELSE OutStep(g[i - 1], r.out[i], late)] BY <2>2, <2>4
  <2>6. ScanOutFcn(g, r, late, k) BY <2>5 DEF ScanOutFcn
  <2> QED BY <2>6
<1> HIDE DEF P
<1>3. n \in P BY <1>1, <1>2, UpTo
<1> QED BY <1>3 DEF P

WaitStep(s, x, late) ==
  LET t == RemoveWait(s, x) IN IF x \notin late THEN s ELSE IF Kept(x) THEN Return(t, x) ELSE t

ScanWaitFcn(f, r, late, n) == f = [i \in 0..n |-> IF i = 0 THEN r ELSE WaitStep(f[i - 1], r.wait[i], late)]

LEMMA ScanWaitFcnExists ==
  ASSUME NEW r, NEW late, NEW n \in Nat
  PROVE  \E f : ScanWaitFcn(f, r, late, n)
<1> DEFINE P == {k \in Nat : \E f : ScanWaitFcn(f, r, late, k)}
<1>1. 0 \in P
  <2>1. ScanWaitFcn([i \in 0..0 |-> r], r, late, 0) BY DEF ScanWaitFcn
  <2> QED BY <2>1
<1>2. ASSUME NEW k \in 1..n, k - 1 \in P PROVE k \in P
  <2>1. PICK f : ScanWaitFcn(f, r, late, k - 1) BY <1>2
  <2>2. PICK g : g = [i \in 0..k |-> IF i = k THEN WaitStep(f[k - 1], r.wait[k], late) ELSE f[i]] OBVIOUS
  <2>3. \A i \in 0..k : g[i] = IF i = k THEN WaitStep(f[k - 1], r.wait[k], late) ELSE f[i] BY <2>2
  <2>4. ASSUME NEW i \in 0..k PROVE g[i] = IF i = 0 THEN r ELSE WaitStep(g[i - 1], r.wait[i], late)
    <3>1. CASE i = k
      <4>1. k - 1 \in 0..k /\ k - 1 # k OBVIOUS
      <4>2. i # 0 BY <3>1
      <4>3. g[k - 1] = f[k - 1] BY <2>3, <4>1
      <4> QED BY <2>3, <3>1, <4>2, <4>3
    <3>2. CASE i < k
      <4>1. i \in 0..(k - 1) /\ i # k BY <3>2
      <4>2. f[i] = IF i = 0 THEN r ELSE WaitStep(f[i - 1], r.wait[i], late) BY <2>1, <4>1 DEF ScanWaitFcn
      <4>3. i # 0 => i - 1 \in 0..k /\ i - 1 # k BY <3>2
      <4>4. i # 0 => g[i - 1] = f[i - 1] BY <2>3, <4>3
      <4> QED BY <2>3, <4>1, <4>2, <4>4
    <3> QED BY <3>1, <3>2
  <2>5. g = [i \in 0..k |-> IF i = 0 THEN r ELSE WaitStep(g[i - 1], r.wait[i], late)] BY <2>2, <2>4
  <2>6. ScanWaitFcn(g, r, late, k) BY <2>5 DEF ScanWaitFcn
  <2> QED BY <2>6
<1> HIDE DEF P
<1>3. n \in P BY <1>1, <1>2, UpTo
<1> QED BY <1>3 DEF P

(* The operators of the model are the last values of these functions.      *)
LEMMA ScanOutIs ==
  ASSUME NEW r, NEW late, Len(r.out) \in Nat
  PROVE  \E f : ScanOutFcn(f, r, late, Len(r.out)) /\ ScanOut(r, late) = f[Len(r.out)]
<1>1. ScanOut(r, late) = (CHOOSE f : ScanOutFcn(f, r, late, Len(r.out)))[Len(r.out)]
  BY DEF ScanOut, ScanOutFcn, OutStep
<1> QED BY <1>1, ScanOutFcnExists

LEMMA ScanWaitIs ==
  ASSUME NEW r, NEW late, Len(r.wait) \in Nat
  PROVE  \E f : ScanWaitFcn(f, r, late, Len(r.wait)) /\ ScanWait(r, late) = f[Len(r.wait)]
<1>1. ScanWait(r, late) = (CHOOSE f : ScanWaitFcn(f, r, late, Len(r.wait)))[Len(r.wait)]
  BY DEF ScanWait, ScanWaitFcn, WaitStep
<1> QED BY <1>1, ScanWaitFcnExists

Emptied(s) == [s EXCEPT !.wait = <<>>, !.waitlen = 0]

LEMMA ReturnAllIs ==
  ASSUME NEW r, Len(r.wait) \in Nat
  PROVE  \E f : /\ ReturnFcn(f, [r EXCEPT !.begun = {}, !.phase = "marker"], r.wait, Len(r.wait))
               /\ ReturnAll(r) = IF r.pdu = None THEN Emptied(f[Len(r.wait)])
                                 ELSE [Return(Emptied(f[Len(r.wait)]), r.pdu) EXCEPT !.pdu = None]
<1> DEFINE b == [r EXCEPT !.begun = {}, !.phase = "marker"]
<1>1. PICK f : f = CHOOSE g : ReturnFcn(g, b, r.wait, Len(r.wait)) OBVIOUS
<1>2. ReturnAll(r) = IF r.pdu = None THEN Emptied(f[Len(r.wait)])
                     ELSE [Return(Emptied(f[Len(r.wait)]), r.pdu) EXCEPT !.pdu = None]
  BY <1>1 DEF ReturnAll, ReturnFcn, Emptied
<1> HIDE DEF b
<1>3. ReturnFcn(f, b, r.wait, Len(r.wait)) BY <1>1, ReturnFcnExists
<1> QED BY <1>2, <1>3 DEF b

(* No call is in two of the three places.                                  *)
Apart(r) == /\ Elements(r.out) \cap Elements(r.wait) = {}
            /\ r.pdu \notin Elements(r.out) \cup Elements(r.wait)

(* Everything sent or half read is in outqueue again, nothing of it begun. *)
LEMMA ReturnAllOK ==
  ASSUME NEW r, OutOK(r), WaitOK(r), Apart(r)
  PROVE  LET t == ReturnAll(r) IN
         /\ OutOK(t) /\ t.wait = <<>> /\ t.waitlen = 0 /\ t.begun = {} /\ t.pdu = None /\ t.phase = "marker"
         /\ Elements(t.out) = Elements(r.out) \cup Elements(r.wait) \cup ({r.pdu} \ {None})
<1>1. /\ r \in RpcStates /\ r.wait \in Seq(Calls) /\ r.waitlen = Len(r.wait) /\ Len(r.wait) \in Nat
      /\ Distinct(r.wait) /\ r.pdu \in Calls \cup {None} /\ r.out \in Seq(Calls)
  BY LenProperties DEF WaitOK, RpcStates
<1>2. PICK b : b = [r EXCEPT !.begun = {}, !.phase = "marker"] OBVIOUS
<1>3. PICK f : /\ ReturnFcn(f, b, r.wait, Len(r.wait))
               /\ ReturnAll(r) = IF r.pdu = None THEN Emptied(f[Len(r.wait)])
                                 ELSE [Return(Emptied(f[Len(r.wait)]), r.pdu) EXCEPT !.pdu = None]
  BY <1>1, <1>2, ReturnAllIs
<1>4. /\ b \in RpcStates /\ b.out = r.out /\ b.tailp = r.tailp /\ b.outlen = r.outlen /\ b.begun = {}
      /\ b.wait = r.wait /\ b.waitlen = r.waitlen /\ b.pdu = r.pdu /\ b.phase = "marker"
  BY <1>1, <1>2 DEF RpcStates
<1>5. OutOK(b) BY <1>4 DEF OutOK
<1> DEFINE upto(k) == {r.wait[j] : j \in 1..k}
           Good(k) == /\ OutOK(f[k]) /\ Elements(f[k].out) = Elements(r.out) \cup upto(k)
                      /\ f[k].begun = {} /\ SameRest(f[k], b)
           P == {k \in 0..Len(r.wait) : Good(k)}
<1>6. \A k \in 0..Len(r.wait) : f[k] = IF k = 0 THEN b ELSE Return(f[k - 1], r.wait[k])
  BY <1>3 DEF ReturnFcn
<1>7. 0 \in P
  <2>1. 0 \in 0..Len(r.wait) BY <1>1
  <2>2. f[0] = b BY <1>6, <2>1
  <2>3. upto(0) = {} OBVIOUS
  <2>4. SameRest(b, b) BY DEF SameRest
  <2> HIDE DEF upto
  <2> QED BY <2>1, <2>2, <2>3, <2>4, <1>4, <1>5
<1>8. ASSUME NEW k \in 1..Len(r.wait), k - 1 \in P PROVE k \in P
  <2>1. k \in 0..Len(r.wait) /\ k # 0 /\ k - 1 \in 0..Len(r.wait) BY <1>1
  <2>2. PICK x \in Calls : x = r.wait[k] BY <1>1
  <2>3. f[k] = Return(f[k - 1], x) BY <1>6, <2>1, <2>2
  <2>4. Good(k - 1) BY <1>8
  <2>5. x \notin upto(k - 1)
    <3>1. ASSUME NEW j \in 1..(k - 1), r.wait[j] = x PROVE FALSE
      <4>1. j \in 1..Len(r.wait) /\ j # k BY <1>1, <3>1
      <4> QED BY <4>1, <3>1, <2>2, <1>1 DEF Distinct
    <3> QED BY <3>1
  <2>6. x \notin Elements(r.out) BY <2>2 DEF Apart, Elements
  <2>7. upto(k) = upto(k - 1) \cup {x}
    <3>1. \A j \in 1..k : j \in 1..(k - 1) \/ j = k BY <1>1
    <3>2. \A j \in 1..(k - 1) : j \in 1..k BY <1>1
    <3>3. k \in 1..k BY <1>1
    <3> QED BY <3>1, <3>2, <3>3, <2>2
  <2> HIDE DEF upto
  <2>8. x \notin Elements(f[k - 1].out) BY <2>4, <2>5, <2>6
  <2>9. /\ OutOK(f[k]) /\ Elements(f[k].out) = Elements(f[k - 1].out) \cup {x}
        /\ f[k].begun = {} /\ SameRest(f[k], f[k - 1])
    BY <2>3, <2>4, <2>8, ReturnOK
  <2>10. SameRest(f[k], b) BY <2>4, <2>9 DEF SameRest
  <2>11. Good(k) BY <2>4, <2>7, <2>9, <2>10
  <2> HIDE DEF Good
  <2> QED BY <2>1, <2>11
<1>9. Good(Len(r.wait))
  <2> HIDE DEF P
  <2>1. \A k \in 0..Len(r.wait) : k \in P BY <1>1, <1>7, <1>8, UpTo
  <2>2. Len(r.wait) \in P BY <2>1, <1>1
  <2> HIDE DEF Good
  <2> QED BY <2>2 DEF P
<1>10. upto(Len(r.wait)) = Elements(r.wait) BY DEF Elements
<1>11. PICK l : l = f[Len(r.wait)] OBVIOUS
<1>12. /\ OutOK(l) /\ Elements(l.out) = Elements(r.out) \cup Elements(r.wait)
       /\ l.begun = {} /\ SameRest(l, b)
  <2> HIDE DEF upto, P
  <2> QED BY <1>9, <1>10, <1>11
<1> HIDE DEF Good, P, upto
<1>13. PICK s : s = Emptied(l) OBVIOUS
<1>14. /\ s \in RpcStates /\ s.out = l.out /\ s.tailp = l.tailp /\ s.outlen = l.outlen /\ s.begun = {}
       /\ s.wait = <<>> /\ s.waitlen = 0 /\ s.pdu = r.pdu /\ s.phase = "marker"
  <2>1. l \in RpcStates /\ l.pdu = r.pdu /\ l.phase = "marker" BY <1>4, <1>12 DEF OutOK, SameRest
  <2>2. <<>> \in Seq(Calls) /\ 0 \in Nat OBVIOUS
  <2> QED BY <1>12, <1>13, <2>1, <2>2 DEF Emptied, RpcStates
<1>15. OutOK(s) BY <1>12, <1>14 DEF OutOK
<1>16. CASE r.pdu = None
  <2>1. ReturnAll(r) = s BY <1>3, <1>11, <1>13, <1>16
  <2> QED BY <2>1, <1>12, <1>14, <1>15, <1>16
<1>17. CASE r.pdu # None
  <2>1. r.pdu \in Calls /\ r.pdu \notin Elements(s.out) BY <1>1, <1>12, <1>14, <1>17 DEF Apart
  <2>2. PICK u : u = Return(s, r.pdu) OBVIOUS
  <2>3. /\ OutOK(u) /\ Elements(u.out) = Elements(s.out) \cup {r.pdu} /\ u.begun = s.begun /\ SameRest(u, s)
    BY <2>1, <2>2, <1>15, ReturnOK
  <2>4. ReturnAll(r) = [u EXCEPT !.pdu = None] BY <1>3, <1>11, <1>13, <1>17, <2>2
  <2>5. PICK t : t = ReturnAll(r) OBVIOUS
  <2>6. u \in RpcStates BY <2>3 DEF OutOK
  <2>7. /\ t \in RpcStates /\ t.out = u.out /\ t.tailp = u.tailp /\ t.outlen = u.outlen /\ t.begun = u.begun
        /\ t.wait = u.wait /\ t.waitlen = u.waitlen /\ t.pdu = None /\ t.phase = u.phase
    BY <2>4, <2>5, <2>6 DEF RpcStates
  <2>8. OutOK(t) BY <2>3, <2>7 DEF OutOK
  <2>9. Elements(t.out) = Elements(r.out) \cup Elements(r.wait) \cup ({r.pdu} \ {None})
    BY <2>3, <2>7, <1>12, <1>14, <1>17
  <2>10. t.wait = <<>> /\ t.waitlen = 0 /\ t.begun = {} /\ t.pdu = None /\ t.phase = "marker"
    BY <2>3, <2>7, <1>14 DEF SameRest
  <2> QED BY <2>5, <2>8, <2>9, <2>10
<1> QED BY <1>16, <1>17

(* The expired calls of outqueue that are given up leave it.               *)
LEMMA ScanOutOK ==
  ASSUME NEW r, OutOK(r), NEW late
  PROVE  LET t == ScanOut(r, late) IN
         /\ OutOK(t) /\ SameRest(t, r)
         /\ Elements(t.out) = {x \in Elements(r.out) : x \notin late \/ Kept(x)}
         /\ r.begun \cap Elements(t.out) \subseteq t.begun
         /\ Run(r.out, r.tailp) => Run(t.out, t.tailp)
<1>1. r \in RpcStates /\ r.out \in Seq(Calls) /\ Len(r.out) \in Nat /\ Distinct(r.out)
  BY LenProperties DEF OutOK, RpcStates
<1>2. PICK f : ScanOutFcn(f, r, late, Len(r.out)) /\ ScanOut(r, late) = f[Len(r.out)] BY <1>1, ScanOutIs
<1>3. \A k \in 0..Len(r.out) : f[k] = IF k = 0 THEN r ELSE OutStep(f[k - 1], r.out[k], late)
  BY <1>2 DEF ScanOutFcn
<1> DEFINE given(k) == {j \in 1..k : r.out[j] \in late /\ ~Kept(r.out[j])}
           gone(k) == {r.out[j] : j \in given(k)}
           Good(k) == /\ OutOK(f[k]) /\ SameRest(f[k], r) /\ Elements(f[k].out) = Elements(r.out) \ gone(k)
                      /\ r.begun \cap Elements(f[k].out) \subseteq f[k].begun
                      /\ Run(r.out, r.tailp) => Run(f[k].out, f[k].tailp)
           P == {k \in 0..Len(r.out) : Good(k)}
<1>4. 0 \in P
  <2>1. 0 \in 0..Len(r.out) BY <1>1
  <2>2. f[0] = r BY <1>3, <2>1
  <2>3. gone(0) = {} OBVIOUS
  <2>4. SameRest(r, r) BY DEF SameRest
  <2> HIDE DEF gone
  <2> QED BY <2>1, <2>2, <2>3, <2>4
<1>5. ASSUME NEW k \in 1..Len(r.out), k - 1 \in P PROVE k \in P
  <2>1. k \in 0..Len(r.out) /\ k # 0 /\ k - 1 \in 0..Len(r.out) BY <1>1
  <2>2. PICK x \in Calls : x = r.out[k] BY <1>1
  <2>3. f[k] = OutStep(f[k - 1], x, late) BY <1>3, <2>1, <2>2
  <2>4. Good(k - 1) BY <1>5
  <2>5. x \in Elements(r.out) BY <2>2 DEF Elements
  <2>6. x \notin gone(k - 1)
    <3>1. ASSUME NEW j \in 1..(k - 1), r.out[j] = x PROVE FALSE
      <4>1. j \in 1..Len(r.out) /\ j # k BY <1>1, <3>1
      <4> QED BY <4>1, <3>1, <2>2, <1>1 DEF Distinct
    <3> QED BY <3>1
  <2>7. \A j \in 1..k : j \in 1..(k - 1) \/ j = k BY <1>1
  <2>8. (\A j \in 1..(k - 1) : j \in 1..k) /\ k \in 1..k BY <1>1
  <2>9. CASE x \in late /\ ~Kept(x)
    <3>1. gone(k) = gone(k - 1) \cup {x} BY <2>2, <2>7, <2>8, <2>9
    <3> HIDE DEF gone
    <3>2. x \in Elements(f[k - 1].out) BY <2>4, <2>5, <2>6
    <3>3. f[k] = RemoveOut(f[k - 1], x) BY <2>3, <2>9 DEF OutStep
    <3>4. /\ OutOK(f[k]) /\ Elements(f[k].out) = Elements(f[k - 1].out) \ {x}
          /\ f[k].begun = f[k - 1].begun \ {x} /\ SameRest(f[k], f[k - 1])
      BY <2>4, <3>2, <3>3, RemoveOutOK
    <3>5. Run(r.out, r.tailp) => Run(f[k].out, f[k].tailp) BY <2>4, <3>2, <3>3, RemoveOutRun
    <3>6. SameRest(f[k], r) BY <2>4, <3>4 DEF SameRest
    <3>7. Elements(f[k].out) = Elements(r.out) \ gone(k) BY <2>4, <3>1, <3>4
    <3>8. r.begun \cap Elements(f[k].out) \subseteq f[k].begun BY <2>4, <3>4
    <3> QED BY <2>1, <3>4, <3>5, <3>6, <3>7, <3>8
  <2>10. CASE ~(x \in late /\ ~Kept(x))
    <3>1. gone(k) = gone(k - 1) BY <2>2, <2>7, <2>8, <2>10
    <3> HIDE DEF gone
    <3>2. f[k] = f[k - 1] BY <2>3, <2>10 DEF OutStep
    <3> QED BY <2>1, <2>4, <3>1, <3>2
  <2> QED BY <2>9, <2>10
<1>6. Good(Len(r.out))
  <2> HIDE DEF P
  <2>1. \A k \in 0..Len(r.out) : k \in P BY <1>1, <1>4, <1>5, UpTo
  <2>2. Len(r.out) \in P BY <2>1, <1>1
  <2> HIDE DEF Good
  <2> QED BY <2>2 DEF P
<1>7. gone(Len(r.out)) = {x \in Elements(r.out) : x \in late /\ ~Kept(x)} BY DEF Elements
<1> HIDE DEF gone, P
<1> QED BY <1>2, <1>6, <1>7

(* The expired calls of waitpdu leave it, for outqueue or for good.        *)
WaitScanned(t, r, late) ==
  /\ OutOK(t) /\ WaitOK(t) /\ t.pdu = r.pdu /\ t.phase = r.phase /\ t.begun = r.begun
  /\ Elements(t.wait) = Elements(r.wait) \ late /\ Len(t.wait) <= Len(r.wait)
  /\ Elements(t.out) = Elements(r.out) \cup {x \in Elements(r.wait) : x \in late /\ Kept(x)}
  /\ mode.retrans = 0 => t.out = r.out /\ t.tailp = r.tailp

LEMMA ScanWaitOK ==
  ASSUME NEW r, OutOK(r), WaitOK(r), Elements(r.out) \cap Elements(r.wait) = {}, NEW late
  PROVE  WaitScanned(ScanWait(r, late), r, late)
<1>1. r \in RpcStates /\ r.wait \in Seq(Calls) /\ Len(r.wait) \in Nat /\ Distinct(r.wait)
  BY LenProperties DEF WaitOK, RpcStates
<1>2. PICK f : ScanWaitFcn(f, r, late, Len(r.wait)) /\ ScanWait(r, late) = f[Len(r.wait)] BY <1>1, ScanWaitIs
<1>3. \A k \in 0..Len(r.wait) : f[k] = IF k = 0 THEN r ELSE WaitStep(f[k - 1], r.wait[k], late)
  BY <1>2 DEF ScanWaitFcn
<1> DEFINE scanned(k) == {j \in 1..k : r.wait[j] \in late}
           gone(k) == {r.wait[j] : j \in scanned(k)}
           Good(k) == /\ OutOK(f[k]) /\ WaitOK(f[k]) /\ f[k].pdu = r.pdu /\ f[k].phase = r.phase
                      /\ f[k].begun = r.begun
                      /\ Elements(f[k].wait) = Elements(r.wait) \ gone(k) /\ Len(f[k].wait) <= Len(r.wait)
                      /\ Elements(f[k].out) = Elements(r.out) \cup {x \in gone(k) : Kept(x)}
                      /\ mode.retrans = 0 => f[k].out = r.out /\ f[k].tailp = r.tailp
           P == {k \in 0..Len(r.wait) : Good(k)}
<1>4. 0 \in P
  <2>1. 0 \in 0..Len(r.wait) BY <1>1
  <2>2. f[0] = r BY <1>3, <2>1
  <2>3. gone(0) = {} OBVIOUS
  <2> HIDE DEF gone
  <2>4. Len(r.wait) <= Len(r.wait) BY <1>1
  <2> QED BY <2>1, <2>2, <2>3, <2>4
<1>5. ASSUME NEW k \in 1..Len(r.wait), k - 1 \in P PROVE k \in P
  <2>1. k \in 0..Len(r.wait) /\ k # 0 /\ k - 1 \in 0..Len(r.wait) BY <1>1
  <2>2. PICK x \in Calls : x = r.wait[k] BY <1>1
  <2>3. f[k] = WaitStep(f[k - 1], x, late) BY <1>3, <2>1, <2>2
  <2>4. Good(k - 1) BY <1>5
  <2>5. x \in Elements(r.wait) BY <2>2 DEF Elements
  <2>6. x \notin gone(k - 1)
    <3>1. ASSUME NEW j \in 1..(k - 1), r.wait[j] = x PROVE FALSE
      <4>1. j \in 1..Len(r.wait) /\ j # k BY <1>1, <3>1
      <4> QED BY <4>1, <3>1, <2>2, <1>1 DEF Distinct
    <3> QED BY <3>1
  <2>7. \A j \in 1..k : j \in 1..(k - 1) \/ j = k BY <1>1
  <2>8. (\A j \in 1..(k - 1) : j \in 1..k) /\ k \in 1..k BY <1>1
  <2>9. CASE x \in late
    <3>1. gone(k) = gone(k - 1) \cup {x} BY <2>2, <2>7, <2>8, <2>9
    <3> HIDE DEF gone
    <3>2. x \in Elements(f[k - 1].wait) BY <2>4, <2>5, <2>6
    <3>3. PICK s : s = RemoveWait(f[k - 1], x) OBVIOUS
    <3>4. PICK g : g = f[k - 1] OBVIOUS
    <3>5. /\ OutOK(g) /\ WaitOK(g) /\ g.pdu = r.pdu /\ g.phase = r.phase
          /\ g.begun = r.begun
          /\ Elements(g.wait) = Elements(r.wait) \ gone(k - 1) /\ Len(g.wait) <= Len(r.wait)
          /\ Elements(g.out) = Elements(r.out) \cup {y \in gone(k - 1) : Kept(y)}
          /\ mode.retrans = 0 => g.out = r.out /\ g.tailp = r.tailp
      BY <2>4, <3>4
    <3> HIDE DEF Good, P
    <3>6. /\ OutOK(s) /\ WaitOK(s) /\ Elements(s.wait) = Elements(g.wait) \ {x} /\ Len(s.wait) <= Len(g.wait)
          /\ s.out = g.out /\ s.tailp = g.tailp /\ s.begun = g.begun /\ s.pdu = g.pdu /\ s.phase = g.phase
      <4>1. WaitRemoved(s, g, x) BY <3>2, <3>3, <3>4, <3>5, RemoveWaitOK
      <4> QED BY <4>1 DEF WaitRemoved
    <3>7. Elements(s.wait) = Elements(r.wait) \ gone(k) BY <3>1, <3>5, <3>6
    <3>8. Len(s.wait) <= Len(r.wait)
      <4>1. s.wait \in Seq(Calls) /\ g.wait \in Seq(Calls) BY <3>5, <3>6 DEF OutOK, RpcStates
      <4>2. Len(s.wait) \in Nat /\ Len(g.wait) \in Nat BY <4>1, LenProperties
      <4> QED BY <4>2, <3>5, <3>6, <1>1
    <3>9. CASE Kept(x)
      <4>1. f[k] = Return(s, x) BY <2>3, <2>9, <3>3, <3>4, <3>9 DEF WaitStep
      <4>2. x \notin Elements(s.out)
        <5>1. x \notin Elements(r.out) BY <2>5
        <5> QED BY <5>1, <2>6, <3>5, <3>6
      <4>3. PICK t : t = f[k] OBVIOUS
      <4>4. /\ OutOK(t) /\ Elements(t.out) = Elements(s.out) \cup {x} /\ t.begun = s.begun /\ SameRest(t, s)
        BY <4>1, <4>2, <4>3, <3>6, ReturnOK
      <4>5. t.wait = s.wait /\ t.waitlen = s.waitlen /\ t.pdu = s.pdu /\ t.phase = s.phase /\ t \in RpcStates
        BY <4>4 DEF SameRest, OutOK
      <4>6. WaitOK(t) BY <4>5, <3>6 DEF WaitOK
      <4>7. Elements(t.out) = Elements(r.out) \cup {y \in gone(k) : Kept(y)} BY <4>4, <3>1, <3>5, <3>6, <3>9
      <4>8. mode.retrans # 0 BY <3>9 DEF Kept
      <4>9. Good(k) BY <4>3, <4>4, <4>5, <4>6, <4>7, <4>8, <3>5, <3>6, <3>7, <3>8 DEF Good
      <4> QED BY <4>9, <2>1 DEF P
    <3>10. CASE ~Kept(x)
      <4>1. f[k] = s BY <2>3, <2>9, <3>3, <3>4, <3>10 DEF WaitStep
      <4>2. Elements(s.out) = Elements(r.out) \cup {y \in gone(k) : Kept(y)} BY <3>1, <3>5, <3>6, <3>10
      <4>3. Good(k) BY <4>1, <4>2, <3>5, <3>6, <3>7, <3>8 DEF Good
      <4> QED BY <4>3, <2>1 DEF P
    <3> QED BY <3>9, <3>10
  <2>10. CASE x \notin late
    <3>1. gone(k) = gone(k - 1) BY <2>2, <2>7, <2>8, <2>10
    <3> HIDE DEF gone
    <3>2. f[k] = f[k - 1] BY <2>3, <2>10 DEF WaitStep
    <3> QED BY <2>1, <2>4, <3>1, <3>2
  <2> QED BY <2>9, <2>10
<1>6. Good(Len(r.wait))
  <2> HIDE DEF P
  <2>1. \A k \in 0..Len(r.wait) : k \in P BY <1>1, <1>4, <1>5, UpTo
  <2>2. Len(r.wait) \in P BY <2>1, <1>1
  <2> HIDE DEF Good
  <2> QED BY <2>2 DEF P
<1>7. gone(Len(r.wait)) = {x \in Elements(r.wait) : x \in late} BY DEF Elements
<1> HIDE DEF gone, P
<1>8. /\ Elements(r.wait) \ gone(Len(r.wait)) = Elements(r.wait) \ late
      /\ {x \in gone(Len(r.wait)) : Kept(x)} = {x \in Elements(r.wait) : x \in late /\ Kept(x)}
  BY <1>7
<1>9. PICK t : t = f[Len(r.wait)] OBVIOUS
<1>10. /\ OutOK(t) /\ WaitOK(t) /\ t.pdu = r.pdu /\ t.phase = r.phase /\ t.begun = r.begun
       /\ Elements(t.wait) = Elements(r.wait) \ gone(Len(r.wait)) /\ Len(t.wait) <= Len(r.wait)
       /\ Elements(t.out) = Elements(r.out) \cup {x \in gone(Len(r.wait)) : Kept(x)}
       /\ mode.retrans = 0 => t.out = r.out /\ t.tailp = r.tailp
  BY <1>6, <1>9
<1> HIDE DEF Good
<1>11. WaitScanned(t, r, late) BY <1>8, <1>10 DEF WaitScanned
<1> QED BY <1>2, <1>9, <1>11

(* A prefix of outqueue moves to the end of waitpdu.                       *)
LEMMA Split ==
  ASSUME NEW s \in Seq(Calls), NEW n \in 0..Len(s)
  PROVE  /\ SubSeq(s, 1, n) \in Seq(Calls) /\ Len(SubSeq(s, 1, n)) = n
         /\ \A k \in 1..n : SubSeq(s, 1, n)[k] = s[k]
         /\ SubSeq(s, n + 1, Len(s)) \in Seq(Calls) /\ Len(SubSeq(s, n + 1, Len(s))) = Len(s) - n
         /\ \A k \in 1..(Len(s) - n) : SubSeq(s, n + 1, Len(s))[k] = s[n + k]
<1>1. Len(s) \in Nat BY LenProperties
<1>2. SubSeq(s, 1, n) \in Seq(Calls) /\ Len(SubSeq(s, 1, n)) = n /\ \A k \in 1..n : SubSeq(s, 1, n)[k] = s[k]
  BY <1>1, SubSeqProperties
<1>3. /\ SubSeq(s, n + 1, Len(s)) \in Seq(Calls) /\ Len(SubSeq(s, n + 1, Len(s))) = Len(s) - n
      /\ \A k \in 1..(Len(s) - n) : SubSeq(s, n + 1, Len(s))[k] = s[n + k]
  BY <1>1, SubSeqProperties
<1> QED BY <1>2, <1>3

(* A split and a join keep the members, and keep them distinct.            *)
LEMMA SplitMembers ==
  ASSUME NEW s \in Seq(Calls), Distinct(s), NEW n \in 0..Len(s)
  PROVE  /\ Distinct(SubSeq(s, 1, n)) /\ Distinct(SubSeq(s, n + 1, Len(s)))
         /\ Elements(SubSeq(s, 1, n)) \cup Elements(SubSeq(s, n + 1, Len(s))) = Elements(s)
         /\ Elements(SubSeq(s, 1, n)) \cap Elements(SubSeq(s, n + 1, Len(s))) = {}
<1>a. PICK a \in Seq(Calls) : a = SubSeq(s, 1, n) BY Split
<1>b. PICK b \in Seq(Calls) : b = SubSeq(s, n + 1, Len(s)) BY Split
<1>1. /\ Len(s) \in Nat /\ Len(a) = n /\ (\A k \in 1..n : a[k] = s[k])
      /\ Len(b) = Len(s) - n /\ (\A k \in 1..(Len(s) - n) : b[k] = s[n + k])
  BY <1>a, <1>b, Split, LenProperties
<1>2. \A k \in 1..n : k \in 1..Len(s) BY <1>1
<1>3. \A k \in 1..(Len(s) - n) : n + k \in 1..Len(s) /\ n + k > n BY <1>1
<1>4. Distinct(a) BY <1>1, <1>2 DEF Distinct
<1>5. Distinct(b)
  <2>1. SUFFICES ASSUME NEW k \in 1..Len(b), NEW l \in 1..Len(b), b[k] = b[l] PROVE k = l BY DEF Distinct
  <2>2. n + k = n + l
    <3>1. k \in 1..(Len(s) - n) /\ l \in 1..(Len(s) - n) BY <2>1, <1>1
    <3>2. /\ n + k \in 1..Len(s) /\ n + l \in 1..Len(s) /\ b[k] = s[n + k] /\ b[l] = s[n + l]
      BY <3>1, <1>1, <1>3
    <3>3. s[n + k] = s[n + l] BY <3>2, <2>1
    <3> QED BY <3>2, <3>3 DEF Distinct
  <2>3. k \in Int /\ l \in Int /\ n \in Int BY <1>1
  <2> QED BY ONLY <2>2, <2>3
<1>6. Elements(a) \subseteq Elements(s) BY <1>1, <1>2 DEF Elements
<1>7. Elements(b) \subseteq Elements(s)
  <2>1. SUFFICES ASSUME NEW e \in Elements(b) PROVE e \in Elements(s) OBVIOUS
  <2>2. PICK k \in 1..Len(b) : b[k] = e BY DEF Elements
  <2>3. n + k \in 1..Len(s) /\ s[n + k] = e BY <2>2, <1>1, <1>3
  <2> QED BY <2>3 DEF Elements
<1>8. ASSUME NEW e \in Elements(s) PROVE e \in Elements(a) \cup Elements(b)
  <2>1. PICK k \in 1..Len(s) : s[k] = e BY DEF Elements
  <2>2. CASE k <= n
    <3>1. k \in 1..Len(a) /\ a[k] = e BY <2>1, <2>2, <1>1
    <3> QED BY <3>1 DEF Elements
  <2>3. CASE k > n
    <3>1. k - n \in 1..(Len(s) - n) /\ n + (k - n) = k BY <2>3, <1>1
    <3>2. k - n \in 1..Len(b) /\ b[k - n] = e BY <3>1, <2>1, <1>1
    <3> QED BY <3>2 DEF Elements
  <2> QED BY <2>2, <2>3, <1>1
<1>9. ASSUME NEW e \in Elements(a), e \in Elements(b) PROVE FALSE
  <2>1. PICK k \in 1..Len(a) : a[k] = e BY DEF Elements
  <2>2. PICK l \in 1..Len(b) : b[l] = e BY <1>9 DEF Elements
  <2>3. k \in 1..Len(s) /\ k <= n /\ s[k] = e BY <2>1, <1>1, <1>2
  <2>4. n + l \in 1..Len(s) /\ n + l > n /\ s[n + l] = e BY <2>2, <1>1, <1>3
  <2>5. k = n + l BY <2>3, <2>4 DEF Distinct
  <2> QED BY <2>3, <2>4, <2>5
<1> QED BY <1>a, <1>b, <1>4, <1>5, <1>6, <1>7, <1>8, <1>9

LEMMA JoinedMembers ==
  ASSUME NEW a \in Seq(Calls), Distinct(a), NEW b \in Seq(Calls), Distinct(b), Elements(a) \cap Elements(b) = {}
  PROVE  Distinct(a \o b) /\ Elements(a \o b) = Elements(a) \cup Elements(b)
<1>1. PICK c \in Seq(Calls) : c = a \o b BY Joined
<1>2. /\ Len(a) \in Nat /\ Len(b) \in Nat /\ Len(c) = Len(a) + Len(b)
      /\ (\A k \in 1..Len(a) : c[k] = a[k]) /\ (\A k \in 1..Len(b) : c[Len(a) + k] = b[k])
  BY <1>1, Joined, LenProperties
<1>3. ASSUME NEW k \in 1..Len(c), k > Len(a) PROVE k - Len(a) \in 1..Len(b) /\ c[k] = b[k - Len(a)]
  <2>1. k - Len(a) \in 1..Len(b) /\ Len(a) + (k - Len(a)) = k BY <1>2, <1>3
  <2> QED BY <2>1, <1>2
<1>4. ASSUME NEW k \in 1..Len(c), k <= Len(a) PROVE k \in 1..Len(a) /\ c[k] = a[k]
  BY <1>2, <1>4
<1>5. Elements(c) = Elements(a) \cup Elements(b)
  <2>1. ASSUME NEW e \in Elements(c) PROVE e \in Elements(a) \cup Elements(b)
    <3>1. PICK k \in 1..Len(c) : c[k] = e BY DEF Elements
    <3>2. CASE k <= Len(a) BY <3>1, <3>2, <1>4 DEF Elements
    <3>3. CASE k > Len(a) BY <3>1, <3>3, <1>3 DEF Elements
    <3> QED BY <3>2, <3>3, <1>2
  <2>2. ASSUME NEW e \in Elements(a) PROVE e \in Elements(c)
    <3>1. PICK k \in 1..Len(a) : a[k] = e BY DEF Elements
    <3>2. k \in 1..Len(c) /\ c[k] = e BY <3>1, <1>2
    <3> QED BY <3>2 DEF Elements
  <2>3. ASSUME NEW e \in Elements(b) PROVE e \in Elements(c)
    <3>1. PICK k \in 1..Len(b) : b[k] = e BY DEF Elements
    <3>2. Len(a) + k \in 1..Len(c) /\ c[Len(a) + k] = e BY <3>1, <1>2
    <3> QED BY <3>2 DEF Elements
  <2> QED BY <2>1, <2>2, <2>3
<1>6. Distinct(c)
  <2>1. SUFFICES ASSUME NEW k \in 1..Len(c), NEW l \in 1..Len(c), k <= l, c[k] = c[l] PROVE k = l
    BY <1>2 DEF Distinct
  <2>2. CASE l <= Len(a)
    <3>1. k \in 1..Len(a) /\ l \in 1..Len(a) /\ a[k] = a[l] BY <2>1, <2>2, <1>2
    <3> QED BY <3>1 DEF Distinct
  <2>3. CASE k > Len(a)
    <3>1. l > Len(a) BY <2>1, <2>3, <1>2
    <3>2. k - Len(a) \in 1..Len(b) /\ l - Len(a) \in 1..Len(b) /\ b[k - Len(a)] = b[l - Len(a)]
      BY <2>1, <2>3, <3>1, <1>3
    <3>3. k - Len(a) = l - Len(a) BY <3>2 DEF Distinct
    <3> QED BY <3>3, <1>2
  <2>4. CASE k <= Len(a) /\ l > Len(a)
    <3>1. c[k] \in Elements(a) BY <2>4, <1>4 DEF Elements
    <3>2. c[l] \in Elements(b) BY <2>4, <1>3 DEF Elements
    <3> QED BY <3>1, <3>2, <2>1
  <2> QED BY <2>2, <2>3, <2>4, <1>2
<1> QED BY <1>1, <1>5, <1>6

(* The first n calls of outqueue can be written, and a part of the next;   *)
(* and what that makes of the queues.                                      *)
MayWrite(r, n, part) ==
  /\ OutOK(r) /\ WaitOK(r) /\ Elements(r.out) \cap Elements(r.wait) = {}
  /\ n \in 0..Len(r.out) /\ part \in BOOLEAN /\ (part => n < Len(r.out))

Written(t, r, n, part) ==
  /\ OutOK(t) /\ WaitOK(t) /\ t.pdu = r.pdu /\ t.phase = r.phase
  /\ Len(t.wait) = Len(r.wait) + n
  /\ Elements(t.out) \cup Elements(t.wait) = Elements(r.out) \cup Elements(r.wait)
  /\ Elements(t.out) \cap Elements(t.wait) = {}
  /\ Elements(t.out) \subseteq Elements(r.out)
  /\ n = 0 => Elements(t.wait) = Elements(r.wait) /\ r.begun \subseteq t.begun
  /\ part => r.out[n + 1] \in t.begun
  /\ Run(r.out, r.tailp) => Run(t.out, t.tailp)

LEMMA WroteOK ==
  ASSUME NEW r, NEW n, NEW part, MayWrite(r, n, part)
  PROVE  Written(Wrote(r, n, part), r, n, part)
<1>0. /\ OutOK(r) /\ WaitOK(r) /\ Elements(r.out) \cap Elements(r.wait) = {}
      /\ n \in 0..Len(r.out) /\ part \in BOOLEAN /\ (part => n < Len(r.out))
  BY DEF MayWrite
<1>1. /\ r \in RpcStates /\ r.out \in Seq(Calls) /\ Len(r.out) \in Nat /\ Distinct(r.out) /\ r.outlen = Len(r.out)
      /\ r.wait \in Seq(Calls) /\ Len(r.wait) \in Nat /\ Distinct(r.wait) /\ r.waitlen = Len(r.wait)
      /\ r.begun \subseteq Calls /\ r.tailp \in Calls \cup {None}
  BY <1>0, LenProperties DEF OutOK, WaitOK, RpcStates
<1>2. PICK a \in Seq(Calls) : a = SubSeq(r.out, 1, n) BY <1>0, <1>1, Split
<1>3. PICK b \in Seq(Calls) : b = SubSeq(r.out, n + 1, Len(r.out)) BY <1>0, <1>1, Split
<1>4. /\ Len(a) = n /\ (\A k \in 1..n : a[k] = r.out[k])
      /\ Len(b) = Len(r.out) - n /\ (\A k \in 1..(Len(r.out) - n) : b[k] = r.out[n + k])
  BY <1>0, <1>1, <1>2, <1>3, Split
<1>5. /\ Distinct(a) /\ Distinct(b)
      /\ Elements(a) \cup Elements(b) = Elements(r.out) /\ Elements(a) \cap Elements(b) = {}
  <2>1. PICK s \in Seq(Calls) : s = r.out /\ Distinct(s) /\ n \in 0..Len(s) BY <1>0, <1>1
  <2>2. a = SubSeq(s, 1, n) /\ b = SubSeq(s, n + 1, Len(s)) BY <1>0, <2>1, <1>2, <1>3
  <2>3. /\ Distinct(a) /\ Distinct(b)
        /\ Elements(a) \cup Elements(b) = Elements(s) /\ Elements(a) \cap Elements(b) = {}
    BY <1>0, <2>1, <2>2, SplitMembers
  <2> QED BY <1>0, <2>1, <2>3
<1>6. PICK w \in Seq(Calls) : w = r.wait \o a /\ Len(w) = Len(r.wait) + n
  <2>1. PICK v \in Seq(Calls) : v = r.wait BY <1>0, <1>1
  <2>2. v \o a \in Seq(Calls) /\ Len(v \o a) = Len(v) + Len(a) BY <1>0, Joined
  <2> QED BY <1>0, <2>1, <2>2, <1>4
<1>7. Distinct(w) /\ Elements(w) = Elements(r.wait) \cup Elements(a) BY <1>0, <1>1, <1>5, <1>6, JoinedMembers
<1>8. PICK q : q = IF r.tailp \in Elements(a) THEN None ELSE r.tailp OBVIOUS
<1>9. PICK d : d = (r.begun \ Elements(a)) \cup (IF part THEN {Head(b)} ELSE {}) OBVIOUS
<1>10. PICK t : t = Wrote(r, n, part) OBVIOUS
<1>11. PICK m \in Nat : m = Len(r.out) - n
  <2>1. Len(r.out) - n \in Nat BY <1>0, <1>1
  <2> QED BY <1>0, <2>1
<1>12. PICK v \in Nat : v = Len(r.wait) + n
  <2>1. Len(r.wait) + n \in Nat BY <1>0, <1>1
  <2> QED BY <1>0, <2>1
<1>13. part => b # <<>> /\ Head(b) = r.out[n + 1] /\ Head(b) \in Calls
  <2>1. ASSUME part PROVE b # <<>> /\ Head(b) = r.out[n + 1] /\ Head(b) \in Calls
    <3>1. 1 \in 1..(Len(r.out) - n) /\ Len(b) > 0 BY <1>0, <2>1, <1>1, <1>4
    <3>2. b # <<>> /\ Head(b) = b[1] /\ Head(b) \in Calls BY <1>0, <3>1, HeadIs
    <3> QED BY <1>0, <3>1, <3>2, <1>4
  <2> QED BY <1>0, <2>1
<1>14. d \subseteq Calls
  <2>1. part => {Head(b)} \subseteq Calls BY <1>0, <1>13
  <2> QED BY <1>0, <2>1, <1>1, <1>9
<1>15. t = [r EXCEPT !.out = b, !.outlen = m, !.tailp = q, !.wait = w, !.waitlen = v, !.begun = d]
  BY <1>0, <1>1, <1>2, <1>3, <1>6, <1>8, <1>9, <1>10, <1>11, <1>12 DEF Wrote, RpcStates
<1>16. /\ t \in RpcStates /\ t.out = b /\ t.outlen = m /\ t.tailp = q /\ t.wait = w /\ t.waitlen = v
       /\ t.begun = d /\ t.pdu = r.pdu /\ t.phase = r.phase
  <2>1. q \in Calls \cup {None} BY <1>0, <1>1, <1>8
  <2> QED BY <1>0, <2>1, <1>1, <1>14, <1>15 DEF RpcStates
<1>17. q # None => q \in High \cap Elements(b)
  <2>1. q # None => q = r.tailp /\ q \notin Elements(a) BY <1>0, <1>8
  <2> QED BY <1>0, <2>1, <1>5 DEF OutOK
<1>18. r.begun \ Elements(a) \subseteq (IF b = <<>> THEN {} ELSE {Head(b)})
  <2>1. CASE r.out = <<>>
    <3>1. r.begun = {} BY <1>0, <2>1 DEF OutOK
    <3> QED BY <1>0, <3>1
  <2>2. CASE r.out # <<>> /\ n = 0
    <3>1. 1 \in 1..(Len(r.out) - n) /\ Len(b) > 0 BY <1>0, <2>2, <1>1, <1>4, HeadIs
    <3>2. b # <<>> /\ Head(b) = b[1] /\ b[1] = r.out[n + 1] BY <1>0, <3>1, <1>4, HeadIs
    <3>3. Head(r.out) = r.out[1] BY <1>0, <2>2, <1>1, HeadIs
    <3>4. Head(b) = Head(r.out) BY <1>0, <3>2, <3>3, <2>2
    <3> QED BY <1>0, <3>2, <3>4, <2>2 DEF OutOK
  <2>3. CASE r.out # <<>> /\ n # 0
    <3>1. 1 \in 1..n BY <1>0, <2>3
    <3>2. a[1] = r.out[1] /\ 1 \in 1..Len(a) BY <1>0, <3>1, <1>4
    <3>3. Head(r.out) \in Elements(a) BY <1>0, <3>2, <2>3, <1>1, HeadIs DEF Elements
    <3> QED BY <1>0, <3>3, <2>3 DEF OutOK
  <2> QED BY <1>0, <2>1, <2>2, <2>3
<1>19. d \subseteq (IF b = <<>> THEN {} ELSE {Head(b)}) BY <1>0, <1>9, <1>13, <1>18
<1>20. OutOK(t) BY <1>0, <1>4, <1>5, <1>11, <1>16, <1>17, <1>19 DEF OutOK
<1>21. WaitOK(t) BY <1>0, <1>6, <1>7, <1>12, <1>16 DEF WaitOK
<1>22. /\ Elements(b) \cup Elements(w) = Elements(r.out) \cup Elements(r.wait)
       /\ Elements(b) \cap Elements(w) = {} /\ Elements(b) \subseteq Elements(r.out)
  BY <1>0, <1>5, <1>7
<1>23. n = 0 => Elements(w) = Elements(r.wait) /\ r.begun \subseteq d
  <2>1. n = 0 => Elements(a) = {}
    <3>1. n = 0 => a = <<>> BY <1>0, <1>4, HeadIs
    <3> QED BY <1>0, <3>1, ElementsType
  <2> QED BY <1>0, <2>1, <1>7, <1>9
<1>24. part => r.out[n + 1] \in d BY <1>0, <1>9, <1>13
<1>25. ASSUME Run(r.out, r.tailp) PROVE Run(b, q)
  <2>1. ASSUME NEW k \in 1..Len(b) PROVE n + k \in 1..Len(r.out) /\ b[k] = r.out[n + k]
    BY <1>0, <1>1, <1>4
  <2>2. ASSUME NEW k \in 1..Len(b), NEW j \in 1..Len(b), 1 < k, k < j, b[j] \in High PROVE b[k] \in High
    <3>1. 1 < n + k /\ n + k < n + j BY <1>0, <2>2
    <3>2. r.out[n + j] \in High /\ n + j \in 1..Len(r.out) /\ n + k \in 1..Len(r.out) BY <1>0, <2>1, <2>2
    <3>3. r.out[n + k] \in High BY <1>0, <3>1, <3>2, <1>25 DEF Run
    <3> QED BY <1>0, <3>3, <2>1
  <2>3. ASSUME NEW j \in 1..Len(b), b[j] \in High PROVE \E k \in j..Len(b) : b[k] = q
    <3>1. n + j \in 1..Len(r.out) /\ r.out[n + j] \in High BY <1>0, <2>1, <2>3
    <3>2. PICK k \in (n + j)..Len(r.out) : r.out[k] = r.tailp BY <1>0, <3>1, <1>25 DEF Run
    <3>3. k - n \in j..Len(b) /\ k - n \in 1..Len(b) /\ n + (k - n) = k BY <1>0, <3>2, <1>1, <1>4
    <3>4. b[k - n] = r.tailp BY <1>0, <3>2, <3>3, <2>1
    <3>5. r.tailp \in Elements(b) BY <1>0, <3>3, <3>4 DEF Elements
    <3>6. q = r.tailp BY <1>0, <3>5, <1>5, <1>8
    <3> QED BY <1>0, <3>3, <3>4, <3>6
  <2> QED BY <1>0, <2>2, <2>3 DEF Run
<1>26. Run(r.out, r.tailp) => Run(b, q) BY <1>0, <1>25
<1>27. Len(w) = Len(r.wait) + n BY <1>0, <1>6
<1> QED BY <1>0, <1>10, <1>16, <1>20, <1>21, <1>22, <1>23, <1>24, <1>26, <1>27 DEF Written

------------------------------------------------------------------------------
(* The inductive invariant.                                                *)

(* The calls that are in one of the three places.                          *)
Placed(r) == Elements(r.out) \cup Elements(r.wait) \cup ({r.pdu} \ {None})

(* Each queue is in order, they do not overlap, and the reader's call is    *)
(* in neither.                                                             *)
QueuesOK(r) ==
  /\ OutOK(r) /\ WaitOK(r) /\ Apart(r)
  /\ r.phase = "marker" <=> r.pdu = None
  /\ MaxWait > 0 => Len(r.wait) <= MaxWait
  /\ mode.auto = 0 /\ mode.retrans = 0 => Run(r.out, r.tailp)

(* A call is placed or was called back, once.                              *)
Accounts(r, c, iss) ==
  /\ c \in [Calls -> Nat] /\ iss \subseteq Calls /\ Placed(r) \subseteq iss
  /\ \A x \in Calls \ iss : c[x] = 0
  /\ \A x \in iss \ (ZeroCopy \cap Rejectable) : c[x] = IF x \in Placed(r) THEN 0 ELSE 1

LinkStates ==
  [state : {"up", "connecting", "broken", "down"}, retries : Int, owed : [Calls -> 0..MaxOwed],
   cut : Calls \cup {None}, torn : BOOLEAN]

(* A call of which a part is on the wire is still begun, if it is queued.  *)
CutOK(l, r, iss) ==
  l.cut # None => /\ l.cut \in iss /\ l.cut \notin Elements(r.wait)
                  /\ l.cut \in Elements(r.out) => l.cut \in r.begun

(* The invariant.                                                          *)
RpcInv ==
  /\ mode \in Modes /\ over \in BOOLEAN
  /\ QueuesOK(rpc) /\ Accounts(rpc, called, issued)
  /\ link \in LinkStates /\ CutOK(link, rpc, issued)

LEMMA CalledIs ==
  ASSUME called \in [Calls -> Nat], NEW D
  PROVE  Called(D) \in [Calls -> Nat] /\ \A x \in Calls : Called(D)[x] = IF x \in D THEN called[x] + 1 ELSE called[x]
BY DEF Called

(* The callbacks run are those of the calls that lose their place.         *)
LEMMA AccountsKept ==
  ASSUME NEW r, Accounts(r, called, issued), NEW t, Placed(t) \subseteq Placed(r),
         NEW D, D \subseteq Placed(r),
         \A x \in Placed(r) \ (ZeroCopy \cap Rejectable) : x \in D <=> x \notin Placed(t)
  PROVE  Accounts(t, Called(D), issued)
<1>1. Called(D) \in [Calls -> Nat] /\ \A x \in Calls : Called(D)[x] = IF x \in D THEN called[x] + 1 ELSE called[x]
  BY CalledIs DEF Accounts
<1>2. issued \subseteq Calls /\ Placed(r) \subseteq issued BY DEF Accounts
<1>3. \A x \in Calls \ issued : Called(D)[x] = 0 BY <1>1, <1>2 DEF Accounts
<1>4. ASSUME NEW x \in issued \ (ZeroCopy \cap Rejectable)
      PROVE  Called(D)[x] = IF x \in Placed(t) THEN 0 ELSE 1
  <2>1. x \in Calls /\ called[x] = IF x \in Placed(r) THEN 0 ELSE 1 BY <1>2 DEF Accounts
  <2>2. CASE x \in Placed(r)
    <3>1. x \in D <=> x \notin Placed(t) BY <2>2
    <3> QED BY <3>1, <2>1, <2>2, <1>1
  <2>3. CASE x \notin Placed(r)
    <3>1. x \notin D /\ x \notin Placed(t) BY <2>3
    <3> QED BY <3>1, <2>1, <2>3, <1>1
  <2> QED BY <2>2, <2>3
<1> QED BY <1>1, <1>2, <1>3, <1>4 DEF Accounts

LEMMA NobodyCalled ==
  ASSUME called \in [Calls -> Nat] PROVE Called({}) = called
BY DEF Called

(* A purge empties both queues and leaves the reader's call in hand.       *)
LEMMA PurgeOK ==
  ASSUME NEW r, QueuesOK(r)
  PROVE  /\ QueuesOK(Purge(r)) /\ Purge(r).begun = {} /\ Elements(Purge(r).out) = {} /\ Elements(Purge(r).wait) = {}
         /\ Purge(r).pdu = r.pdu /\ Placed(r) = Purged(r) \cup Placed(Purge(r)) /\ Placed(Purge(r)) = {r.pdu} \ {None}
<1>1. PICK t : t = Purge(r) OBVIOUS
<1>2. r \in RpcStates BY DEF QueuesOK, OutOK
<1>3. <<>> \in Seq(Calls) /\ 0 \in Nat /\ Len(<<>>) = 0 OBVIOUS
<1>4. /\ t \in RpcStates /\ t.out = <<>> /\ t.tailp = None /\ t.outlen = 0 /\ t.wait = <<>> /\ t.waitlen = 0
      /\ t.begun = {} /\ t.pdu = r.pdu /\ t.phase = r.phase
  BY <1>1, <1>2, <1>3 DEF Purge, RpcStates
<1>5. Elements(<<>>) = {} /\ Distinct(<<>>) BY DEF Elements, Distinct
<1>6. OutOK(t) BY <1>3, <1>4, <1>5 DEF OutOK
<1>7. WaitOK(t) BY <1>3, <1>4, <1>5 DEF WaitOK
<1>8. Apart(t) BY <1>4, <1>5 DEF Apart
<1>9. Run(t.out, t.tailp) BY <1>4 DEF Run
<1>10. MaxWait > 0 => Len(t.wait) <= MaxWait BY <1>3, <1>4, RpcAssumption
<1>11. QueuesOK(t) BY <1>4, <1>6, <1>7, <1>8, <1>9, <1>10 DEF QueuesOK
<1> QED BY <1>1, <1>4, <1>5, <1>11 DEF Placed, Purged

(* After everything was returned, a purge reaches the reader's call too.   *)
LEMMA ReturnedOK ==
  ASSUME NEW r, QueuesOK(r)
  PROVE  /\ mode.auto # 0 => QueuesOK(ReturnAll(r))
         /\ QueuesOK(Purge(ReturnAll(r))) /\ Placed(Purge(ReturnAll(r))) = {}
         /\ Placed(ReturnAll(r)) = Placed(r) /\ Purged(ReturnAll(r)) = Placed(r)
<1>1. PICK t : t = ReturnAll(r) OBVIOUS
<1>2. /\ OutOK(t) /\ t.wait = <<>> /\ t.waitlen = 0 /\ t.begun = {} /\ t.pdu = None /\ t.phase = "marker"
      /\ Elements(t.out) = Elements(r.out) \cup Elements(r.wait) \cup ({r.pdu} \ {None})
  BY <1>1, ReturnAllOK DEF QueuesOK
<1>3. Elements(<<>>) = {} /\ Distinct(<<>>) /\ Len(<<>>) = 0 BY DEF Elements, Distinct
<1>4. t \in RpcStates BY <1>2 DEF OutOK
<1>5. WaitOK(t) BY <1>2, <1>3, <1>4 DEF WaitOK
<1>6. Apart(t)
  <2>1. t.out \in Seq(Calls) BY <1>4 DEF RpcStates
  <2>2. None \notin Elements(t.out) BY <2>1, RpcAssumption DEF Elements
  <2> QED BY <2>2, <1>2, <1>3 DEF Apart
<1>7. MaxWait > 0 => Len(t.wait) <= MaxWait BY <1>2, <1>3, RpcAssumption
<1>8. mode.auto # 0 => QueuesOK(t) BY <1>2, <1>5, <1>6, <1>7 DEF QueuesOK
<1>9. Placed(t) = Placed(r) /\ Purged(t) = Placed(r) BY <1>2, <1>3 DEF Placed, Purged
<1>10. QueuesOK(Purge(t)) /\ Placed(Purge(t)) = {}
  <2>1. PICK u : u = Purge(t) OBVIOUS
  <2>2. <<>> \in Seq(Calls) /\ 0 \in Nat OBVIOUS
  <2>3. /\ u \in RpcStates /\ u.out = <<>> /\ u.tailp = None /\ u.outlen = 0 /\ u.wait = <<>> /\ u.waitlen = 0
        /\ u.begun = {} /\ u.pdu = None /\ u.phase = "marker"
    BY <1>2, <1>4, <2>1, <2>2 DEF Purge, RpcStates
  <2>4. OutOK(u) BY <1>3, <2>3 DEF OutOK
  <2>5. WaitOK(u) BY <1>3, <2>3 DEF WaitOK
  <2>6. Apart(u) BY <1>3, <2>3 DEF Apart
  <2>7. Run(u.out, u.tailp) BY <1>3, <2>3 DEF Run
  <2>8. MaxWait > 0 => Len(u.wait) <= MaxWait BY <1>3, <2>3, RpcAssumption
  <2>9. QueuesOK(u) BY <2>3, <2>4, <2>5, <2>6, <2>7, <2>8 DEF QueuesOK
  <2> QED BY <2>1, <2>3, <2>9, <1>3 DEF Placed
<1> QED BY <1>1, <1>8, <1>9, <1>10

(* What is half-written stands at the head.                                *)
LEMMA HalfWrittenIsHead ==
  ASSUME NEW r, OutOK(r), NEW x \in r.begun
  PROVE  r.out # <<>> /\ Head(r.out) = x
BY DEF OutOK

(* A write keeps the queues right; it tears the stream only if the call    *)
(* half on the wire is no longer queued.                                   *)
LEMMA WriteOK ==
  ASSUME NEW r, QueuesOK(r), link \in LinkStates, NEW iss, CutOK(link, r, iss), Placed(r) \subseteq iss,
         NEW n, NEW part \in BOOLEAN, CanWrite(r, n, part)
  PROVE  /\ QueuesOK(Wrote(r, n, part)) /\ Placed(Wrote(r, n, part)) = Placed(r)
         /\ OnTheWire(r, n, part) \in LinkStates
         /\ CutOK(OnTheWire(r, n, part), Wrote(r, n, part), iss)
         /\ OnTheWire(r, n, part).torn /\ ~link.torn => link.cut \notin Elements(r.out)
<1>1. /\ r \in RpcStates /\ r.out \in Seq(Calls) /\ Len(r.out) \in Nat /\ r.wait \in Seq(Calls)
      /\ Len(r.wait) \in Nat /\ r.waitlen = Len(r.wait) /\ OutOK(r) /\ WaitOK(r) /\ Apart(r)
  BY LenProperties DEF QueuesOK, OutOK, WaitOK, RpcStates
<1>2. n \in 0..Len(r.out) /\ (part => n < Len(r.out)) BY DEF CanWrite
<1>3. MaxWait > 0 => Len(r.wait) + n <= MaxWait
  <2>1. ASSUME MaxWait > 0 PROVE Len(r.wait) + n <= MaxWait
    <3>1. Room(r) = MaxWait - Len(r.wait) BY <2>1, <1>1 DEF Room
    <3>2. MaxWait \in Nat BY RpcAssumption
    <3>3. PICK p : p = IF part THEN 1 ELSE 0 OBVIOUS
    <3>4. n + p <= MaxWait - Len(r.wait) BY <3>1, <3>3 DEF CanWrite
    <3>5. p \in {0, 1} BY <3>3
    <3>6. PICK v \in Nat : v = Len(r.wait) BY <1>1
    <3>7. n \in Nat BY <1>1, <1>2
    <3>8. n + p <= MaxWait - v BY <3>4, <3>6
    <3>9. v + n <= MaxWait BY ONLY <3>2, <3>5, <3>7, <3>8, v \in Nat
    <3> QED BY <3>6, <3>9
  <2> QED BY <2>1
<1>4. PICK t : t = Wrote(r, n, part) OBVIOUS
<1>5. /\ OutOK(t) /\ WaitOK(t) /\ t.pdu = r.pdu /\ t.phase = r.phase
      /\ Len(t.wait) = Len(r.wait) + n
      /\ Elements(t.out) \cup Elements(t.wait) = Elements(r.out) \cup Elements(r.wait)
      /\ Elements(t.out) \cap Elements(t.wait) = {}
      /\ Elements(t.out) \subseteq Elements(r.out)
      /\ n = 0 => Elements(t.wait) = Elements(r.wait) /\ r.begun \subseteq t.begun
      /\ part => r.out[n + 1] \in t.begun
      /\ Run(r.out, r.tailp) => Run(t.out, t.tailp)
  <2>1. MayWrite(r, n, part) BY <1>1, <1>2 DEF Apart, MayWrite
  <2>2. Written(t, r, n, part) BY <2>1, <1>4, WroteOK
  <2> QED BY <2>2 DEF Written
<1>6. Placed(t) = Placed(r) BY <1>5 DEF Placed
<1>7. Apart(t) BY <1>1, <1>5 DEF Apart
<1>8. QueuesOK(t)
  <2>1. MaxWait > 0 => Len(t.wait) <= MaxWait BY <1>3, <1>5
  <2>2. t.phase = "marker" <=> t.pdu = None BY <1>5 DEF QueuesOK
  <2>3. mode.auto = 0 /\ mode.retrans = 0 => Run(t.out, t.tailp) BY <1>5 DEF QueuesOK
  <2> QED BY <2>1, <2>2, <2>3, <1>5, <1>7 DEF QueuesOK
<1>9. PICK sent : sent = Elements(SubSeq(r.out, 1, n)) OBVIOUS
<1>10. PICK torn : torn = (link.torn \/ (link.cut # None /\ (n > 0 \/ part) /\ Head(r.out) # link.cut)) OBVIOUS
<1>11. torn \in BOOLEAN BY <1>10 DEF LinkStates
<1>12. PICK c : c = IF part THEN r.out[n + 1] ELSE IF n > 0 THEN None ELSE link.cut OBVIOUS
<1>13. part => r.out[n + 1] \in Calls
  <2>1. part => n + 1 \in 1..Len(r.out) BY <1>1, <1>2
  <2> QED BY <2>1, <1>1
<1>14. c \in Calls \cup {None} BY <1>12, <1>13 DEF LinkStates
<1>15. PICK ow : ow = [x \in Calls |-> IF x \in sent /\ ~torn /\ link.owed[x] < MaxOwed
                                        THEN link.owed[x] + 1 ELSE link.owed[x]] OBVIOUS
<1>16. ow \in [Calls -> 0..MaxOwed]
  <2>1. \A x \in Calls : link.owed[x] \in 0..MaxOwed BY DEF LinkStates
  <2>2. MaxOwed \in Nat BY RpcAssumption
  <2>3. ASSUME NEW x \in Calls PROVE (IF x \in sent /\ ~torn /\ link.owed[x] < MaxOwed
                                      THEN link.owed[x] + 1 ELSE link.owed[x]) \in 0..MaxOwed
    BY <2>1, <2>2
  <2> QED BY <2>3, <1>15
<1>17. PICK l : l = OnTheWire(r, n, part) OBVIOUS
<1>18. l = [link EXCEPT !.torn = torn, !.cut = c, !.owed = ow]
  BY <1>9, <1>10, <1>12, <1>15, <1>17 DEF OnTheWire, LinkStates
<1>19. l \in LinkStates /\ l.cut = c /\ l.torn = torn
  BY <1>11, <1>14, <1>16, <1>18 DEF LinkStates
<1>20. CutOK(l, t, iss)
  <2>1. SUFFICES ASSUME c # None
                 PROVE  c \in iss /\ c \notin Elements(t.wait) /\ (c \in Elements(t.out) => c \in t.begun)
    BY <1>19 DEF CutOK
  <2>2. CASE part
    <3>1. c = r.out[n + 1] /\ n + 1 \in 1..Len(r.out) BY <2>2, <1>1, <1>2, <1>12
    <3>2. c \in Elements(r.out) /\ c \in t.begun BY <3>1, <2>2, <1>5 DEF Elements
    <3>3. c \in Elements(t.out)
      <4>1. t.out # <<>> /\ Head(t.out) = c BY <3>2, <1>5, HalfWrittenIsHead
      <4>2. t.out \in Seq(Calls) BY <1>5 DEF OutOK, RpcStates
      <4> QED BY <4>1, <4>2, HeadIs
    <3> QED BY <3>2, <3>3, <1>5 DEF Placed
  <2>3. CASE ~part
    <3>1. n = 0 /\ c = link.cut BY <2>1, <2>3, <1>2, <1>12
    <3>2. c \in iss /\ c \notin Elements(r.wait) /\ (c \in Elements(r.out) => c \in r.begun)
      BY <3>1, <2>1 DEF CutOK
    <3> QED BY <3>1, <3>2, <1>5
  <2> QED BY <2>2, <2>3
<1>21. ASSUME l.torn, ~link.torn, link.cut \in Elements(r.out) PROVE FALSE
  <2>1. link.cut # None /\ Head(r.out) # link.cut BY <1>10, <1>19, <1>21
  <2>2. link.cut \in r.begun BY <2>1, <1>21 DEF CutOK
  <2> QED BY <2>1, <2>2, <1>1, HalfWrittenIsHead
<1> QED BY <1>4, <1>6, <1>8, <1>17, <1>19, <1>20, <1>21

(* A new call finds its place, and displaces nothing begun.                *)
LEMMA PlacedOK ==
  ASSUME RpcInv, NEW x \in Calls, x \notin issued,
         NEW r, r = IF x \in High THEN AddHigh(rpc, x) ELSE AddLow(rpc, x)
  PROVE  /\ QueuesOK(r) /\ Placed(r) = Placed(rpc) \cup {x} /\ CutOK(link, r, issued \cup {x})
         /\ Elements(rpc.out) \subseteq Elements(r.out)
<1>1. x \notin Placed(rpc) BY DEF RpcInv, Accounts
<1>2. OutOK(rpc) /\ WaitOK(rpc) /\ Apart(rpc) BY DEF RpcInv, QueuesOK
<1>3. x \notin Elements(rpc.out) BY <1>1 DEF Placed
<1>4. OutOK(r) /\ Elements(r.out) = Elements(rpc.out) \cup {x} /\ r.begun = rpc.begun /\ SameRest(r, rpc)
  BY <1>2, <1>3, AddHighOK, AddLowOK
<1>5. /\ r.wait = rpc.wait /\ r.waitlen = rpc.waitlen /\ r.pdu = rpc.pdu /\ r.phase = rpc.phase /\ r \in RpcStates
  BY <1>4 DEF SameRest, OutOK
<1>6. WaitOK(r) BY <1>2, <1>5 DEF WaitOK
<1>7. x # None BY RpcAssumption
<1>8. Apart(r) BY <1>1, <1>2, <1>4, <1>5, <1>7 DEF Apart, Placed
<1>9. mode.auto = 0 /\ mode.retrans = 0 => Run(r.out, r.tailp)
  BY <1>2, <1>3, QueuedRun DEF RpcInv, QueuesOK
<1>10. QueuesOK(r) BY <1>4, <1>5, <1>6, <1>8, <1>9 DEF RpcInv, QueuesOK
<1>11. CutOK(link, r, issued \cup {x}) BY <1>4, <1>5 DEF RpcInv, CutOK
<1> QED BY <1>4, <1>5, <1>10, <1>11 DEF Placed

------------------------------------------------------------------------------
(* Every action keeps it.                                                  *)

(* A step is right if what it makes of the queues, the callbacks and the   *)
(* link is.                                                                *)
LEMMA Lifted ==
  ASSUME mode' = mode, mode \in Modes, over' \in BOOLEAN,
         NEW t, t = rpc', QueuesOK(t), Accounts(t, called', issued'), link' \in LinkStates, CutOK(link', t, issued')
  PROVE  RpcInv'
<1>1. QueuesOK(rpc)'
  BY Zenon DEF QueuesOK
<1>2. Accounts(rpc, called, issued)' BY DEF Accounts
<1>3. CutOK(link, rpc, issued)' BY DEF CutOK
<1> QED BY <1>1, <1>2, <1>3 DEF RpcInv

LEMMA QueuePduStep ==
  ASSUME RpcInv, NEW x \in Calls, QueuePdu(x)
  PROVE  RpcInv' /\ (link'.torn /\ ~link.torn => link.cut \notin Elements(rpc.out))
<1>1. /\ x \notin issued /\ issued' = issued \cup {x} /\ mode' = mode /\ called' = called /\ over' = over
  BY DEF QueuePdu
<1>2. PICK r : r = IF x \in High THEN AddHigh(rpc, x) ELSE AddLow(rpc, x) OBVIOUS
<1>3. WriteFrom(r) \/ (rpc' = r /\ link' = link) BY <1>2 DEF QueuePdu
<1>4. /\ QueuesOK(r) /\ Placed(r) = Placed(rpc) \cup {x} /\ CutOK(link, r, issued \cup {x})
      /\ Elements(rpc.out) \subseteq Elements(r.out)
  BY <1>1, <1>2, PlacedOK
<1>5. /\ mode \in Modes /\ over \in BOOLEAN /\ link \in LinkStates /\ Accounts(rpc, called, issued)
  BY DEF RpcInv
<1>6. ASSUME NEW t, Placed(t) = Placed(r) PROVE Accounts(t, called, issued \cup {x})
  <2>1. Placed(t) = Placed(rpc) \cup {x} BY <1>4, <1>6
  <2>2. called[x] = 0 BY <1>1, <1>5 DEF Accounts
  <2>3. x \notin Placed(rpc) BY <1>1, <1>5 DEF Accounts
  <2> QED BY <2>1, <2>2, <2>3, <1>1, <1>5 DEF Accounts
<1>7. CASE WriteFrom(r)
  <2>1. PICK n \in 0..Cardinality(Calls), part \in BOOLEAN :
          CanWrite(r, n, part) /\ rpc' = Wrote(r, n, part) /\ link' = OnTheWire(r, n, part)
    BY <1>7 DEF WriteFrom
  <2>2. Placed(r) \subseteq issued \cup {x} BY <1>4, <1>5 DEF Accounts
  <2>3. PICK t : t = Wrote(r, n, part) OBVIOUS
  <2>4. /\ QueuesOK(t) /\ Placed(t) = Placed(r)
        /\ OnTheWire(r, n, part) \in LinkStates
        /\ CutOK(OnTheWire(r, n, part), t, issued \cup {x})
        /\ OnTheWire(r, n, part).torn /\ ~link.torn => link.cut \notin Elements(r.out)
    BY <2>1, <2>2, <2>3, <1>4, <1>5, WriteOK
  <2>5. Accounts(t, called, issued \cup {x}) BY <2>4, <1>6
  <2>6. RpcInv' BY <2>1, <2>3, <2>4, <2>5, <1>1, <1>5, Lifted
  <2> QED BY <2>1, <2>4, <2>6, <1>4
<1>8. CASE rpc' = r /\ link' = link
  <2>1. Accounts(r, called, issued \cup {x}) BY <1>6
  <2>2. RpcInv' BY <2>1, <1>1, <1>4, <1>5, <1>8, Lifted
  <2> QED BY <2>2, <1>8
<1> QED BY <1>3, <1>7, <1>8

LEMMA ServiceWriteStep ==
  ASSUME RpcInv, ServiceWrite
  PROVE  RpcInv' /\ (link'.torn /\ ~link.torn => link.cut \notin Elements(rpc.out))
<1>1. /\ issued' = issued /\ mode' = mode /\ called' = called /\ over' = over /\ WriteFrom(rpc)
  BY DEF ServiceWrite
<1>2. /\ mode \in Modes /\ over \in BOOLEAN /\ link \in LinkStates /\ Accounts(rpc, called, issued)
      /\ QueuesOK(rpc) /\ CutOK(link, rpc, issued)
  BY DEF RpcInv
<1>3. PICK n \in 0..Cardinality(Calls), part \in BOOLEAN :
        CanWrite(rpc, n, part) /\ rpc' = Wrote(rpc, n, part) /\ link' = OnTheWire(rpc, n, part)
  BY <1>1 DEF WriteFrom
<1>4. Placed(rpc) \subseteq issued BY <1>2 DEF Accounts
<1>5. PICK t : t = Wrote(rpc, n, part) OBVIOUS
<1>6. /\ QueuesOK(t) /\ Placed(t) = Placed(rpc)
      /\ OnTheWire(rpc, n, part) \in LinkStates
      /\ CutOK(OnTheWire(rpc, n, part), t, issued)
      /\ OnTheWire(rpc, n, part).torn /\ ~link.torn => link.cut \notin Elements(rpc.out)
  BY <1>2, <1>3, <1>4, <1>5, WriteOK
<1>7. Accounts(t, called, issued) BY <1>2, <1>6 DEF Accounts
<1>8. RpcInv' BY <1>1, <1>2, <1>3, <1>5, <1>6, <1>7, Lifted
<1> QED BY <1>3, <1>6, <1>8

LEMMA NewLinkOK ==
  ASSUME NEW s \in {"up", "connecting", "broken", "down"}, NEW k \in Int
  PROVE  NewLink(s, k) \in LinkStates /\ NewLink(s, k).cut = None /\ NewLink(s, k).torn = FALSE
<1>1. [x \in Calls |-> 0] \in [Calls -> 0..MaxOwed]
  <2>1. 0 \in 0..MaxOwed BY RpcAssumption
  <2> QED BY <2>1
<1> QED BY <1>1 DEF NewLink, LinkStates

LEMMA ModeType == ASSUME mode \in Modes PROVE mode.auto \in Int /\ mode.retrans \in Nat
BY RpcAssumption

(* What is done with rpc when the connection is given up: `done` was in    *)
(* hand and is called back.                                                *)
LEMMA ReturnedStep ==
  ASSUME RpcInv, mode.auto # 0, NEW D, D \subseteq Placed(rpc) \cap ZeroCopy \cap Rejectable,
         NEW k \in Int, link' = NewLink("connecting", k),
         rpc' = ReturnAll(rpc), called' = Called(D), mode' = mode, issued' = issued, over' = over
  PROVE  RpcInv' /\ (link'.torn => link.torn)
<1>1. /\ mode \in Modes /\ over \in BOOLEAN /\ Accounts(rpc, called, issued) /\ QueuesOK(rpc)
  BY DEF RpcInv
<1>2. PICK t : t = ReturnAll(rpc) OBVIOUS
<1>3. QueuesOK(t) /\ Placed(t) = Placed(rpc) BY <1>1, <1>2, ReturnedOK
<1>4. Accounts(t, Called(D), issued) BY <1>3, <1>1, AccountsKept
<1>5. link' \in LinkStates /\ link'.cut = None /\ link'.torn = FALSE BY NewLinkOK
<1>6. CutOK(link', t, issued) BY <1>5 DEF CutOK
<1>7. RpcInv' BY <1>1, <1>2, <1>3, <1>4, <1>5, <1>6, Lifted
<1> QED BY <1>5, <1>7

(* The connection is given up and r, which is rpc or what returning made   *)
(* of it, is purged.                                                       *)
LEMMA PurgedStep ==
  ASSUME RpcInv, NEW r, QueuesOK(Purge(r)), Elements(Purge(r).out) = {}, Elements(Purge(r).wait) = {},
         Placed(rpc) = Purged(r) \cup Placed(Purge(r)), Purged(r) \cap Placed(Purge(r)) = {},
         NEW D, D \subseteq Placed(rpc) \cap ZeroCopy \cap Rejectable,
         NEW l \in LinkStates, l.cut \in {link.cut, None}, l.torn => link.torn,
         rpc' = Purge(r), called' = Called(Purged(r) \cup D), link' = l, mode' = mode, issued' = issued,
         over' \in BOOLEAN
  PROVE  RpcInv' /\ (link'.torn => link.torn)
<1>1. /\ mode \in Modes /\ Accounts(rpc, called, issued) /\ CutOK(link, rpc, issued)
  BY DEF RpcInv
<1>2. PICK t : t = Purge(r) OBVIOUS
<1>3. Accounts(t, Called(Purged(r) \cup D), issued)
  <2>1. Placed(t) \subseteq Placed(rpc) /\ Purged(r) \cup D \subseteq Placed(rpc) BY <1>2
  <2>2. \A y \in Placed(rpc) \ (ZeroCopy \cap Rejectable) : y \in Purged(r) \cup D <=> y \notin Placed(t)
    BY <1>2
  <2> QED BY <2>1, <2>2, <1>1, AccountsKept
<1>4. CutOK(l, t, issued)
  <2>1. l.cut # None => l.cut \in issued BY <1>1 DEF CutOK
  <2> QED BY <2>1, <1>2 DEF CutOK
<1>5. QueuesOK(t) BY <1>2
<1>6. RpcInv' BY <1>1, <1>2, <1>3, <1>4, <1>5, Lifted
<1> QED BY <1>6

LEMMA PurgedAtOnce ==
  ASSUME RpcInv
  PROVE  LET t == Purge(rpc) IN
         /\ QueuesOK(t) /\ Elements(t.out) = {} /\ Elements(t.wait) = {}
         /\ Placed(rpc) = Purged(rpc) \cup Placed(t) /\ Purged(rpc) \cap Placed(t) = {}
<1>1. QueuesOK(rpc) BY DEF RpcInv
<1>2. Purged(rpc) \cap ({rpc.pdu} \ {None}) = {} BY <1>1 DEF QueuesOK, Apart, Purged
<1> QED BY <1>1, <1>2, PurgeOK

LEMMA PurgedAfterReturn ==
  ASSUME RpcInv
  PROVE  LET t == Purge(ReturnAll(rpc)) IN
         /\ QueuesOK(t) /\ Elements(t.out) = {} /\ Elements(t.wait) = {}
         /\ Placed(rpc) = Purged(ReturnAll(rpc)) \cup Placed(t) /\ Purged(ReturnAll(rpc)) \cap Placed(t) = {}
<1>1. QueuesOK(rpc) BY DEF RpcInv
<1>2. PICK t : t = Purge(ReturnAll(rpc)) OBVIOUS
<1>3. /\ QueuesOK(t) /\ Placed(t) = {} /\ Purged(ReturnAll(rpc)) = Placed(rpc)
  BY <1>1, <1>2, ReturnedOK
<1> QED BY <1>2, <1>3 DEF Placed

LEMMA LinkStateOK ==
  ASSUME link \in LinkStates, NEW s \in {"up", "connecting", "broken", "down"},
         NEW l, l = [link EXCEPT !.state = s]
  PROVE  l \in LinkStates /\ l.cut = link.cut /\ l.torn = link.torn
BY DEF LinkStates

(* rpc_reconnect_requeue, on each of its ways out.                         *)
LEMMA ReconnectStep ==
  ASSUME RpcInv, NEW D, D \subseteq Placed(rpc) \cap ZeroCopy \cap Rejectable,
         Reconnect(rpc, D), mode' = mode, issued' = issued, over' = over
  PROVE  RpcInv' /\ (link'.torn => link.torn)
<1>1. /\ link \in LinkStates /\ over' \in BOOLEAN /\ mode.auto \in Int /\ link.retries \in Int
  BY ModeType DEF RpcInv, LinkStates
<1>2. ASSUME NEW s \in {"broken", "down"}, PurgeAll(rpc, s, D) PROVE RpcInv' /\ (link'.torn => link.torn)
  <2>1. rpc' = Purge(rpc) /\ called' = Called(Purged(rpc) \cup D) /\ link' = [link EXCEPT !.state = s]
    BY <1>2 DEF PurgeAll
  <2>2. link' \in LinkStates /\ link'.cut = link.cut /\ link'.torn = link.torn BY <2>1, <1>1, LinkStateOK
  <2> QED BY <2>1, <2>2, <1>1, PurgedAtOnce, PurgedStep
<1>3. ASSUME PurgeAll(ReturnAll(rpc), "down", D) PROVE RpcInv' /\ (link'.torn => link.torn)
  <2>1. /\ rpc' = Purge(ReturnAll(rpc)) /\ called' = Called(Purged(ReturnAll(rpc)) \cup D)
        /\ link' = [link EXCEPT !.state = "down"]
    BY <1>3 DEF PurgeAll
  <2>2. link' \in LinkStates /\ link'.cut = link.cut /\ link'.torn = link.torn BY <2>1, <1>1, LinkStateOK
  <2> QED BY <2>1, <2>2, <1>1, PurgedAfterReturn, PurgedStep
<1>4. CASE mode.auto = 0
  <2>1. PurgeAll(rpc, "broken", D) BY <1>4 DEF Reconnect
  <2> QED BY <2>1, <1>2
<1>5. CASE mode.auto # 0
  <2>1. \/ /\ rpc' = ReturnAll(rpc) /\ called' = Called(D)
           /\ link' = NewLink("connecting", IF mode.auto < 0 THEN 0 ELSE Retries - 1)
        \/ PurgeAll(ReturnAll(rpc), "down", D)
    BY <1>5 DEF Reconnect
  <2>2. (IF mode.auto < 0 THEN 0 ELSE Retries - 1) \in Int BY <1>1 DEF Retries
  <2>3. CASE PurgeAll(ReturnAll(rpc), "down", D) BY <2>3, <1>3
  <2>4. CASE /\ rpc' = ReturnAll(rpc) /\ called' = Called(D)
             /\ link' = NewLink("connecting", IF mode.auto < 0 THEN 0 ELSE Retries - 1)
    BY <2>2, <2>4, <1>5, ReturnedStep
  <2> QED BY <2>1, <2>3, <2>4
<1> QED BY <1>4, <1>5

LEMMA LinkFailsStep ==
  ASSUME RpcInv, LinkFails
  PROVE  RpcInv' /\ (link'.torn => link.torn)
BY ReconnectStep DEF LinkFails

LEMMA ConnectDoneStep ==
  ASSUME RpcInv, ConnectDone
  PROVE  RpcInv' /\ (link'.torn => link.torn)
<1>1. /\ rpc' = rpc /\ issued' = issued /\ mode' = mode /\ called' = called /\ over' = over
      /\ link' = [link EXCEPT !.state = "up"]
  BY DEF ConnectDone
<1>2. /\ mode \in Modes /\ over \in BOOLEAN /\ link \in LinkStates /\ Accounts(rpc, called, issued)
      /\ QueuesOK(rpc) /\ CutOK(link, rpc, issued)
  BY DEF RpcInv
<1>3. link' \in LinkStates /\ link'.cut = link.cut /\ link'.torn = link.torn BY <1>1, <1>2, LinkStateOK
<1>4. CutOK(link', rpc, issued) BY <1>2, <1>3 DEF CutOK
<1>5. RpcInv' BY <1>1, <1>2, <1>3, <1>4, Lifted
<1> QED BY <1>3, <1>5

LEMMA ConnectFailsStep ==
  ASSUME RpcInv, ConnectFails
  PROVE  RpcInv' /\ (link'.torn => link.torn)
<1> DEFINE more == mode.auto < 0 \/ link.retries > 0
           s == IF more THEN "connecting" ELSE "down"
           k == IF more /\ mode.auto > 0 THEN link.retries - 1 ELSE link.retries
<1>1. mode' = mode /\ issued' = issued /\ over' = over
  BY DEF ConnectFails
<1>2. CASE Reconnect(rpc, {})
  BY <1>1, <1>2, ReconnectStep
<1>3. CASE /\ rpc' = Purge(ReturnAll(rpc)) /\ called' = Called(Purged(ReturnAll(rpc)))
           /\ link' = NewLink(s, k)
  <2>1. called' = Called(Purged(ReturnAll(rpc)) \cup {})
    BY <1>3
  <2>2. s \in {"connecting", "down"} /\ k \in Int /\ over \in BOOLEAN
    BY ModeType DEF RpcInv, LinkStates
  <2> HIDE DEF s, k
  <2>3. link' \in LinkStates /\ link'.cut = None /\ link'.torn = FALSE
    BY <1>3, <2>2, NewLinkOK
  <2> QED BY <1>1, <1>3, <2>1, <2>2, <2>3, PurgedAfterReturn, PurgedStep
<1> QED BY <1>2, <1>3 DEF ConnectFails

LEMMA DestroyStep ==
  ASSUME RpcInv, Destroy
  PROVE  RpcInv' /\ (link'.torn => link.torn)
<1>1. /\ rpc' = Purge(rpc) /\ called' = Called(Purged(rpc) \cup {}) /\ link' = [link EXCEPT !.state = "down"]
      /\ over' = TRUE /\ mode' = mode /\ issued' = issued
  BY DEF Destroy, PurgeAll
<1>2. link \in LinkStates BY DEF RpcInv
<1>3. link' \in LinkStates /\ link'.cut = link.cut /\ link'.torn = link.torn BY <1>1, <1>2, LinkStateOK
<1> QED BY <1>1, <1>3, PurgedAtOnce, PurgedStep

(* The reader.                                                             *)
LEMMA TakenOK ==
  ASSUME QueuesOK(rpc), NEW x \in Calls, rpc.pdu = None, NEW s, OutOK(s), WaitOK(s),
         Elements(s.out) \cap Elements(s.wait) = {}, x \notin Elements(s.out) \cup Elements(s.wait),
         Elements(s.out) \cup Elements(s.wait) = (Elements(rpc.out) \cup Elements(rpc.wait)) \ {x},
         Elements(s.out) \subseteq Elements(rpc.out), Elements(s.wait) \subseteq Elements(rpc.wait),
         x \in Elements(rpc.out) \cup Elements(rpc.wait),
         Len(s.wait) <= Len(rpc.wait), s.begun = rpc.begun \ {x},
         mode.auto = 0 /\ mode.retrans = 0 => Run(s.out, s.tailp),
         NEW t, t = [s EXCEPT !.pdu = x, !.phase = "payload"],
         NEW l, NEW iss, CutOK(l, rpc, iss)
  PROVE  QueuesOK(t) /\ Placed(t) = Placed(rpc) /\ CutOK(l, t, iss)
<1>1. s \in RpcStates /\ s.wait \in Seq(Calls) /\ Len(s.wait) \in Nat BY LenProperties DEF OutOK, RpcStates
<1>2. rpc.wait \in Seq(Calls) /\ Len(rpc.wait) \in Nat BY LenProperties DEF QueuesOK, OutOK, RpcStates
<1>3. /\ t \in RpcStates /\ t.out = s.out /\ t.tailp = s.tailp /\ t.outlen = s.outlen /\ t.wait = s.wait
      /\ t.waitlen = s.waitlen /\ t.begun = s.begun /\ t.pdu = x /\ t.phase = "payload"
  BY <1>1 DEF RpcStates
<1>4. OutOK(t) BY <1>3 DEF OutOK
<1>5. WaitOK(t) BY <1>3 DEF WaitOK
<1>6. Apart(t) BY <1>3 DEF Apart
<1>7. t.phase = "marker" <=> t.pdu = None BY <1>3, RpcAssumption
<1>8. MaxWait > 0 => Len(t.wait) <= MaxWait
  <2>1. MaxWait > 0 => Len(rpc.wait) <= MaxWait BY DEF QueuesOK
  <2>2. MaxWait \in Nat BY RpcAssumption
  <2> QED BY <2>1, <2>2, <1>1, <1>2, <1>3
<1>9. QueuesOK(t) BY <1>3, <1>4, <1>5, <1>6, <1>7, <1>8 DEF QueuesOK
<1>10. x # None BY RpcAssumption
<1>11. Placed(t) = Placed(rpc) BY <1>3, <1>10 DEF Placed
<1>12. CutOK(l, t, iss)
  <2>1. ASSUME l.cut # None
        PROVE  /\ l.cut \in iss /\ l.cut \notin Elements(rpc.wait)
               /\ l.cut \in Elements(rpc.out) => l.cut \in rpc.begun
    BY <2>1 DEF CutOK
  <2> QED BY <2>1, <1>3 DEF CutOK
<1> QED BY <1>9, <1>11, <1>12

LEMMA ReadMarkerStep ==
  ASSUME RpcInv, NEW x \in Calls, ReadMarker(x)
  PROVE  RpcInv' /\ (link'.torn => link.torn)
<1>1. /\ mode' = mode /\ issued' = issued /\ called' = called /\ over' = over
      /\ link' = [link EXCEPT !.owed[x] = @ - 1] /\ link.owed[x] > 0 /\ rpc.phase = "marker"
  BY DEF ReadMarker
<1>2. /\ mode \in Modes /\ over \in BOOLEAN /\ link \in LinkStates /\ Accounts(rpc, called, issued)
      /\ QueuesOK(rpc) /\ CutOK(link, rpc, issued)
  BY DEF RpcInv
<1>3. link' \in LinkStates /\ link'.cut = link.cut /\ link'.torn = link.torn
  <2>1. link.owed \in [Calls -> 0..MaxOwed] BY <1>2 DEF LinkStates
  <2>2. MaxOwed \in Nat BY RpcAssumption
  <2>3. link.owed[x] - 1 \in 0..MaxOwed BY <2>1, <2>2, <1>1
  <2>4. PICK ow \in [Calls -> 0..MaxOwed] : ow = [link.owed EXCEPT ![x] = @ - 1] BY <2>1, <2>3
  <2>5. link' = [link EXCEPT !.owed = ow] BY <2>4, <1>1, <1>2 DEF LinkStates
  <2> QED BY <2>5, <1>2 DEF LinkStates
<1>4. /\ rpc.pdu = None /\ OutOK(rpc) /\ WaitOK(rpc) /\ Apart(rpc) /\ rpc \in RpcStates
      /\ rpc.wait \in Seq(Calls) /\ Len(rpc.wait) \in Nat
  BY <1>1, <1>2, LenProperties DEF QueuesOK, OutOK, RpcStates
<1>5. ASSUME NEW t, t = rpc', QueuesOK(t), Placed(t) = Placed(rpc), CutOK(link', t, issued)
      PROVE  RpcInv'
  <2>1. Accounts(t, called, issued) BY <1>2, <1>5 DEF Accounts
  <2> QED BY <2>1, <1>1, <1>2, <1>3, <1>5, Lifted
<1>6. CutOK(link', rpc, issued) BY <1>2, <1>3 DEF CutOK
<1>7. CASE x \in Elements(rpc.wait)
  <2>1. PICK s : s = RemoveWait(rpc, x) OBVIOUS
  <2>2. /\ OutOK(s) /\ WaitOK(s) /\ Elements(s.wait) = Elements(rpc.wait) \ {x} /\ Len(s.wait) <= Len(rpc.wait)
        /\ s.out = rpc.out /\ s.tailp = rpc.tailp /\ s.begun = rpc.begun
    <3>1. WaitRemoved(s, rpc, x) BY <2>1, <1>4, <1>7, RemoveWaitOK
    <3> QED BY <3>1 DEF WaitRemoved
  <2>3. x \notin Elements(rpc.out) BY <1>4, <1>7 DEF Apart
  <2>4. x \notin rpc.begun
    <3>1. ASSUME x \in rpc.begun PROVE FALSE
      <4>1. rpc.out # <<>> /\ Head(rpc.out) = x BY <3>1, <1>4, HalfWrittenIsHead
      <4>2. rpc.out \in Seq(Calls) BY <1>4 DEF RpcStates
      <4> QED BY <4>1, <4>2, <2>3, HeadIs
    <3> QED BY <3>1
  <2>5. s.begun = rpc.begun \ {x} BY <2>2, <2>4
  <2>6. PICK t : t = [s EXCEPT !.pdu = x, !.phase = "payload"] OBVIOUS
  <2>7. rpc' = t BY <2>1, <2>3, <2>6, <1>7 DEF ReadMarker
  <2>8. mode.auto = 0 /\ mode.retrans = 0 => Run(s.out, s.tailp) BY <2>2, <1>2 DEF QueuesOK
  <2>9. /\ Elements(s.out) \cap Elements(s.wait) = {} /\ x \notin Elements(s.out) \cup Elements(s.wait)
        /\ Elements(s.out) \cup Elements(s.wait) = (Elements(rpc.out) \cup Elements(rpc.wait)) \ {x}
        /\ Elements(s.out) \subseteq Elements(rpc.out) /\ Elements(s.wait) \subseteq Elements(rpc.wait)
    BY <2>2, <2>3, <1>4 DEF Apart
  <2>10. QueuesOK(t) /\ Placed(t) = Placed(rpc) /\ CutOK(link', t, issued)
    BY <2>2, <2>5, <2>6, <2>8, <2>9, <1>2, <1>4, <1>6, <1>7, TakenOK
  <2> QED BY <2>7, <2>10, <1>3, <1>5
<1>8. CASE x \in Elements(rpc.out) /\ x \notin Elements(rpc.wait)
  <2>1. PICK s : s = RemoveOut(rpc, x) OBVIOUS
  <2>2. OutOK(s) /\ Elements(s.out) = Elements(rpc.out) \ {x} /\ s.begun = rpc.begun \ {x} /\ SameRest(s, rpc)
    BY <2>1, <1>4, <1>8, RemoveOutOK
  <2>3. s.wait = rpc.wait /\ s.waitlen = rpc.waitlen /\ Len(s.wait) <= Len(rpc.wait) BY <2>2, <1>4 DEF SameRest
  <2>4. WaitOK(s) BY <2>2, <2>3, <1>4 DEF OutOK, WaitOK
  <2>6. PICK t : t = [s EXCEPT !.pdu = x, !.phase = "payload"] OBVIOUS
  <2>7. rpc' = t BY <2>1, <2>6, <1>8 DEF ReadMarker
  <2>8. mode.auto = 0 /\ mode.retrans = 0 => Run(s.out, s.tailp)
    BY <2>1, <1>2, <1>4, <1>8, RemoveOutRun DEF QueuesOK
  <2>9. /\ Elements(s.out) \cap Elements(s.wait) = {} /\ x \notin Elements(s.out) \cup Elements(s.wait)
        /\ Elements(s.out) \cup Elements(s.wait) = (Elements(rpc.out) \cup Elements(rpc.wait)) \ {x}
        /\ Elements(s.out) \subseteq Elements(rpc.out) /\ Elements(s.wait) \subseteq Elements(rpc.wait)
    BY <2>2, <2>3, <1>4, <1>8 DEF Apart
  <2>10. QueuesOK(t) /\ Placed(t) = Placed(rpc) /\ CutOK(link', t, issued)
    BY <2>2, <2>3, <2>4, <2>6, <2>8, <2>9, <1>2, <1>4, <1>6, <1>8, TakenOK
  <2> QED BY <2>7, <2>10, <1>3, <1>5
<1>9. CASE x \notin Elements(rpc.out) /\ x \notin Elements(rpc.wait)
  <2>1. rpc' = [rpc EXCEPT !.pdu = None] BY <1>9 DEF ReadMarker
  <2>2. rpc' = rpc BY <2>1, <1>4 DEF RpcStates
  <2> QED BY <2>2, <1>2, <1>3, <1>5, <1>6
<1> QED BY <1>3, <1>7, <1>8, <1>9

(* The call in hand is finished.                                           *)
LEMMA FinishOK ==
  ASSUME QueuesOK(rpc), NEW t, t = Finish(rpc), NEW l, NEW iss, CutOK(l, rpc, iss)
  PROVE  QueuesOK(t) /\ Placed(t) = Placed(rpc) \ {rpc.pdu} /\ CutOK(l, t, iss)
<1>1. OutOK(rpc) /\ WaitOK(rpc) /\ Apart(rpc) /\ rpc \in RpcStates BY DEF QueuesOK, OutOK
<1>2. /\ t \in RpcStates /\ t.out = rpc.out /\ t.tailp = rpc.tailp /\ t.outlen = rpc.outlen /\ t.wait = rpc.wait
      /\ t.waitlen = rpc.waitlen /\ t.begun = rpc.begun /\ t.pdu = None /\ t.phase = "marker"
  BY <1>1 DEF Finish, RpcStates
<1>3. OutOK(t) BY <1>1, <1>2 DEF OutOK
<1>4. WaitOK(t) BY <1>1, <1>2 DEF WaitOK
<1>5. Apart(t)
  <2>1. rpc.out \in Seq(Calls) /\ rpc.wait \in Seq(Calls) BY <1>1 DEF RpcStates
  <2>2. Elements(rpc.out) \subseteq Calls /\ Elements(rpc.wait) \subseteq Calls BY <2>1, ElementsType
  <2> QED BY <2>2, <1>1, <1>2, RpcAssumption DEF Apart
<1>6. QueuesOK(t) BY <1>2, <1>3, <1>4, <1>5 DEF QueuesOK
<1>7. Placed(t) = Placed(rpc) \ {rpc.pdu} BY <1>1, <1>2 DEF Placed, Apart
<1>8. CutOK(l, t, iss) BY <1>2 DEF CutOK
<1> QED BY <1>6, <1>7, <1>8

LEMMA FinishStep ==
  ASSUME RpcInv, rpc.phase # "marker", rpc' = Finish(rpc), called' = Called({rpc.pdu}), link' = link,
         mode' = mode, issued' = issued, over' = over
  PROVE  RpcInv' /\ (link'.torn => link.torn)
<1>1. /\ mode \in Modes /\ over \in BOOLEAN /\ link \in LinkStates /\ Accounts(rpc, called, issued)
      /\ QueuesOK(rpc) /\ CutOK(link, rpc, issued)
  BY DEF RpcInv
<1>2. PICK t : t = Finish(rpc) OBVIOUS
<1>3. QueuesOK(t) /\ Placed(t) = Placed(rpc) \ {rpc.pdu} /\ CutOK(link, t, issued) BY <1>1, <1>2, FinishOK
<1>4. rpc.pdu \in Placed(rpc) BY <1>1 DEF QueuesOK, Placed
<1>5. Accounts(t, Called({rpc.pdu}), issued)
  <2>1. Placed(t) \subseteq Placed(rpc) /\ {rpc.pdu} \subseteq Placed(rpc) BY <1>3, <1>4
  <2>2. \A y \in Placed(rpc) \ (ZeroCopy \cap Rejectable) : y \in {rpc.pdu} <=> y \notin Placed(t) BY <1>3
  <2> QED BY <2>1, <2>2, <1>1, AccountsKept
<1>6. RpcInv' BY <1>1, <1>2, <1>3, <1>5, Lifted
<1> QED BY <1>6

LEMMA ReadPayloadStep ==
  ASSUME RpcInv, ReadPayload
  PROVE  RpcInv' /\ (link'.torn => link.torn)
<1>1. /\ mode' = mode /\ issued' = issued /\ link' = link /\ over' = over /\ rpc.phase = "payload"
  BY DEF ReadPayload
<1>2. CASE rpc' = Finish(rpc) /\ called' = Called({rpc.pdu}) BY <1>1, <1>2, FinishStep
<1>3. CASE rpc' = [rpc EXCEPT !.phase = "data"] /\ called' = called
  <2>1. /\ mode \in Modes /\ over \in BOOLEAN /\ link \in LinkStates /\ Accounts(rpc, called, issued)
        /\ QueuesOK(rpc) /\ CutOK(link, rpc, issued)
    BY DEF RpcInv
  <2>2. PICK t : t = [rpc EXCEPT !.phase = "data"] OBVIOUS
  <2>3. OutOK(rpc) /\ WaitOK(rpc) /\ Apart(rpc) /\ rpc \in RpcStates BY <2>1 DEF QueuesOK, OutOK
  <2>4. /\ t \in RpcStates /\ t.out = rpc.out /\ t.tailp = rpc.tailp /\ t.outlen = rpc.outlen /\ t.wait = rpc.wait
        /\ t.waitlen = rpc.waitlen /\ t.begun = rpc.begun /\ t.pdu = rpc.pdu /\ t.phase = "data"
    BY <2>2, <2>3 DEF RpcStates
  <2>5. OutOK(t) BY <2>3, <2>4 DEF OutOK
  <2>6. WaitOK(t) BY <2>3, <2>4 DEF WaitOK
  <2>7. Apart(t) BY <2>3, <2>4 DEF Apart
  <2>8. QueuesOK(t) BY <2>1, <2>4, <2>5, <2>6, <2>7, <1>1 DEF QueuesOK
  <2>9. Accounts(t, called, issued) BY <2>1, <2>4 DEF Accounts, Placed
  <2>10. CutOK(link, t, issued) BY <2>1, <2>4 DEF CutOK
  <2>11. RpcInv' BY <2>1, <2>2, <2>8, <2>9, <2>10, <1>1, <1>3, Lifted
  <2> QED BY <2>11, <1>1
<1> QED BY <1>2, <1>3 DEF ReadPayload

LEMMA ReadDataStep ==
  ASSUME RpcInv, ReadData
  PROVE  RpcInv' /\ (link'.torn => link.torn)
BY FinishStep DEF ReadData

LEMMA ReadRejectedStep ==
  ASSUME RpcInv, ReadRejected
  PROVE  RpcInv' /\ (link'.torn => link.torn)
<1>1. /\ mode' = mode /\ issued' = issued /\ over' = over /\ rpc.phase = "payload" /\ rpc.pdu \in Rejectable
  BY DEF ReadRejected
<1>2. CASE rpc.pdu \in ZeroCopy
  <2>1. Reconnect(rpc, {rpc.pdu}) BY <1>2 DEF ReadRejected
  <2>2. rpc.pdu \in Placed(rpc) BY <1>1 DEF RpcInv, QueuesOK, Placed
  <2> QED BY <2>1, <2>2, <1>1, <1>2, ReconnectStep
<1>3. CASE rpc.pdu \notin ZeroCopy
  <2>1. rpc' = Finish(rpc) /\ called' = Called({rpc.pdu}) /\ link' = link BY <1>3 DEF ReadRejected
  <2> QED BY <2>1, <1>1, FinishStep
<1> QED BY <1>2, <1>3

(* The scan for expired calls: those that are not kept lose their place.   *)
LEMMA ScannedOK ==
  ASSUME RpcInv, NEW late, late \subseteq Purged(rpc), NEW t, t = ScanWait(ScanOut(rpc, late), late)
  PROVE  /\ QueuesOK(t) /\ CutOK(link, t, issued)
         /\ Placed(t) = Placed(rpc) \ {x \in late : ~Kept(x)}
         /\ {x \in late : ~Kept(x)} \subseteq Placed(rpc)
<1>1. /\ QueuesOK(rpc) /\ CutOK(link, rpc, issued) /\ OutOK(rpc) /\ WaitOK(rpc) /\ Apart(rpc)
      /\ rpc.wait \in Seq(Calls) /\ Len(rpc.wait) \in Nat
  BY LenProperties DEF RpcInv, QueuesOK, OutOK, RpcStates
<1>2. PICK s : s = ScanOut(rpc, late) OBVIOUS
<1>3. /\ OutOK(s) /\ SameRest(s, rpc)
      /\ Elements(s.out) = {x \in Elements(rpc.out) : x \notin late \/ Kept(x)}
      /\ rpc.begun \cap Elements(s.out) \subseteq s.begun
      /\ Run(rpc.out, rpc.tailp) => Run(s.out, s.tailp)
  BY <1>1, <1>2, ScanOutOK
<1>4. s.wait = rpc.wait /\ s.waitlen = rpc.waitlen /\ s.pdu = rpc.pdu /\ s.phase = rpc.phase
  BY <1>3 DEF SameRest
<1>5. WaitOK(s) BY <1>1, <1>3, <1>4 DEF OutOK, WaitOK
<1>6. Elements(s.out) \cap Elements(s.wait) = {} BY <1>1, <1>3, <1>4 DEF Apart
<1>7. /\ OutOK(t) /\ WaitOK(t) /\ t.pdu = s.pdu /\ t.phase = s.phase /\ t.begun = s.begun
      /\ Elements(t.wait) = Elements(s.wait) \ late /\ Len(t.wait) <= Len(s.wait)
      /\ Elements(t.out) = Elements(s.out) \cup {x \in Elements(s.wait) : x \in late /\ Kept(x)}
      /\ mode.retrans = 0 => t.out = s.out /\ t.tailp = s.tailp
  <2>1. WaitScanned(t, s, late) BY <1>2, <1>3, <1>5, <1>6, ScanWaitOK
  <2> QED BY <2>1 DEF WaitScanned
<1>8. PICK K : K = {x \in late : ~Kept(x)} OBVIOUS
<1>9. /\ Elements(t.wait) = Elements(rpc.wait) \ late
      /\ Elements(t.out) = (Elements(rpc.out) \ K) \cup ((Elements(rpc.wait) \cap late) \ K)
      /\ K \subseteq late
  BY <1>3, <1>4, <1>7, <1>8
<1>10. Apart(t) BY <1>1, <1>4, <1>7, <1>9 DEF Apart
<1>11. MaxWait > 0 => Len(t.wait) <= MaxWait
  <2>1. t.wait \in Seq(Calls) /\ Len(t.wait) \in Nat BY <1>7, LenProperties DEF OutOK, RpcStates
  <2>2. MaxWait > 0 => Len(rpc.wait) <= MaxWait BY <1>1 DEF QueuesOK
  <2>3. MaxWait \in Nat /\ Len(t.wait) <= Len(rpc.wait) BY <1>4, <1>7, RpcAssumption
  <2> QED BY <2>1, <2>2, <2>3, <1>1
<1>12. t.phase = "marker" <=> t.pdu = None BY <1>1, <1>4, <1>7 DEF QueuesOK
<1>13. mode.auto = 0 /\ mode.retrans = 0 => Run(t.out, t.tailp) BY <1>1, <1>3, <1>7 DEF QueuesOK
<1>14. QueuesOK(t) BY <1>7, <1>10, <1>11, <1>12, <1>13 DEF QueuesOK
<1>15. Placed(t) = Placed(rpc) \ K /\ K \subseteq Placed(rpc)
  <2>1. K \subseteq Elements(rpc.out) \cup Elements(rpc.wait) BY <1>9 DEF Purged
  <2>2. rpc.pdu \notin K BY <2>1, <1>1 DEF Apart
  <2> QED BY <2>1, <2>2, <1>4, <1>7, <1>9 DEF Placed
<1>16. CutOK(link, t, issued)
  <2>1. SUFFICES ASSUME link.cut # None
                 PROVE  /\ link.cut \in issued /\ link.cut \notin Elements(t.wait)
                        /\ link.cut \in Elements(t.out) => link.cut \in t.begun
    BY DEF CutOK
  <2>2. /\ link.cut \in issued /\ link.cut \notin Elements(rpc.wait)
        /\ link.cut \in Elements(rpc.out) => link.cut \in rpc.begun
    BY <2>1, <1>1 DEF CutOK
  <2>3. ASSUME link.cut \in Elements(t.out) PROVE link.cut \in t.begun
    <3>1. link.cut \in Elements(s.out) BY <2>2, <2>3, <1>4, <1>7
    <3>2. link.cut \in rpc.begun BY <3>1, <2>2, <1>3
    <3> QED BY <3>1, <3>2, <1>3, <1>7
  <2> QED BY <2>2, <2>3, <1>9
<1> QED BY <1>8, <1>14, <1>15, <1>16

LEMMA TimeoutScanStep ==
  ASSUME RpcInv, NEW late \in SUBSET Calls, TimeoutScan(late)
  PROVE  RpcInv' /\ (link'.torn => link.torn)
<1>1. /\ mode' = mode /\ issued' = issued /\ over' = over /\ late \subseteq Purged(rpc)
  BY DEF TimeoutScan, Scanned
<1>2. /\ mode \in Modes /\ over \in BOOLEAN /\ link \in LinkStates /\ Accounts(rpc, called, issued)
      /\ mode.auto \in Int
  BY ModeType DEF RpcInv
<1>3. PICK t : t = ScanWait(ScanOut(rpc, late), late) OBVIOUS
<1>4. PICK K : K = {x \in late : ~Kept(x)} OBVIOUS
<1>5. /\ QueuesOK(t) /\ CutOK(link, t, issued) /\ Placed(t) = Placed(rpc) \ K /\ K \subseteq Placed(rpc)
  BY <1>1, <1>3, <1>4, ScannedOK
<1>6. ASSUME NEW u, Placed(u) = Placed(t) PROVE Accounts(u, Called(K), issued)
  <2>1. Placed(u) \subseteq Placed(rpc) BY <1>5, <1>6
  <2>2. \A y \in Placed(rpc) \ (ZeroCopy \cap Rejectable) : y \in K <=> y \notin Placed(u) BY <1>5, <1>6
  <2> QED BY <2>1, <2>2, <1>2, <1>5, AccountsKept
<1>7. CASE rpc' = t /\ called' = Called(K) /\ link' = link
  <2>1. Accounts(t, Called(K), issued) BY <1>6
  <2>2. RpcInv' BY <2>1, <1>1, <1>2, <1>5, <1>7, Lifted
  <2> QED BY <2>2, <1>7
<1>8. CASE /\ mode.auto # 0 /\ rpc' = ReturnAll(t) /\ called' = Called(K)
           /\ link' = NewLink("connecting", IF mode.auto < 0 THEN 0 ELSE mode.auto - 1)
  <2>1. (IF mode.auto < 0 THEN 0 ELSE mode.auto - 1) \in Int BY <1>2
  <2>2. link' \in LinkStates /\ link'.cut = None /\ link'.torn = FALSE BY <2>1, <1>8, NewLinkOK
  <2>3. PICK u : u = ReturnAll(t) OBVIOUS
  <2>4. QueuesOK(u) /\ Placed(u) = Placed(t) BY <2>3, <1>5, <1>8, ReturnedOK
  <2>5. Accounts(u, Called(K), issued) BY <2>4, <1>6
  <2>6. CutOK(link', u, issued) BY <2>2 DEF CutOK
  <2>7. RpcInv' BY <2>2, <2>3, <2>4, <2>5, <2>6, <1>1, <1>2, <1>8, Lifted
  <2> QED BY <2>2, <2>7
<1> QED BY <1>3, <1>4, <1>7, <1>8 DEF TimeoutScan

(* No action breaks the invariant, and only a write tears the stream.      *)
LEMMA RpcInvStep ==
  ASSUME RpcInv, [Next]_vars
  PROVE  RpcInv' /\ (link'.torn /\ ~link.torn => link.cut \notin Elements(rpc.out))
<1>1. CASE \E x \in Calls : QueuePdu(x) BY <1>1, QueuePduStep
<1>2. CASE \E x \in Calls : ReadMarker(x) BY <1>2, ReadMarkerStep
<1>3. CASE ServiceWrite BY <1>3, ServiceWriteStep
<1>4. CASE LinkFails BY <1>4, LinkFailsStep
<1>5. CASE ConnectDone BY <1>5, ConnectDoneStep
<1>6. CASE ConnectFails BY <1>6, ConnectFailsStep
<1>7. CASE ReadPayload BY <1>7, ReadPayloadStep
<1>8. CASE ReadRejected BY <1>8, ReadRejectedStep
<1>9. CASE ReadData BY <1>9, ReadDataStep
<1>10. CASE \E late \in SUBSET Calls : TimeoutScan(late) BY <1>10, TimeoutScanStep
<1>11. CASE Destroy BY <1>11, DestroyStep
<1>12. CASE UNCHANGED vars
  <2>1. /\ mode' = mode /\ issued' = issued /\ rpc' = rpc /\ called' = called /\ link' = link /\ over' = over
    BY <1>12 DEF vars
  <2>2. /\ mode \in Modes /\ over \in BOOLEAN /\ link \in LinkStates /\ Accounts(rpc, called, issued)
        /\ QueuesOK(rpc) /\ CutOK(link, rpc, issued)
    BY DEF RpcInv
  <2>3. RpcInv' BY <2>1, <2>2, Lifted
  <2> QED BY <2>1, <2>3
<1> QED BY <1>1, <1>2, <1>3, <1>4, <1>5, <1>6, <1>7, <1>8, <1>9, <1>10, <1>11, <1>12 DEF Next

LEMMA RpcInvInit ==
  ASSUME Init PROVE RpcInv
<1>1. /\ mode \in Modes /\ issued = {} /\ rpc = Empty /\ over = FALSE /\ called = [x \in Calls |-> 0]
      /\ link = NewLink("up", 0)
  BY DEF Init
<1>2. <<>> \in Seq(Calls) /\ 0 \in Nat /\ Len(<<>>) = 0 OBVIOUS
<1>3. Elements(<<>>) = {} /\ Distinct(<<>>) BY DEF Elements, Distinct
<1>4. /\ rpc \in RpcStates /\ rpc.out = <<>> /\ rpc.tailp = None /\ rpc.outlen = 0 /\ rpc.wait = <<>>
      /\ rpc.waitlen = 0 /\ rpc.begun = {} /\ rpc.pdu = None /\ rpc.phase = "marker"
  BY <1>1, <1>2 DEF Empty, RpcStates
<1>5. OutOK(rpc) BY <1>2, <1>3, <1>4 DEF OutOK
<1>6. WaitOK(rpc) BY <1>2, <1>3, <1>4 DEF WaitOK
<1>7. Apart(rpc) BY <1>3, <1>4 DEF Apart
<1>8. Run(rpc.out, rpc.tailp) BY <1>4 DEF Run
<1>9. MaxWait > 0 => Len(rpc.wait) <= MaxWait BY <1>2, <1>4, RpcAssumption
<1>10. QueuesOK(rpc) BY <1>4, <1>5, <1>6, <1>7, <1>8, <1>9 DEF QueuesOK
<1>11. Placed(rpc) = {} BY <1>3, <1>4 DEF Placed
<1>12. Accounts(rpc, called, issued)
  <2>1. \A x \in Calls : called[x] = 0 BY <1>1
  <2>2. called \in [Calls -> Nat] BY <1>1
  <2> QED BY <1>1, <1>11, <2>1, <2>2 DEF Accounts
<1>13. link \in LinkStates /\ link.cut = None
  <2>1. 0 \in Int OBVIOUS
  <2> QED BY <1>1, <2>1, NewLinkOK
<1>14. CutOK(link, rpc, issued) BY <1>13 DEF CutOK
<1> QED BY <1>1, <1>10, <1>12, <1>13, <1>14 DEF RpcInv

------------------------------------------------------------------------------
(* What it says of the queues.                                             *)

(* A call stands at most once in a queue.                                  *)
LEMMA CountIs ==
  ASSUME NEW s \in Seq(Calls), Distinct(s), NEW x
  PROVE  Cardinality({i \in 1..Len(s) : s[i] = x}) = IF x \in Elements(s) THEN 1 ELSE 0
<1>1. CASE x \in Elements(s)
  <2>1. PICK k \in 1..Len(s) : s[k] = x BY <1>1 DEF Elements
  <2>2. {i \in 1..Len(s) : s[i] = x} = {k} BY <2>1 DEF Distinct
  <2> QED BY <2>2, <1>1, FS_Singleton
<1>2. CASE x \notin Elements(s)
  <2>1. {i \in 1..Len(s) : s[i] = x} = {} BY <1>2 DEF Elements
  <2> QED BY <2>1, <1>2, FS_EmptySet
<1> QED BY <1>1, <1>2

(* The parts of QueuesRight follow.                                        *)
LEMMA RpcInvOnePlace == ASSUME RpcInv PROVE OnePlace
<1>1. /\ QueuesOK(rpc) /\ Accounts(rpc, called, issued) /\ OutOK(rpc) /\ WaitOK(rpc) /\ Apart(rpc)
      /\ rpc.out \in Seq(Calls) /\ rpc.wait \in Seq(Calls) /\ Distinct(rpc.out) /\ Distinct(rpc.wait)
  BY DEF RpcInv, QueuesOK, OutOK, WaitOK, RpcStates
<1>2. SUFFICES ASSUME NEW x \in issued
               PROVE  IF x \in ZeroCopy \cap Rejectable THEN Places(x) <= 1 ELSE Places(x) + called[x] = 1
  BY DEF OnePlace
<1>3. x \in Calls /\ x # None BY <1>1, RpcAssumption DEF Accounts
<1>4. PICK a : a = Cardinality({i \in 1..Len(rpc.out) : rpc.out[i] = x}) OBVIOUS
<1>5. PICK b : b = Cardinality({i \in 1..Len(rpc.wait) : rpc.wait[i] = x}) OBVIOUS
<1>6. PICK c : c = IF rpc.pdu = x THEN 1 ELSE 0 OBVIOUS
<1>7. a = (IF x \in Elements(rpc.out) THEN 1 ELSE 0) BY <1>1, <1>4, CountIs
<1>8. b = (IF x \in Elements(rpc.wait) THEN 1 ELSE 0) BY <1>1, <1>5, CountIs
<1>9. Places(x) = a + b + c BY <1>4, <1>5, <1>6 DEF Places
<1>10. a + b + c = IF x \in Placed(rpc) THEN 1 ELSE 0
  <2>1. /\ ~(x \in Elements(rpc.out) /\ x \in Elements(rpc.wait))
        /\ ~(x \in Elements(rpc.out) /\ rpc.pdu = x) /\ ~(x \in Elements(rpc.wait) /\ rpc.pdu = x)
    BY <1>1 DEF Apart
  <2>2. x \in Placed(rpc) <=> x \in Elements(rpc.out) \/ x \in Elements(rpc.wait) \/ rpc.pdu = x
    BY <1>3 DEF Placed
  <2> QED BY <2>1, <2>2, <1>6, <1>7, <1>8
<1>11. x \notin ZeroCopy \cap Rejectable => called[x] = IF x \in Placed(rpc) THEN 0 ELSE 1
  BY <1>1 DEF Accounts
<1> QED BY <1>9, <1>10, <1>11

LEMMA RpcInvTailp == ASSUME RpcInv PROVE TailpEndsRun
<1>1. /\ OutOK(rpc) /\ rpc.out \in Seq(Calls) /\ Len(rpc.out) \in Nat /\ rpc.tailp \in Calls \cup {None}
  BY LenProperties DEF RpcInv, QueuesOK, OutOK, RpcStates
<1>2. rpc.tailp # None => rpc.tailp \in High \cap Elements(rpc.out) BY <1>1 DEF OutOK
<1>3. ASSUME mode.auto = 0, mode.retrans = 0, rpc.out # <<>>
      PROVE  rpc.out[Len(rpc.out)] \in High <=> rpc.tailp = rpc.out[Len(rpc.out)]
  <2>1. Run(rpc.out, rpc.tailp) BY <1>3 DEF RpcInv, QueuesOK
  <2>2. Len(rpc.out) \in 1..Len(rpc.out) BY <1>1, <1>3, HeadIs
  <2>3. ASSUME rpc.out[Len(rpc.out)] \in High PROVE rpc.tailp = rpc.out[Len(rpc.out)]
    <3>1. PICK k \in Len(rpc.out)..Len(rpc.out) : rpc.out[k] = rpc.tailp BY <2>1, <2>2, <2>3 DEF Run
    <3>2. k = Len(rpc.out) BY <1>1
    <3> QED BY <3>1, <3>2
  <2>4. ASSUME rpc.tailp = rpc.out[Len(rpc.out)] PROVE rpc.out[Len(rpc.out)] \in High
    <3>1. rpc.out[Len(rpc.out)] \in Calls BY <1>1, <2>2
    <3> QED BY <3>1, <2>4, <1>2, RpcAssumption
  <2> QED BY <2>3, <2>4
<1> QED BY <1>2, <1>3 DEF TailpEndsRun

LEMMA RpcInvTyped == ASSUME RpcInv PROVE TypeOK
BY DEF RpcInv, QueuesOK, OutOK, RpcStates, Accounts, LinkStates, TypeOK

LEMMA RpcInvMeans == ASSUME RpcInv PROVE QueuesRight
<1>1. Counted BY DEF RpcInv, QueuesOK, OutOK, WaitOK, Counted
<1>2. InFlightBounded BY DEF RpcInv, QueuesOK, InFlightBounded
<1>3. OnlyHeadBegun BY DEF RpcInv, QueuesOK, OutOK, OnlyHeadBegun
<1> QED BY <1>1, <1>2, <1>3, RpcInvTyped, RpcInvOnePlace, RpcInvTailp DEF QueuesRight

(* The inductive invariant of the transport holds in every state.          *)
THEOREM RpcInvariant == Spec => []RpcInv
<1>1. Init => RpcInv BY RpcInvInit
<1>2. RpcInv /\ [Next]_vars => RpcInv' BY RpcInvStep
<1> QED BY <1>1, <1>2, PTL DEF Spec

(* The queues of rpc_context are right in every state, for any number of   *)
(* calls and any limit: each call is in one place, what is counted is so,  *)
(* the limit is kept, and tailp and the half-written PDU are where the     *)
(* next insertion looks for them (pdu.c, socket.c).                        *)
THEOREM QueuesStayRight == Spec => []QueuesRight
<1>1. RpcInv => QueuesRight BY RpcInvMeans
<1> QED BY <1>1, RpcInvariant, PTL

(* No step puts another PDU behind the part of one that is still queued:   *)
(* rpc_add_to_outqueue_head keeps a begun head, and only the removal of a  *)
(* half-written PDU tears the stream.                                      *)
THEOREM OnlyRemovalTears == Spec => TornOnlyByRemoval
<1>1. RpcInv /\ [Next]_vars => [link'.torn /\ ~link.torn => link.cut \notin Elements(rpc.out)]_vars
  BY RpcInvStep
<1> QED BY <1>1, RpcInvariant, PTL DEF Spec, TornOnlyByRemoval
==============================================================================
