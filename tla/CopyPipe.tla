------------------------------ MODULE CopyPipe ------------------------------
(***************************************************************************)
(* CopyEngine.pipe: the two-thread read/write pipeline every streamed copy *)
(* (and ArchiveWriter's compression) runs through.  The reader thread      *)
(* takes an empty buffer from `pool`, reads one chunk of the source into   *)
(* it and offers it to `filled`; the calling thread polls `filled`, writes *)
(* the chunk to the destination and puts the buffer back.                  *)
(*                                                                         *)
(* A chunk is the number of its position in the source.  held[b] is the    *)
(* chunk whose bytes buffer b holds at this moment, so a buffer handed out *)
(* twice shows up as a chunk written out of place.                         *)
(***************************************************************************)
EXTENDS Integers, Sequences

CONSTANTS PipeDepth,    \* PIPE_DEPTH: how many buffers circulate
          Chunks        \* how many chunks the source can deliver

ASSUME PipeAssumption == PipeDepth \in Nat \ {0} /\ Chunks \in Nat

Buffers == 1..PipeDepth
NoBuffer == 0
\* Variant: fewer slots than buffers.
FilledTooSmall == PipeDepth - 1
\* `filled` has one slot more than there are buffers.
FilledCapacity == PipeDepth + 1

VARIABLES
  pool,         \* the empty buffers: ArrayBlockingQueue(PIPE_DEPTH)
  filled,       \* the filled buffers, oldest first; end = length < 0
  held,         \* the chunk each buffer holds, 0 before its first read
  readerPc, readerBuf, readerEnd,
  position,     \* chunks the source has delivered so far
  err,          \* the AtomicReference: some read threw
  interrupted,  \* the reader's interrupt flag
  writerPc, writerBuf,
  cancelled,    \* what cancelled.isCancelled() answers
  out,          \* the chunks written to the destination
  reported,     \* chunks reported through onChunk
  result        \* how pipe() ended

readerVars == <<readerPc, readerBuf, readerEnd, position, held>>
writerVars == <<writerPc, writerBuf, out, reported, result>>
pipeVars == <<pool, filled, err, interrupted, cancelled, readerVars, writerVars>>

PipeInit ==
  /\ pool = Buffers /\ filled = <<>>
  /\ held = [b \in Buffers |-> 0]
  /\ readerPc = "take" /\ readerBuf = NoBuffer /\ readerEnd = FALSE
  /\ position = 0 /\ err = FALSE /\ interrupted = FALSE
  /\ writerPc = "check" /\ writerBuf = NoBuffer
  /\ cancelled = FALSE /\ out = <<>> /\ reported = 0 /\ result = "none"

-----------------------------------------------------------------------------
(* The reader thread *)

\* Variant: the buffer stays in the pool while it is in use.
TakeWithoutRemoving ==
  /\ readerPc = "take"
  /\ \/ interrupted /\ readerPc' = "done" /\ UNCHANGED readerBuf
     \/ ~interrupted /\ readerPc' = "read" /\ readerBuf' \in pool
  /\ UNCHANGED <<pool, filled, err, interrupted, cancelled, readerEnd, position, held, writerVars>>

\* pool.take(): blocks while the pool is empty, throws when interrupted.
Take ==
  /\ readerPc = "take"
  /\ \/ /\ interrupted
        /\ readerPc' = "done"
        /\ UNCHANGED <<pool, readerBuf>>
     \/ /\ ~interrupted
        /\ \E b \in pool : readerBuf' = b /\ pool' = pool \ {b}
        /\ readerPc' = "read"
  /\ UNCHANGED <<filled, err, interrupted, cancelled, readerEnd, position, held, writerVars>>

\* input.read(): a chunk, the end of the stream, or an exception.  A backend
\* may report the end too early (a failed read seen as EOF), and a blocking
\* read may consume the interrupt by throwing.
Read ==
  /\ readerPc = "read"
  /\ readerPc' = "offer"
  /\ \/ /\ position < Chunks
        /\ position' = position + 1
        /\ held' = [held EXCEPT ![readerBuf] = position + 1]
        /\ readerEnd' = FALSE
        /\ UNCHANGED <<err, interrupted>>
     \/ /\ readerEnd' = TRUE
        /\ UNCHANGED <<err, interrupted, position, held>>
     \/ /\ readerEnd' = TRUE /\ err' = TRUE
        /\ interrupted' \in {interrupted, FALSE}
        /\ UNCHANGED <<position, held>>
  /\ UNCHANGED <<pool, filled, cancelled, readerBuf, writerVars>>

\* filled.offer(): throws when interrupted.  Its 30 s timeout needs a full
\* queue, which OfferNeverBlocks rules out.  After the end marker the thread
\* returns.
Offer ==
  /\ readerPc = "offer"
  /\ \/ /\ interrupted
        /\ readerPc' = "done"
        /\ UNCHANGED <<filled, readerBuf>>
     \/ /\ ~interrupted
        /\ Len(filled) < FilledCapacity
        /\ filled' = Append(filled, [buf |-> readerBuf, end |-> readerEnd])
        /\ readerBuf' = NoBuffer
        /\ readerPc' = IF readerEnd THEN "done" ELSE "take"
  /\ UNCHANGED <<pool, err, interrupted, cancelled, readerEnd, position, held, writerVars>>

-----------------------------------------------------------------------------
(* The calling thread *)

\* Variant: no finally block.
LeavePipeQuietly(r) == result' = r /\ writerPc' = "done" /\ UNCHANGED interrupted

\* Leaving pipe() runs its finally block: reader.interrupt().
LeavePipe(r) ==
  /\ result' = r
  /\ writerPc' = "done"
  /\ interrupted' = (readerPc # "done")

CheckCancelled ==
  /\ writerPc = "check"
  /\ \/ cancelled /\ LeavePipe("cancelled")
     \/ ~cancelled /\ writerPc' = "poll" /\ UNCHANGED <<interrupted, result>>
  /\ UNCHANGED <<pool, filled, err, cancelled, readerVars, writerBuf, out, reported>>

\* Variant: the error flag is never looked at.
OutcomeIgnoringErr == "done"
Outcome == IF err THEN "failed" ELSE "done"

\* Variant: filled.take() instead of poll.
PollForEver ==
  /\ writerPc = "poll" /\ filled # <<>>
  /\ filled' = Tail(filled) /\ writerBuf' = Head(filled).buf
  /\ IF Head(filled).end THEN LeavePipe(Outcome)
                          ELSE writerPc' = "write" /\ UNCHANGED <<interrupted, result>>
  /\ UNCHANGED <<pool, err, cancelled, readerVars, out, reported>>

\* filled.poll(500 ms) ?: continue.  On the end marker: rethrow err or return true.
Poll ==
  /\ writerPc = "poll"
  /\ \/ /\ filled = <<>>
        /\ writerPc' = "check"
        /\ UNCHANGED <<filled, writerBuf, interrupted, result>>
     \/ /\ filled # <<>>
        /\ filled' = Tail(filled)
        /\ writerBuf' = Head(filled).buf
        /\ IF Head(filled).end
             THEN LeavePipe(Outcome)
             ELSE writerPc' = "write" /\ UNCHANGED <<interrupted, result>>
  /\ UNCHANGED <<pool, err, cancelled, readerVars, out, reported>>

\* output.write(): the destination may refuse the chunk.
Write ==
  /\ writerPc = "write"
  /\ \/ /\ out' = Append(out, held[writerBuf])
        /\ writerPc' = "recycle"
        /\ UNCHANGED <<interrupted, result>>
     \/ /\ LeavePipe("failed")
        /\ UNCHANGED out
  /\ UNCHANGED <<pool, filled, err, cancelled, readerVars, writerBuf, reported>>

\* pool.put(buf); onChunk(n)
Recycle ==
  /\ writerPc = "recycle"
  /\ pool' = pool \cup {writerBuf}
  /\ writerBuf' = NoBuffer
  /\ reported' = reported + 1
  /\ writerPc' = "check"
  /\ UNCHANGED <<filled, err, interrupted, cancelled, readerVars, out, result>>

\* The user cancels the transfer at any moment.
Cancel ==
  /\ ~cancelled /\ writerPc # "done"
  /\ cancelled' = TRUE
  /\ UNCHANGED <<pool, filled, err, interrupted, readerVars, writerVars>>

\* Both threads have ended.
Ended ==
  /\ writerPc = "done" /\ readerPc = "done"
  /\ UNCHANGED pipeVars

Reader == Take \/ Read \/ Offer
Writer == CheckCancelled \/ Poll \/ Write \/ Recycle
PipeNext == Reader \/ Writer \/ Cancel \/ Ended

PipeSpec == PipeInit /\ [][PipeNext]_pipeVars
\* The calling thread keeps running and the destination answers every write;
\* nothing is assumed of the source, whose read may block for ever.
PipeFairSpec == PipeSpec /\ WF_pipeVars(Writer)
\* The source answers or throws in the end, and its thread runs.
SourceAnswers == WF_pipeVars(Reader)

-----------------------------------------------------------------------------
(* Properties *)

FlagsOK ==
  /\ readerEnd \in BOOLEAN /\ err \in BOOLEAN
  /\ interrupted \in BOOLEAN /\ cancelled \in BOOLEAN

PipeTypeOK ==
  /\ FlagsOK
  /\ pool \in SUBSET Buffers
  /\ filled \in Seq([buf : Buffers, end : BOOLEAN])
  /\ held \in [Buffers -> 0..Chunks]
  /\ readerPc \in {"take", "read", "offer", "done"}
  /\ readerBuf \in Buffers \cup {NoBuffer}
  /\ position \in 0..Chunks
  /\ writerPc \in {"check", "poll", "write", "recycle", "done"}
  /\ writerBuf \in Buffers \cup {NoBuffer}
  /\ out \in Seq(0..Chunks) /\ reported \in Nat
  /\ result \in {"none", "done", "cancelled", "failed"}

\* A buffer is never in two hands: not both empty and queued, not queued
\* twice, never with the reader while the writer still copies from it
\* (pool.take / pool.put around the read and the write).
NoSharedBuffer ==
  /\ \A i, j \in 1..Len(filled) : i # j => filled[i].buf # filled[j].buf
  /\ \A i \in 1..Len(filled) : filled[i].buf \notin pool \cup {readerBuf, writerBuf}
  /\ readerBuf \notin pool /\ writerBuf \notin pool
  /\ readerBuf = writerBuf => readerBuf = NoBuffer

\* The destination receives the source's chunks in order, without a gap, a
\* repeat or a chunk overwritten while it was queued.
OutInOrder == \A i \in 1..Len(out) : out[i] = i

\* A pipe that returned true wrote and reported everything the source
\* delivered, saw no read error, and left no thread reading from `input`,
\* which its caller closes next.
SuccessIsWhole ==
  result = "done" =>
    /\ ~err /\ Len(out) = position /\ reported = position
    /\ readerPc = "done"

\* The reader never finds `filled` full, even when it offers the end marker
\* to a writer that has stopped polling, so its 30 s offer timeout cannot
\* drop a chunk.
OfferNeverBlocks == readerPc = "offer" => Len(filled) < FilledCapacity

\* A cancelled pipe returns even if the source never answers its read
\* (the 500 ms poll).
CancelReturns == cancelled ~> writerPc = "done"

\* The reader thread does not outlive the pipe for good, if the source answers.
ReaderLeaves == SourceAnswers => (writerPc = "done" ~> readerPc = "done")
=============================================================================
