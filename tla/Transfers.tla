------------------------------ MODULE Transfers ------------------------------
(***************************************************************************)
(* Transfers and TransferService: the one running session, the transfer    *)
(* thread that works on it, and the main thread with everything the user   *)
(* does: attaching and detaching the progress box, answering a same-name   *)
(* conflict, cancelling, retrying a failed session or letting it go.       *)
(*                                                                         *)
(* The main thread's steps are atomic towards each other; what makes this  *)
(* hard is that the transfer thread runs between any two of them, and      *)
(* between the two halves of Session.cancel.  The work itself (CopyEngine) *)
(* is a thread that looks at the cancel flag, meets conflicts and ends.    *)
(***************************************************************************)
EXTENDS Integers, Sequences, FiniteSets

CONSTANTS
  Decisions,      \* OVERWRITE, SKIP, RENAME
  UserCancels,    \* whether the user presses Cancel at all
  MaxStarts,      \* bounds: transfers the user starts afresh, ...
  MaxSessions, MaxConflicts, MaxDetaches   \* ... sessions with the retries, ...

ASSUME TransfersAssumption ==
  /\ "null" \notin Decisions /\ "none" \notin Decisions
  /\ UserCancels \in BOOLEAN
  /\ MaxStarts \in Nat /\ MaxSessions \in Nat /\ MaxConflicts \in Nat /\ MaxDetaches \in Nat

Sessions == 1..MaxSessions
None == 0
Conflicts == 1..MaxConflicts
NoConflict == 0
Answers == Decisions \cup {"null"}

VARIABLES
  active, ui, pendingResult,   \* Transfers' fields; ui is the session whose box is attached
  checkpoint,     \* checkpoint[s]: whose checkpoint session s continues, itself or an earlier one
  partials,       \* partials[s]: the checkpoint of s lists partial files
  startIntents,   \* start intents on their way to onStartCommand
  thread,         \* where the transfer thread of each session is
  owner,          \* the session that met each conflict
  cancelled, applyAll, pendingConflict, finished,   \* fields of Session
  slot,           \* the answer in a Conflict's queue
  asked,          \* how many conflicts there have been
  messages,       \* the main Handler's queue
  mainPc,         \* the session whose cancel() the main thread is halfway through
  dialogs,        \* conflict dialogs on screen: the conflict, and who showed it
  retryDialogs,   \* sessions whose retry dialog is on screen
  detaches,       \* how often the box has been detached or the screen recreated
  given, taken,   \* history: the first answer to each conflict, and the one acted on
  orphaned        \* history: sessions whose offer to retry went away without the user's doing

staticVars == <<active, ui, pendingResult>>
retryVars == <<checkpoint, partials, retryDialogs, orphaned>>
sessionVars == <<cancelled, applyAll, pendingConflict, finished>>
threadVars == <<thread, owner>>
answerVars == <<slot, given, taken>>
vars == <<staticVars, retryVars, startIntents, threadVars, sessionVars, answerVars, asked,
          messages, mainPc, dialogs, detaches>>

Init ==
  /\ active = None /\ ui = None /\ pendingResult = None
  /\ checkpoint = [s \in Sessions |-> None] /\ partials = [s \in Sessions |-> FALSE]
  /\ startIntents = 0
  /\ thread = [s \in Sessions |-> "none"] /\ owner = [c \in Conflicts |-> None]
  /\ cancelled = [s \in Sessions |-> FALSE] /\ applyAll = [s \in Sessions |-> "none"]
  /\ pendingConflict = [s \in Sessions |-> NoConflict]
  /\ finished = [s \in Sessions |-> "none"]
  /\ slot = [c \in Conflicts |-> "none"]
  /\ given = [c \in Conflicts |-> "none"] /\ taken = [c \in Conflicts |-> "none"]
  /\ asked = 0 /\ messages = <<>> /\ mainPc = None
  /\ dialogs = {} /\ retryDialogs = {} /\ orphaned = {} /\ detaches = 0

-----------------------------------------------------------------------------
(* The main thread: starting and watching a session *)

Busy == active # None

\* Variant: a running session does not refuse the next one.
StartsAnyway(s, holder) ==
  /\ checkpoint[s] = None
  /\ \A t \in Sessions : t < s => checkpoint[t] # None
  /\ checkpoint' = [checkpoint EXCEPT ![s] = holder]
  /\ active' = s
  /\ startIntents' = startIntents + 1

\* Transfers.start on a session made before; its intent is on the way.
Starts(s, holder) ==
  /\ ~Busy /\ checkpoint[s] = None
  /\ \A t \in Sessions : t < s => checkpoint[t] # None
  /\ checkpoint' = [checkpoint EXCEPT ![s] = holder]
  /\ active' = s
  /\ startIntents' = startIntents + 1

Start(s) ==
  /\ mainPc = None /\ Starts(s, s)
  /\ Cardinality({t \in Sessions : checkpoint[t] = t}) < MaxStarts
  /\ UNCHANGED <<ui, pendingResult, partials, retryDialogs, orphaned, threadVars, sessionVars,
                 answerVars, asked, messages, mainPc, dialogs, detaches>>

\* TransferService.onStartCommand: a thread for whatever session is active.
OnStartCommand ==
  /\ mainPc = None /\ startIntents > 0
  /\ startIntents' = startIntents - 1
  /\ thread' = IF Busy THEN [thread EXCEPT ![active] = "run"] ELSE thread
  /\ UNCHANGED <<staticVars, retryVars, owner, sessionVars, answerVars, asked, messages,
                 mainPc, dialogs, detaches>>

\* Variant: attach does not look for a waiting conflict.
AttachSilently ==
  /\ mainPc = None /\ Busy /\ ui = None
  /\ ui' = active
  /\ UNCHANGED <<active, pendingResult, retryVars, startIntents, threadVars, sessionVars,
                 answerVars, asked, messages, mainPc, dialogs, detaches>>

\* showTransferBox and attach: a conflict that waits is shown once more.
Attach ==
  /\ mainPc = None /\ Busy /\ ui = None
  /\ ui' = active
  /\ LET c == pendingConflict[active] IN
     dialogs' = IF c # NoConflict THEN dialogs \cup {<<c, "attach">>} ELSE dialogs
  /\ UNCHANGED <<active, pendingResult, retryVars, startIntents, threadVars, sessionVars,
                 answerVars, asked, messages, mainPc, detaches>>

\* "Run in background", a button no conflict dialog covers.
Detach ==
  /\ mainPc = None /\ ui # None /\ dialogs = {} /\ detaches < MaxDetaches
  /\ ui' = None /\ detaches' = detaches + 1
  /\ UNCHANGED <<active, pendingResult, retryVars, startIntents, threadVars, sessionVars,
                 answerVars, asked, messages, mainPc, dialogs>>

\* The activity is destroyed and made again.  onDestroyView detaches the box; the
\* dialogs, retry dialogs among them, go with the window, and nobody is told.
Recreate ==
  /\ mainPc = None /\ detaches < MaxDetaches
  /\ ui' = None /\ dialogs' = {} /\ retryDialogs' = {} /\ detaches' = detaches + 1
  /\ orphaned' = orphaned \cup retryDialogs
  /\ UNCHANGED <<active, pendingResult, checkpoint, partials, startIntents, threadVars,
                 sessionVars, answerVars, asked, messages, mainPc>>

-----------------------------------------------------------------------------
(* The main thread: cancelling and answering *)

\* Variant: one queue for all questions.
SharedQueue(c) == 1
\* The queue of a Conflict: it belongs to this one question.
Queue(c) == c

\* Conflict.answer: offer keeps the first answer; `given` remembers it.
Answered(c, d) ==
  /\ slot' = IF slot[Queue(c)] = "none" THEN [slot EXCEPT ![Queue(c)] = d] ELSE slot
  /\ given' = IF given[c] = "none" THEN [given EXCEPT ![c] = d] ELSE given
  /\ UNCHANGED taken

\* Session.cancel from the box or the notification, its first line.
CancelPressed ==
  /\ UserCancels /\ mainPc = None /\ Busy
  /\ cancelled' = [cancelled EXCEPT ![active] = TRUE]
  /\ mainPc' = active
  /\ UNCHANGED <<staticVars, retryVars, startIntents, threadVars, applyAll, pendingConflict,
                 finished, answerVars, asked, messages, dialogs, detaches>>

\* Variant: cancel only sets the flag.
CancelFlagOnly ==
  /\ mainPc # None /\ mainPc' = None
  /\ UNCHANGED <<staticVars, retryVars, startIntents, threadVars, sessionVars, answerVars, asked,
                 messages, dialogs, detaches>>

\* Its last line releases the conflict, if there is one by now.
CancelReleases ==
  /\ mainPc # None /\ mainPc' = None
  /\ LET c == pendingConflict[mainPc] IN
     IF c # NoConflict THEN Answered(c, "null") ELSE UNCHANGED answerVars
  /\ UNCHANGED <<staticVars, retryVars, startIntents, threadVars, sessionVars, asked, messages,
                 dialogs, detaches>>

\* "Apply to all" is remembered for a real decision only.
Remembers(d, all) == all /\ d # "null"

\* The user answers a conflict dialog, perhaps for all that follow.
Answer(w, d, all) ==
  /\ mainPc = None /\ w \in dialogs
  /\ dialogs' = dialogs \ {w}
  /\ Answered(w[1], d)
  /\ applyAll' = IF Remembers(d, all) THEN [applyAll EXCEPT ![owner[w[1]]] = d] ELSE applyAll
  /\ UNCHANGED <<staticVars, retryVars, startIntents, threadVars, cancelled, pendingConflict,
                 finished, asked, messages, mainPc, detaches>>

-----------------------------------------------------------------------------
(* The main thread: posted messages, and the end of a session *)

\* ui?.onConflict
OnConflict ==
  /\ mainPc = None /\ messages # <<>> /\ Head(messages).type = "conflict"
  /\ messages' = Tail(messages)
  /\ dialogs' = IF ui # None THEN dialogs \cup {<<Head(messages).of, "post">>} ELSE dialogs
  /\ UNCHANGED <<staticVars, retryVars, startIntents, threadVars, sessionVars, answerVars, asked,
                 mainPc, detaches>>

\* finishTransfer's retry dialog: for a failed session nobody cancelled.
Retriable(s) == finished[s] = "failed" /\ ~cancelled[s]
Shown(s) == IF Retriable(s) THEN retryDialogs \cup {s} ELSE retryDialogs

\* The message finish posts: the session is over, and its box or, later, the
\* screen that comes back shows the result.  pendingResult holds one session: an
\* earlier one not yet shown is forgotten.
OnFinish ==
  /\ mainPc = None /\ messages # <<>> /\ Head(messages).type = "finish"
  /\ messages' = Tail(messages)
  /\ active' = None /\ ui' = None
  /\ LET s == Head(messages).of IN
     IF ui = None
     THEN /\ pendingResult' = s /\ UNCHANGED retryDialogs
          /\ orphaned' = orphaned \cup {t \in {pendingResult} \ {None} : Retriable(t)}
     ELSE retryDialogs' = Shown(s) /\ UNCHANGED <<pendingResult, orphaned>>
  /\ UNCHANGED <<checkpoint, partials, startIntents, threadVars, sessionVars, answerVars, asked,
                 mainPc, dialogs, detaches>>

\* consumeFinished, when the main screen resumes or hears ACTION_FINISHED.
ConsumeFinished ==
  /\ mainPc = None /\ pendingResult # None
  /\ pendingResult' = None
  /\ retryDialogs' = Shown(pendingResult)
  /\ UNCHANGED <<active, ui, checkpoint, partials, orphaned, startIntents, threadVars,
                 sessionVars, answerVars, asked, messages, mainPc, dialogs, detaches>>

\* Variant: the dialog stays when the retry has started.
RetryPressedDialogStays(s, t) ==
  /\ mainPc = None /\ s \in retryDialogs /\ Starts(t, checkpoint[s])
  /\ UNCHANGED <<ui, pendingResult, partials, retryDialogs, orphaned, threadVars, sessionVars,
                 answerVars, asked, messages, mainPc, dialogs, detaches>>

\* continueTransfer: a new session goes on with the old one's checkpoint.  While
\* another transfer runs the dialog stays.
RetryPressed(s, t) ==
  /\ mainPc = None /\ s \in retryDialogs /\ Starts(t, checkpoint[s])
  /\ retryDialogs' = retryDialogs \ {s}
  /\ UNCHANGED <<ui, pendingResult, partials, orphaned, threadVars, sessionVars, answerVars,
                 asked, messages, mainPc, dialogs, detaches>>

\* Variant: the dialog just closes.
DismissOnly(s) ==
  /\ mainPc = None /\ s \in retryDialogs
  /\ retryDialogs' = retryDialogs \ {s}
  /\ UNCHANGED <<staticVars, checkpoint, partials, orphaned, startIntents, threadVars,
                 sessionVars, answerVars, asked, messages, mainPc, dialogs, detaches>>

\* The dialog is dismissed: discardPartials.
Dismiss(s) ==
  /\ mainPc = None /\ s \in retryDialogs
  /\ retryDialogs' = retryDialogs \ {s}
  /\ partials' = [partials EXCEPT ![checkpoint[s]] = FALSE]
  /\ UNCHANGED <<staticVars, checkpoint, orphaned, startIntents, threadVars, sessionVars,
                 answerVars, asked, messages, mainPc, dialogs, detaches>>

-----------------------------------------------------------------------------
(* The transfer thread of session s *)

\* CopyEngine finds a same-name conflict, having looked at the cancel flag
\* before it listed the directory.
MeetConflict(s) ==
  /\ thread[s] = "run" /\ ~cancelled[s] /\ asked < MaxConflicts
  /\ asked' = asked + 1
  /\ owner' = [owner EXCEPT ![asked + 1] = s]
  /\ thread' = [thread EXCEPT ![s] = "resolve"]
  /\ UNCHANGED <<staticVars, retryVars, startIntents, sessionVars, answerVars, messages, mainPc,
                 dialogs, detaches>>

\* resolverFor: the remembered choice ...
ApplyRemembered(s) ==
  /\ thread[s] = "resolve" /\ applyAll[s] # "none"
  /\ thread' = [thread EXCEPT ![s] = "run"]
  /\ UNCHANGED <<staticVars, retryVars, startIntents, owner, sessionVars, answerVars, asked,
                 messages, mainPc, dialogs, detaches>>

\* ... or a question: first the field, ...
Ask(s) ==
  /\ thread[s] = "resolve" /\ applyAll[s] = "none"
  /\ pendingConflict' = [pendingConflict EXCEPT ![s] = asked]
  /\ thread' = [thread EXCEPT ![s] = "post"]
  /\ UNCHANGED <<staticVars, retryVars, startIntents, owner, cancelled, applyAll, finished,
                 answerVars, asked, messages, mainPc, dialogs, detaches>>

\* ... then the message to the main thread, ...
PostConflict(s) ==
  /\ thread[s] = "post"
  /\ messages' = Append(messages, [type |-> "conflict", of |-> pendingConflict[s]])
  /\ thread' = [thread EXCEPT ![s] = "await"]
  /\ UNCHANGED <<staticVars, retryVars, startIntents, owner, sessionVars, answerVars, asked,
                 mainPc, dialogs, detaches>>

\* ... then it waits for the answer.
Await(s) ==
  LET c == pendingConflict[s]
      d == slot[Queue(c)] IN
  /\ thread[s] = "await" /\ d # "none"
  /\ slot' = [slot EXCEPT ![Queue(c)] = "none"]
  /\ taken' = [taken EXCEPT ![c] = d]
  /\ pendingConflict' = [pendingConflict EXCEPT ![s] = NoConflict]
  /\ cancelled' = IF d = "null" THEN [cancelled EXCEPT ![s] = TRUE] ELSE cancelled
  /\ thread' = [thread EXCEPT ![s] = "run"]
  /\ UNCHANGED <<staticVars, retryVars, startIntents, owner, applyAll, finished, given, asked,
                 messages, mainPc, dialogs, detaches>>

\* The work ends, or throws and may leave partial files for a retry.
WorkEnds(s) ==
  /\ thread[s] = "run"
  /\ \/ finished' = [finished EXCEPT ![s] = "success"] /\ UNCHANGED partials
     \/ /\ finished' = [finished EXCEPT ![s] = "failed"]
        /\ \E left \in BOOLEAN : partials' = [partials EXCEPT ![checkpoint[s]] = left]
  /\ thread' = [thread EXCEPT ![s] = "ended"]
  /\ UNCHANGED <<staticVars, checkpoint, retryDialogs, orphaned, startIntents, owner, cancelled,
                 applyAll, pendingConflict, answerVars, asked, messages, mainPc, dialogs, detaches>>

\* execute's last lines: discardPartials unless a retry may want them, finish.
Finish(s) ==
  /\ thread[s] = "ended"
  /\ partials' = IF cancelled[s] \/ finished[s] = "success"
                 THEN [partials EXCEPT ![checkpoint[s]] = FALSE] ELSE partials
  /\ messages' = Append(messages, [type |-> "finish", of |-> s])
  /\ thread' = [thread EXCEPT ![s] = "gone"]
  /\ UNCHANGED <<staticVars, checkpoint, retryDialogs, orphaned, startIntents, owner,
                 sessionVars, answerVars, asked, mainPc, dialogs, detaches>>

-----------------------------------------------------------------------------

MainStep == OnStartCommand \/ CancelReleases \/ OnConflict \/ OnFinish
ThreadStep(s) == MeetConflict(s) \/ ApplyRemembered(s) \/ Ask(s) \/ PostConflict(s) \/ Await(s)
                   \/ WorkEnds(s) \/ Finish(s)
AnswerSome == \E w \in dialogs, d \in Answers, all \in BOOLEAN : Answer(w, d, all)

Next ==
  \/ MainStep \/ Attach \/ Detach \/ Recreate \/ CancelPressed \/ ConsumeFinished \/ AnswerSome
  \/ \E s \in Sessions : Start(s) \/ Dismiss(s) \/ ThreadStep(s)
  \/ \E s, t \in Sessions : RetryPressed(s, t)

Spec == Init /\ [][Next]_vars

\* The threads run, and the looper, which is first come first served, gets to
\* every message and intent whatever else the user taps.
FairSpec ==
  /\ Spec
  /\ \A s \in Sessions : WF_vars(ThreadStep(s))
  /\ SF_vars(OnStartCommand) /\ WF_vars(CancelReleases) /\ SF_vars(OnConflict) /\ SF_vars(OnFinish)
\* The user comes back to a running transfer and answers what is asked.
UserReturns == SF_vars(Attach) /\ SF_vars(AnswerSome)

-----------------------------------------------------------------------------
(* Properties *)

TypeOK ==
  /\ {active, ui, pendingResult, mainPc} \subseteq Sessions \cup {None}
  /\ checkpoint \in [Sessions -> Sessions \cup {None}] /\ partials \in [Sessions -> BOOLEAN]
  /\ startIntents \in Nat /\ asked \in 0..MaxConflicts /\ detaches \in 0..MaxDetaches
  /\ thread \in [Sessions -> {"none", "run", "resolve", "post", "await", "ended", "gone"}]
  /\ owner \in [Conflicts -> Sessions \cup {None}]
  /\ cancelled \in [Sessions -> BOOLEAN]
  /\ applyAll \in [Sessions -> Decisions \cup {"none"}]
  /\ pendingConflict \in [Sessions -> Conflicts \cup {NoConflict}]
  /\ finished \in [Sessions -> {"none", "success", "failed"}]
  /\ {slot, given, taken} \subseteq [Conflicts -> Answers \cup {"none"}]
  /\ messages \in Seq([type : {"conflict", "finish"}, of : Conflicts \cup Sessions])
  /\ dialogs \subseteq Conflicts \X {"attach", "post"}
  /\ retryDialogs \subseteq Sessions /\ orphaned \subseteq Sessions

\* A session whose thread works or is about to be created.
Alive(s) == thread[s] \notin {"none", "gone"}

(* One transfer at a time: a thread works only on the active session, and as many *)
(* start intents are on their way as the active session still needs threads       *)
(* (Transfers.start, onStartCommand, finish).                                      *)
OneTransfer ==
  /\ \A s \in Sessions : Alive(s) => active = s
  /\ startIntents = IF Busy /\ thread[active] = "none" THEN 1 ELSE 0

(* What the transfer does about a conflict is what the user first answered to that *)
(* very question, though its dialog may be on screen twice, and a dialog already   *)
(* settled may still be answered later (Transfers.Conflict, attach).               *)
AnswerFitsQuestion ==
  \A c \in Conflicts : taken[c] # "none" => taken[c] = given[c]

(* "Retry state belongs only to the failed operation currently being shown":       *)
(* partial files are kept only for a checkpoint whose session runs, waits to be     *)
(* shown or shows its retry dialog (retrySession, discardPartials, TransferRetry).  *)
(* The code keeps to it but for two cases, and this is exactly what they are: a     *)
(* cancel that came after execute had last looked at the flag, where the session    *)
(* failed and is never offered; and an offer that went away without an answer, when *)
(* the activity was recreated under its retry dialog or when a later result took    *)
(* pendingResult before the screen came back.                                       *)
RetryStateShown ==
  \A s \in Sessions : partials[s] =>
    \E t \in Sessions :
      checkpoint[t] = s /\ (\/ t \in {active, pendingResult} \cup retryDialogs
                            \/ t \in orphaned
                            \/ cancelled[t] /\ finished[t] = "failed")

(* No two parties hold one checkpoint: not a running session and a retry dialog,     *)
(* nor two retry dialogs, which would delete or append to the same partial file      *)
(* (continueTransfer hands it over only when the new session started).                *)
OneCheckpointHolder ==
  \A s, t \in Sessions :
    /\ s # t /\ checkpoint[s] = checkpoint[t] /\ checkpoint[s] # None
    => ~({s, t} \subseteq retryDialogs \cup {active, pendingResult})

(* Every session comes to its end when the user comes back to it and answers: a     *)
(* question asked while no screen was there is not lost (attach 240-251).            *)
TransferEnds == UserReturns => \A s \in Sessions : active = s ~> active # s

(* A cancel that finds the question pending ends the transfer without an answer      *)
(* from the user (Session.cancel 172-176).                                            *)
CancelFreesWaiting ==
  \A s \in Sessions : mainPc = s /\ thread[s] = "await" ~> active # s

==============================================================================
