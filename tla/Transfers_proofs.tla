-------------------------- MODULE Transfers_proofs --------------------------
(***************************************************************************)
(* Proofs about Transfers for every number of sessions, conflicts and      *)
(* detaches.                                                               *)
(*                                                                         *)
(* Lifecycle and Finishing follow a session from start to finish: started  *)
(* means it has a checkpoint, and the one finish message on its way        *)
(* belongs to the active session, whose thread is gone.  Questions follows *)
(* a conflict: the one being asked has not been acted on, and until it is  *)
(* the answer in its queue is the first one given.                         *)
(* Holding follows a checkpoint: a retry takes it over from a session that *)
(* lets go of it, so it has one holder; a session that succeeded has       *)
(* deleted its partial files before its result is shown.                   *)
(***************************************************************************)
EXTENDS Transfers, SequenceTheorems, TLAPS

Started(s) == checkpoint[s] # None

Lifecycle ==
  /\ \A s \in Sessions : ~Started(s) => thread[s] = "none"
  /\ \A s \in Sessions : Started(s) /\ thread[s] = "none" => active = s
  /\ Busy => Started(active)
  /\ pendingResult # None => Started(pendingResult)
  /\ \A s \in retryDialogs : Started(s)

Finishing ==
  /\ \A i \in 1..Len(messages) : messages[i].type = "finish" =>
       Busy /\ messages[i].of = active /\ thread[active] = "gone"
  /\ \A i, j \in 1..Len(messages) :
       messages[i].type = "finish" /\ messages[j].type = "finish" => i = j
  /\ \A i \in 1..Len(messages) :
       messages[i].type = "conflict" => messages[i].of \in Conflicts

Asked(s) == pendingConflict[s] \in 1..asked /\ taken[pendingConflict[s]] = "none"

Questions ==
  /\ \A s \in Sessions : thread[s] = "resolve" => asked > 0 /\ taken[asked] = "none"
  /\ \A s \in Sessions : thread[s] \in {"post", "await"} => Asked(s)
  /\ \A c \in Conflicts : c > asked => taken[c] = "none"
  /\ \A c \in Conflicts : taken[c] = "none" => slot[c] = given[c]

Holding ==
  /\ \A s \in Sessions : Started(s) => checkpoint[checkpoint[s]] = checkpoint[s]
  /\ \A s \in retryDialogs : s # active /\ s # pendingResult
  /\ Busy => active # pendingResult
  /\ \A s \in Sessions : thread[s] \in {"ended", "gone"} => finished[s] # "none"
  /\ \A s \in retryDialogs \cup {pendingResult} : s # None => thread[s] = "gone"
  /\ \A s \in Sessions :
       /\ s \in {active, pendingResult} /\ thread[s] = "gone" /\ finished[s] = "success"
       => ~partials[checkpoint[s]]

IInv ==
  /\ TypeOK /\ OneTransfer /\ Lifecycle /\ Finishing /\ Questions /\ AnswerFitsQuestion
  /\ Holding /\ OneCheckpointHolder /\ RetryStateShown

-----------------------------------------------------------------------------
(* Functions *)

\* An updated function keeps its type, also when the point is outside its domain.
LEMMA UpdateType ==
  ASSUME NEW S, NEW T, NEW f \in [S -> T], NEW x, NEW v \in T
  PROVE  [f EXCEPT ![x] = v] \in [S -> T]
  OBVIOUS

Message == [type : {"conflict", "finish"}, of : Conflicts \cup Sessions]
Stages == {"none", "run", "resolve", "post", "await", "ended", "gone"}

-----------------------------------------------------------------------------
(* Type correctness, one lemma for each group of variables *)

StaticTypes ==
  /\ {active, ui, pendingResult, mainPc} \subseteq Sessions \cup {None}
  /\ checkpoint \in [Sessions -> Sessions \cup {None}]
  /\ retryDialogs \subseteq Sessions /\ orphaned \subseteq Sessions
ThreadTypes ==
  /\ startIntents \in Nat /\ asked \in 0..MaxConflicts /\ detaches \in 0..MaxDetaches
  /\ thread \in [Sessions -> Stages]
  /\ owner \in [Conflicts -> Sessions \cup {None}]
  /\ pendingConflict \in [Sessions -> Conflicts \cup {NoConflict}]
  /\ messages \in Seq(Message)
AnswerTypes ==
  /\ applyAll \in [Sessions -> Decisions \cup {"none"}]
  /\ {slot, given, taken} \subseteq [Conflicts -> Answers \cup {"none"}]
  /\ dialogs \subseteq Conflicts \X {"attach", "post"}
FlagTypes ==
  /\ partials \in [Sessions -> BOOLEAN]
  /\ cancelled \in [Sessions -> BOOLEAN]
  /\ finished \in [Sessions -> {"none", "success", "failed"}]

LEMMA TypeParts == TypeOK <=> StaticTypes /\ ThreadTypes /\ AnswerTypes /\ FlagTypes
  BY Zenon DEF TypeOK, StaticTypes, ThreadTypes, AnswerTypes, FlagTypes, Message, Stages

LEMMA Constants ==
  /\ MaxSessions \in Nat /\ MaxConflicts \in Nat /\ MaxDetaches \in Nat
  /\ "null" \notin Decisions /\ "none" \notin Decisions
  /\ None \notin Sessions /\ NoConflict \notin Conflicts
  BY TransfersAssumption DEF TransfersAssumption, None, NoConflict, Sessions, Conflicts

LEMMA TypeInit == Init => TypeOK
<1> SUFFICES ASSUME Init PROVE TypeOK
  OBVIOUS
<1>1. StaticTypes
  BY DEF Init, StaticTypes
<1>2. ThreadTypes
  BY Constants DEF Init, ThreadTypes, Stages
<1>3. AnswerTypes
  BY DEF Init, AnswerTypes
<1>4. FlagTypes
  BY DEF Init, FlagTypes
<1> QED BY <1>1, <1>2, <1>3, <1>4, TypeParts

\* The steps of Next, each on its own line for the proofs below.
LEMMA NextCases ==
  ASSUME Next
  PROVE  \/ OnStartCommand \/ CancelReleases \/ OnConflict \/ OnFinish
         \/ Attach \/ Detach \/ Recreate \/ CancelPressed \/ ConsumeFinished \/ AnswerSome
         \/ \E s \in Sessions : \/ Start(s) \/ Dismiss(s)
                                \/ MeetConflict(s) \/ ApplyRemembered(s) \/ Ask(s)
                                \/ PostConflict(s) \/ Await(s) \/ WorkEnds(s) \/ Finish(s)
         \/ \E s, t \in Sessions : RetryPressed(s, t)
  BY Zenon DEF Next, MainStep, ThreadStep

\* The sessions' static fields and the retry dialogs stay in their types.
LEMMA StaticStep ==
  ASSUME TypeOK, Finishing, [Next]_vars PROVE StaticTypes'
<1>0. StaticTypes /\ ThreadTypes
  BY TypeParts
<1> USE DEF StaticTypes
<1> DEFINE Same == UNCHANGED <<active, ui, pendingResult, mainPc, checkpoint, retryDialogs, orphaned>>
<1>1. CASE Same
  BY <1>0, <1>1
<1>2. CASE OnFinish
  <2>1. Head(messages).of \in Sessions
    <3>1. messages # <<>> /\ Head(messages).type = "finish"
      BY <1>2 DEF OnFinish
    <3>2. Head(messages) = messages[1] /\ 1 \in 1..Len(messages)
      BY <1>0, <3>1, HeadTailProperties, LenProperties, EmptySeq DEF ThreadTypes
    <3>3. Busy /\ messages[1].of = active
      BY <3>1, <3>2 DEF Finishing
    <3> QED BY <1>0, <3>2, <3>3 DEF Busy
  <2>2. /\ retryDialogs' \subseteq retryDialogs \cup {Head(messages).of}
        /\ orphaned' \subseteq orphaned \cup ({pendingResult} \ {None})
    BY <1>2 DEF OnFinish, Shown
  <2> QED BY <1>0, <1>2, <2>1, <2>2 DEF OnFinish
<1>3. CASE ConsumeFinished
  BY <1>0, <1>3 DEF ConsumeFinished, Shown
<1>4. CASE Attach \/ Detach \/ Recreate \/ CancelPressed \/ CancelReleases
  BY <1>0, <1>4 DEF Attach, Detach, Recreate, CancelPressed, CancelReleases, staticVars, retryVars
<1>5. ASSUME NEW s \in Sessions, Start(s) PROVE StaticTypes'
  <2>1. checkpoint' = [checkpoint EXCEPT ![s] = s] /\ active' = s
    BY <1>5 DEF Start, Starts
  <2>2. checkpoint' \in [Sessions -> Sessions \cup {None}]
    BY <1>0, <2>1, UpdateType
  <2> QED BY <1>0, <1>5, <2>1, <2>2 DEF Start
<1>6. ASSUME NEW s \in Sessions, NEW t \in Sessions, RetryPressed(s, t) PROVE StaticTypes'
  <2>1. checkpoint' = [checkpoint EXCEPT ![t] = checkpoint[s]] /\ active' = t
    BY <1>6 DEF RetryPressed, Starts
  <2>2. checkpoint' \in [Sessions -> Sessions \cup {None}]
    BY <1>0, <2>1, UpdateType
  <2> QED BY <1>0, <1>6, <2>1, <2>2 DEF RetryPressed
<1>7. ASSUME NEW s \in Sessions, Dismiss(s) PROVE StaticTypes'
  BY <1>0, <1>7 DEF Dismiss, staticVars
<1>8. ASSUME NEW s \in Sessions,
             MeetConflict(s) \/ ApplyRemembered(s) \/ Ask(s) \/ PostConflict(s) \/ Await(s)
               \/ WorkEnds(s) \/ Finish(s)
      PROVE Same
  BY <1>8, Zenon DEF MeetConflict, ApplyRemembered, Ask, PostConflict, Await, WorkEnds, Finish,
     staticVars, retryVars
<1>9. CASE OnStartCommand \/ OnConflict \/ AnswerSome
  <2>1. Same
    BY <1>9, Zenon DEF OnStartCommand, OnConflict, AnswerSome, Answer, staticVars, retryVars
  <2> QED BY <1>1, <2>1
<1>10. CASE UNCHANGED vars
  BY <1>1, <1>10 DEF vars, staticVars, retryVars
<1> HIDE DEF StaticTypes, Same
<1> QED BY <1>1, <1>2, <1>3, <1>4, <1>5, <1>6, <1>7, <1>8, <1>9, <1>10, NextCases, Zenon

\* The transfer threads, their questions and the main queue stay in their types.
LEMMA ThreadsStep ==
  ASSUME TypeOK, Questions, [Next]_vars PROVE ThreadTypes'
<1>0. StaticTypes /\ ThreadTypes
  BY TypeParts
<1>a. MaxConflicts \in Nat /\ MaxDetaches \in Nat
  BY Constants
<1> DEFINE Same == UNCHANGED <<startIntents, asked, detaches, thread, owner, pendingConflict, messages>>
<1>1. Same => ThreadTypes'
  BY <1>0 DEF ThreadTypes
<1>2. CASE OnStartCommand
  <2>1. thread' = thread \/ thread' = [thread EXCEPT ![active] = "run"]
    BY <1>2 DEF OnStartCommand
  <2>2. thread' \in [Sessions -> Stages]
    BY <1>0, <2>1, UpdateType DEF ThreadTypes, Stages
  <2> QED BY <1>0, <1>2, <2>2 DEF OnStartCommand, sessionVars, ThreadTypes
<1>3. CASE OnConflict \/ OnFinish
  <2>1. messages # <<>> /\ messages' = Tail(messages)
    BY <1>3 DEF OnConflict, OnFinish
  <2>2. messages' \in Seq(Message)
    BY <1>0, <2>1, HeadTailProperties, LenProperties, EmptySeq DEF ThreadTypes
  <2> QED BY <1>0, <1>3, <2>2 DEF OnConflict, OnFinish, threadVars, sessionVars, ThreadTypes
<1>4. CASE Detach \/ Recreate
  BY <1>0, <1>a, <1>4 DEF Detach, Recreate, threadVars, sessionVars, ThreadTypes
<1>5. CASE Attach \/ CancelPressed \/ CancelReleases \/ ConsumeFinished \/ AnswerSome
  <2>1. Same
    BY <1>5, Zenon DEF Attach, CancelPressed, CancelReleases, ConsumeFinished, AnswerSome, Answer,
       threadVars, sessionVars
  <2> QED BY <1>1, <2>1
<1>6. ASSUME NEW s \in Sessions, Start(s) \/ (\E t \in Sessions : RetryPressed(s, t)) PROVE ThreadTypes'
  <2>1. startIntents' = startIntents + 1
    BY <1>6 DEF Start, RetryPressed, Starts
  <2>2. UNCHANGED <<asked, detaches, thread, owner, pendingConflict, messages>>
    BY <1>6, Zenon DEF Start, RetryPressed, threadVars, sessionVars
  <2> QED BY <1>0, <2>1, <2>2 DEF ThreadTypes
<1>7. ASSUME NEW s \in Sessions, Dismiss(s) PROVE ThreadTypes'
  <2>1. Same
    BY <1>7, Zenon DEF Dismiss, threadVars, sessionVars
  <2> QED BY <1>1, <2>1
<1>8. ASSUME NEW s \in Sessions,
             \/ MeetConflict(s) \/ ApplyRemembered(s) \/ Ask(s) \/ PostConflict(s) \/ Await(s)
             \/ WorkEnds(s) \/ Finish(s)
      PROVE ThreadTypes'
  <2>1. thread' \in [Sessions -> Stages]
    <3>1. \E x \in Stages : thread' = [thread EXCEPT ![s] = x]
      BY <1>8 DEF MeetConflict, ApplyRemembered, Ask, PostConflict, Await, WorkEnds, Finish, Stages
    <3> QED BY <1>0, <3>1, UpdateType DEF ThreadTypes
  <2>2. asked' \in 0..MaxConflicts /\ owner' \in [Conflicts -> Sessions \cup {None}]
    <3>1. CASE MeetConflict(s)
      <4>1. asked' = asked + 1 /\ asked < MaxConflicts /\ owner' = [owner EXCEPT ![asked + 1] = s]
        BY <3>1 DEF MeetConflict
      <4>2. owner' \in [Conflicts -> Sessions \cup {None}]
        BY <1>0, <4>1, UpdateType DEF ThreadTypes
      <4> QED BY <1>0, <1>a, <4>1, <4>2 DEF ThreadTypes
    <3>2. CASE ~MeetConflict(s)
      <4>1. UNCHANGED <<asked, owner>>
        BY <1>8, <3>2, Zenon DEF ApplyRemembered, Ask, PostConflict, Await, WorkEnds, Finish
      <4> QED BY <1>0, <4>1 DEF ThreadTypes
    <3> QED BY <3>1, <3>2
  <2>3. pendingConflict' \in [Sessions -> Conflicts \cup {NoConflict}]
    <3>1. CASE Ask(s)
      <4>1. pendingConflict' = [pendingConflict EXCEPT ![s] = asked]
        BY <3>1 DEF Ask
      <4>2. asked \in Conflicts
        BY <1>0, <1>a, <3>1 DEF Ask, Questions, ThreadTypes, Conflicts
      <4> QED BY <1>0, <4>1, <4>2, UpdateType DEF ThreadTypes
    <3>2. CASE Await(s)
      <4>1. pendingConflict' = [pendingConflict EXCEPT ![s] = NoConflict]
        BY <3>2 DEF Await
      <4> QED BY <1>0, <4>1, UpdateType DEF ThreadTypes
    <3>3. CASE ~Ask(s) /\ ~Await(s)
      <4>1. UNCHANGED pendingConflict
        BY <1>8, <3>3, Zenon DEF MeetConflict, ApplyRemembered, PostConflict, WorkEnds, Finish, sessionVars
      <4> QED BY <1>0, <4>1 DEF ThreadTypes
    <3> QED BY <3>1, <3>2, <3>3
  <2>4. messages' \in Seq(Message)
    <3>1. CASE PostConflict(s)
      <4> DEFINE m == [type |-> "conflict", of |-> pendingConflict[s]]
      <4>1. messages' = Append(messages, m)
        BY <3>1 DEF PostConflict
      <4>2. pendingConflict[s] \in Conflicts
        BY <1>0, <1>a, <3>1 DEF PostConflict, Questions, Asked, ThreadTypes, Conflicts
      <4>3. m \in Message
        BY <4>2 DEF Message
      <4> HIDE DEF m
      <4> QED BY <1>0, <4>1, <4>3, AppendProperties, LenProperties DEF ThreadTypes
    <3>2. CASE Finish(s)
      <4> DEFINE m == [type |-> "finish", of |-> s]
      <4>1. messages' = Append(messages, m)
        BY <3>2 DEF Finish
      <4>2. m \in Message
        BY DEF Message
      <4> HIDE DEF m
      <4> QED BY <1>0, <4>1, <4>2, AppendProperties, LenProperties DEF ThreadTypes
    <3>3. CASE ~PostConflict(s) /\ ~Finish(s)
      <4>1. UNCHANGED messages
        BY <1>8, <3>3, Zenon DEF MeetConflict, ApplyRemembered, Ask, Await, WorkEnds
      <4> QED BY <1>0, <4>1 DEF ThreadTypes
    <3> QED BY <3>1, <3>2, <3>3
  <2>5. UNCHANGED <<startIntents, detaches>>
    BY <1>8, Zenon DEF MeetConflict, ApplyRemembered, Ask, PostConflict, Await, WorkEnds, Finish
  <2> QED BY <1>0, <2>1, <2>2, <2>3, <2>4, <2>5 DEF ThreadTypes
<1>9. CASE UNCHANGED vars
  BY <1>1, <1>9 DEF vars, threadVars, sessionVars
<1> QED BY <1>2, <1>3, <1>4, <1>5, <1>6, <1>7, <1>8, <1>9, NextCases, Zenon

\* What the first answer to a question leaves in its queue and in the history.
LEMMA AnsweredTypes ==
  ASSUME AnswerTypes, NEW c \in Conflicts, NEW d \in Answers, Answered(c, d)
  PROVE  {slot', given', taken'} \subseteq [Conflicts -> Answers \cup {"none"}]
<1>1. slot' = slot \/ slot' = [slot EXCEPT ![c] = d]
  BY DEF Answered, Queue
<1>2. given' = given \/ given' = [given EXCEPT ![c] = d]
  BY DEF Answered
<1>3. slot' \in [Conflicts -> Answers \cup {"none"}]
  BY <1>1, UpdateType DEF AnswerTypes
<1>4. given' \in [Conflicts -> Answers \cup {"none"}]
  BY <1>2, UpdateType DEF AnswerTypes
<1> QED BY <1>3, <1>4 DEF Answered, AnswerTypes

\* Answers, remembered choices and conflict dialogs stay in their types.
LEMMA AnswersStep ==
  ASSUME TypeOK, Questions, Finishing, [Next]_vars PROVE AnswerTypes'
<1>0. StaticTypes /\ ThreadTypes /\ AnswerTypes
  BY TypeParts
<1> DEFINE Same == UNCHANGED <<applyAll, slot, given, taken, dialogs>>
<1>1. Same => AnswerTypes'
  BY <1>0 DEF AnswerTypes
<1>2. CASE Attach
  <2>1. /\ UNCHANGED <<applyAll, slot, given, taken>>
        /\ dialogs' \subseteq dialogs \cup
             {<<c, "attach">> : c \in {pendingConflict[active]} \ {NoConflict}}
    BY <1>2 DEF Attach, sessionVars, answerVars
  <2>2. pendingConflict[active] \in Conflicts \cup {NoConflict}
    BY <1>0, <1>2 DEF Attach, Busy, StaticTypes, ThreadTypes
  <2> QED BY <1>0, <2>1, <2>2 DEF AnswerTypes
<1>3. CASE Detach \/ Recreate
  BY <1>0, <1>3 DEF Detach, Recreate, sessionVars, answerVars, AnswerTypes
<1>4. CASE OnConflict
  <2>1. /\ UNCHANGED <<applyAll, slot, given, taken>>
        /\ messages # <<>> /\ Head(messages).type = "conflict"
        /\ dialogs' \subseteq dialogs \cup {<<Head(messages).of, "post">>}
    BY <1>4 DEF OnConflict, sessionVars, answerVars
  <2>2. Head(messages) = messages[1] /\ 1 \in 1..Len(messages)
    BY <1>0, <2>1, HeadTailProperties, LenProperties, EmptySeq DEF ThreadTypes
  <2>3. Head(messages).of \in Conflicts
    BY <2>1, <2>2 DEF Finishing
  <2> QED BY <1>0, <2>1, <2>3 DEF AnswerTypes
<1>5. CASE CancelReleases
  <2>1. UNCHANGED <<applyAll, dialogs>>
    BY <1>5 DEF CancelReleases, sessionVars
  <2>2. {slot', given', taken'} \subseteq [Conflicts -> Answers \cup {"none"}]
    <3>1. CASE UNCHANGED answerVars
      BY <1>0, <3>1 DEF answerVars, AnswerTypes
    <3>2. CASE pendingConflict[mainPc] # NoConflict /\ Answered(pendingConflict[mainPc], "null")
      <4>1. pendingConflict[mainPc] \in Conflicts
        BY <1>0, <1>5, <3>2 DEF CancelReleases, StaticTypes, ThreadTypes
      <4> QED BY <1>0, <3>2, <4>1, AnsweredTypes DEF Answers
    <3> QED BY <1>5, <3>1, <3>2 DEF CancelReleases
  <2> QED BY <1>0, <2>1, <2>2 DEF AnswerTypes
<1>6. ASSUME NEW w \in dialogs, NEW d \in Answers, NEW all \in BOOLEAN, Answer(w, d, all)
      PROVE AnswerTypes'
  <2>1. w[1] \in Conflicts
    BY <1>0, <1>6 DEF AnswerTypes
  <2>2. {slot', given', taken'} \subseteq [Conflicts -> Answers \cup {"none"}]
    BY <1>0, <1>6, <2>1, AnsweredTypes DEF Answer
  <2>3. applyAll' = applyAll \/ (applyAll' = [applyAll EXCEPT ![owner[w[1]]] = d] /\ d # "null")
    BY <1>6 DEF Answer, Remembers
  <2>4. applyAll' \in [Sessions -> Decisions \cup {"none"}]
    BY <1>0, <2>3, UpdateType DEF AnswerTypes, Answers
  <2> QED BY <1>0, <1>6, <2>2, <2>4 DEF Answer, AnswerTypes
<1>7. ASSUME NEW s \in Sessions, Await(s) PROVE AnswerTypes'
  <2> DEFINE c == pendingConflict[s]
             d == slot[c]
  <2>1. c \in Conflicts
    <3>1. thread[s] = "await"
      BY <1>7 DEF Await
    <3>2. c \in 1..asked
      BY <3>1, Zenon DEF Questions, Asked
    <3> QED BY <1>0, <3>2, Constants DEF ThreadTypes, Conflicts
  <2>2. d \in Answers \cup {"none"}
    BY <1>0, <2>1 DEF AnswerTypes
  <2>3. /\ slot' = [slot EXCEPT ![c] = "none"] /\ taken' = [taken EXCEPT ![c] = d]
        /\ UNCHANGED <<applyAll, given, dialogs>>
    BY <1>7 DEF Await, Queue
  <2>4. slot' \in [Conflicts -> Answers \cup {"none"}]
    BY <1>0, <2>3, UpdateType DEF AnswerTypes
  <2>5. taken' \in [Conflicts -> Answers \cup {"none"}]
    BY <1>0, <2>2, <2>3, UpdateType DEF AnswerTypes
  <2> QED BY <1>0, <2>3, <2>4, <2>5 DEF AnswerTypes
<1>8. ASSUME NEW s \in Sessions,
             \/ Start(s) \/ Dismiss(s) \/ (\E t \in Sessions : RetryPressed(s, t))
             \/ MeetConflict(s) \/ ApplyRemembered(s) \/ Ask(s) \/ PostConflict(s)
             \/ WorkEnds(s) \/ Finish(s)
      PROVE AnswerTypes'
  <2>1. Same
    BY <1>8, Zenon DEF Start, Dismiss, RetryPressed, MeetConflict, ApplyRemembered, Ask,
       PostConflict, WorkEnds, Finish, sessionVars, answerVars
  <2> QED BY <1>1, <2>1
<1>9. CASE OnStartCommand \/ OnFinish \/ CancelPressed \/ ConsumeFinished
  <2>1. Same
    BY <1>9, Zenon DEF OnStartCommand, OnFinish, CancelPressed, ConsumeFinished, sessionVars, answerVars
  <2> QED BY <1>1, <2>1
<1>10. CASE UNCHANGED vars
  BY <1>1, <1>10 DEF vars, sessionVars, answerVars
<1>11. AnswerSome => AnswerTypes'
  BY <1>6, Zenon DEF AnswerSome
<1> QED BY <1>2, <1>3, <1>4, <1>5, <1>7, <1>8, <1>9, <1>10, <1>11, NextCases, Zenon

\* The flags of the sessions stay in their types.
LEMMA FlagsStep ==
  ASSUME TypeOK, [Next]_vars PROVE FlagTypes'
<1>0. FlagTypes
  BY TypeParts
<1>1. UNCHANGED cancelled \/ \E x : cancelled' = [cancelled EXCEPT ![x] = TRUE]
  <2>1. ASSUME NEW s \in Sessions, Await(s)
        PROVE  UNCHANGED cancelled \/ \E x : cancelled' = [cancelled EXCEPT ![x] = TRUE]
    <3>1. UNCHANGED cancelled \/ cancelled' = [cancelled EXCEPT ![s] = TRUE]
      BY <2>1, Zenon DEF Await
    <3> QED BY <3>1, Zenon
  <2>2. ASSUME NEW s \in Sessions,
               \/ Start(s) \/ Dismiss(s) \/ (\E t \in Sessions : RetryPressed(s, t))
               \/ MeetConflict(s) \/ ApplyRemembered(s) \/ Ask(s) \/ PostConflict(s)
               \/ WorkEnds(s) \/ Finish(s)
        PROVE  UNCHANGED cancelled
    BY <2>2, Zenon DEF Start, Dismiss, RetryPressed, MeetConflict, ApplyRemembered, Ask,
       PostConflict, WorkEnds, Finish, sessionVars
  <2>3. CASE \/ OnStartCommand \/ OnFinish \/ OnConflict \/ ConsumeFinished \/ Attach \/ Detach
             \/ Recreate \/ CancelReleases \/ AnswerSome
    BY <2>3, Zenon DEF OnStartCommand, OnFinish, OnConflict, ConsumeFinished, Attach, Detach,
       Recreate, CancelReleases, AnswerSome, Answer, sessionVars
  <2>4. CASE CancelPressed
    BY <2>4, Zenon DEF CancelPressed
  <2>5. CASE UNCHANGED vars
    BY <2>5, Zenon DEF vars, sessionVars
  <2> QED BY <2>1, <2>2, <2>3, <2>4, <2>5, NextCases, Zenon
<1>2. \/ UNCHANGED partials
      \/ \E x, b : b \in BOOLEAN /\ partials' = [partials EXCEPT ![x] = b]
  <2>1. ASSUME NEW s \in Sessions, Dismiss(s) \/ Finish(s) \/ WorkEnds(s)
        PROVE  \/ UNCHANGED partials
               \/ \E x, b : b \in BOOLEAN /\ partials' = [partials EXCEPT ![x] = b]
    <3>1. Dismiss(s) => partials' = [partials EXCEPT ![checkpoint[s]] = FALSE]
      BY Zenon DEF Dismiss
    <3>2. Finish(s) => UNCHANGED partials \/ partials' = [partials EXCEPT ![checkpoint[s]] = FALSE]
      BY Zenon DEF Finish
    <3>3. WorkEnds(s) => \/ UNCHANGED partials
                         \/ \E b \in BOOLEAN : partials' = [partials EXCEPT ![checkpoint[s]] = b]
      BY Zenon DEF WorkEnds
    <3> QED BY <2>1, <3>1, <3>2, <3>3, Zenon
  <2>2. ASSUME NEW s \in Sessions,
               \/ Start(s) \/ (\E t \in Sessions : RetryPressed(s, t)) \/ Await(s)
               \/ MeetConflict(s) \/ ApplyRemembered(s) \/ Ask(s) \/ PostConflict(s)
        PROVE  UNCHANGED partials
    BY <2>2, Zenon DEF Start, RetryPressed, Await, MeetConflict, ApplyRemembered, Ask,
       PostConflict, retryVars
  <2>3. CASE \/ OnStartCommand \/ OnFinish \/ OnConflict \/ ConsumeFinished \/ Attach \/ Detach
             \/ Recreate \/ CancelReleases \/ CancelPressed \/ AnswerSome
    BY <2>3, Zenon DEF OnStartCommand, OnFinish, OnConflict, ConsumeFinished, Attach, Detach,
       Recreate, CancelReleases, CancelPressed, AnswerSome, Answer, retryVars
  <2>4. CASE UNCHANGED vars
    BY <2>4, Zenon DEF vars, retryVars
  <2> QED BY <2>1, <2>2, <2>3, <2>4, NextCases, Zenon
<1>3. \/ UNCHANGED finished
      \/ \E x, r : r \in {"success", "failed"} /\ finished' = [finished EXCEPT ![x] = r]
  <2>1. ASSUME NEW s \in Sessions, WorkEnds(s)
        PROVE  \E x, r : r \in {"success", "failed"} /\ finished' = [finished EXCEPT ![x] = r]
    BY <2>1, Zenon DEF WorkEnds
  <2>2. ASSUME NEW s \in Sessions,
               \/ Start(s) \/ Dismiss(s) \/ (\E t \in Sessions : RetryPressed(s, t)) \/ Await(s)
               \/ MeetConflict(s) \/ ApplyRemembered(s) \/ Ask(s) \/ PostConflict(s) \/ Finish(s)
        PROVE  UNCHANGED finished
    BY <2>2, Zenon DEF Start, Dismiss, RetryPressed, Await, MeetConflict, ApplyRemembered, Ask,
       PostConflict, Finish, sessionVars
  <2>3. CASE \/ OnStartCommand \/ OnFinish \/ OnConflict \/ ConsumeFinished \/ Attach \/ Detach
             \/ Recreate \/ CancelReleases \/ CancelPressed \/ AnswerSome
    BY <2>3, Zenon DEF OnStartCommand, OnFinish, OnConflict, ConsumeFinished, Attach, Detach,
       Recreate, CancelReleases, CancelPressed, AnswerSome, Answer, sessionVars
  <2>4. CASE UNCHANGED vars
    BY <2>4, Zenon DEF vars, sessionVars
  <2> QED BY <2>1, <2>2, <2>3, <2>4, NextCases, Zenon
<1>4. cancelled' \in [Sessions -> BOOLEAN]
  BY <1>0, <1>1, UpdateType, Zenon DEF FlagTypes
<1>5. partials' \in [Sessions -> BOOLEAN]
  BY <1>0, <1>2, UpdateType, Zenon DEF FlagTypes
<1>6. finished' \in [Sessions -> {"none", "success", "failed"}]
  BY <1>0, <1>3, UpdateType DEF FlagTypes
<1> QED BY <1>4, <1>5, <1>6 DEF FlagTypes

LEMMA TypeStep == ASSUME TypeOK, Finishing, Questions, [Next]_vars PROVE TypeOK'
<1>1. StaticTypes' /\ ThreadTypes' /\ AnswerTypes' /\ FlagTypes'
  BY StaticStep, ThreadsStep, AnswersStep, FlagsStep
<1> QED BY <1>1, TypeParts, PTL

-----------------------------------------------------------------------------
(* One transfer at a time *)

Life == OneTransfer /\ Lifecycle /\ Finishing
lifeVars == <<active, pendingResult, retryDialogs, checkpoint, startIntents, thread, messages>>

\* What the proofs below use of the types.
LEMMA LifeTypes ==
  ASSUME TypeOK
  PROVE  /\ active \in Sessions \cup {None} /\ pendingResult \in Sessions \cup {None}
         /\ retryDialogs \subseteq Sessions /\ None \notin Sessions
         /\ checkpoint \in [Sessions -> Sessions \cup {None}]
         /\ thread \in [Sessions -> Stages] /\ startIntents \in Nat
         /\ messages \in Seq(Message)
  BY Constants DEF TypeOK, Message, Stages

\* A finish message on its way excludes everything that still needs a thread.
LEMMA NoFinishYet ==
  ASSUME TypeOK, Finishing, ~Busy \/ thread[active] # "gone"
  PROVE  \A i \in 1..Len(messages) : messages[i].type # "finish"
  BY Zenon DEF Finishing

\* Start and RetryPressed: session s becomes active on some checkpoint.
LEMMA StartsLife ==
  ASSUME TypeOK, Life, NEW s \in Sessions, NEW holder \in Sessions, Starts(s, holder),
         retryDialogs' \subseteq retryDialogs, UNCHANGED <<pendingResult, thread, messages>>
  PROVE  Life'
<1>0. ~Busy /\ checkpoint[s] = None /\ active' = s /\ startIntents' = startIntents + 1
      /\ checkpoint' = [checkpoint EXCEPT ![s] = holder]
  BY Zenon DEF Starts
<1>1. thread[s] = "none" /\ active = None /\ startIntents = 0
  BY <1>0 DEF Life, Lifecycle, OneTransfer, Busy, Started
<1>2. checkpoint'[s] # None /\ \A t \in Sessions : t # s => checkpoint'[t] = checkpoint[t]
  BY <1>0, LifeTypes
<1>3. OneTransfer'
  <2>1. \A t \in Sessions : ~Alive(t)
    BY <1>1, LifeTypes DEF Life, OneTransfer
  <2> QED BY <1>0, <1>1, <2>1, LifeTypes DEF OneTransfer, Alive, Busy
<1>4. Lifecycle'
  <2>1. \A t \in Sessions : Started(t) => Started(t)'
    BY <1>2 DEF Started
  <2>2. \A t \in Sessions : ~Started(t)' => thread'[t] = "none"
    BY <1>2 DEF Started, Life, Lifecycle
  <2>3. \A t \in Sessions : Started(t)' /\ thread'[t] = "none" => active' = t
    <3>1. \A t \in Sessions : Started(t) /\ thread[t] = "none" => FALSE
      BY <1>1, LifeTypes DEF Life, Lifecycle
    <3> QED BY <1>0, <1>2, <3>1 DEF Started
  <2>4. Started(active)'
    BY <1>0, <1>2 DEF Started
  <2>5. pendingResult' # None => Started(pendingResult)'
    BY <2>1, LifeTypes DEF Life, Lifecycle, Started
  <2>6. \A t \in retryDialogs' : Started(t)'
    BY <2>1, LifeTypes DEF Life, Lifecycle
  <2> QED BY <2>2, <2>3, <2>4, <2>5, <2>6 DEF Lifecycle
<1>5. Finishing'
  <2>1. \A i \in 1..Len(messages) : messages[i].type # "finish"
    BY <1>0, NoFinishYet DEF Life
  <2> QED BY <2>1 DEF Life, Finishing
<1> QED BY <1>3, <1>4, <1>5 DEF Life

\* A step of the working thread, which is the active session's: it goes on, or it
\* ends with the finish message.
LEMMA ThreadLife ==
  ASSUME TypeOK, Life, NEW s \in Sessions, Alive(s), NEW x \in Stages \ {"none"},
         thread' = [thread EXCEPT ![s] = x],
         UNCHANGED <<active, pendingResult, retryDialogs, checkpoint, startIntents>>
  PROVE  /\ active = s /\ OneTransfer' /\ Lifecycle'
         /\ \A i \in 1..Len(messages) : messages[i].type # "finish"
<1>1. active = s /\ Busy /\ thread[s] \notin {"none", "gone"}
  BY LifeTypes DEF Life, OneTransfer, Alive, Busy
<1>2. thread'[s] = x /\ x # "none" /\ \A t \in Sessions : t # s => thread'[t] = thread[t]
  BY LifeTypes
<1>3. OneTransfer'
  <2>1. \A t \in Sessions : Alive(t)' => active' = t
    BY <1>1, <1>2 DEF Life, OneTransfer, Alive
  <2>2. startIntents' = 0 /\ Busy' /\ thread'[active'] # "none"
    BY <1>1, <1>2 DEF Life, OneTransfer, Busy
  <2> QED BY <2>1, <2>2 DEF OneTransfer
<1>4. Lifecycle'
  <2>1. \A t \in Sessions : Started(t)' <=> Started(t)
    BY DEF Started
  <2>2. Started(s)
    BY <1>1 DEF Life, Lifecycle
  <2>3. \A t \in Sessions : ~Started(t)' => thread'[t] = "none"
    BY <1>2, <2>1, <2>2 DEF Life, Lifecycle
  <2>4. \A t \in Sessions : Started(t)' /\ thread'[t] = "none" => active' = t
    BY <1>2, <2>1 DEF Life, Lifecycle
  <2>5. Busy' => Started(active)'
    BY DEF Life, Lifecycle, Busy, Started
  <2>6. pendingResult' # None => Started(pendingResult)'
    BY DEF Life, Lifecycle, Started
  <2>7. \A t \in retryDialogs' : Started(t)'
    BY DEF Life, Lifecycle, Started
  <2> QED BY <2>3, <2>4, <2>5, <2>6, <2>7 DEF Lifecycle
<1>5. \A i \in 1..Len(messages) : messages[i].type # "finish"
  BY <1>1, NoFinishYet DEF Life
<1> QED BY <1>1, <1>3, <1>4, <1>5

\* The queue without its head, and every session as before.
LEMMA TailLife ==
  ASSUME TypeOK, Life, messages # <<>>, messages' = Tail(messages)
  PROVE  /\ \A i \in 1..Len(messages') : \E j \in 2..Len(messages) : messages'[i] = messages[j]
         /\ UNCHANGED <<active, thread>> => Finishing'
<1>1. /\ Len(messages) \in Nat \ {0} /\ Len(messages') = Len(messages) - 1
      /\ \A i \in 1..(Len(messages) - 1) : messages'[i] = messages[i + 1]
  BY LifeTypes, HeadTailProperties, LenProperties, EmptySeq
<1>2. \A i \in 1..Len(messages') : i + 1 \in 2..Len(messages) /\ messages'[i] = messages[i + 1]
  BY <1>1
<1>3. ASSUME UNCHANGED <<active, thread>> PROVE Finishing'
  <2>1. \A i \in 1..Len(messages') : i + 1 \in 1..Len(messages)
    BY <1>1
  <2>2. \A i \in 1..Len(messages') : messages'[i].type = "finish" =>
          Busy' /\ messages'[i].of = active' /\ thread'[active'] = "gone"
    BY <1>2, <1>3, <2>1 DEF Life, Finishing, Busy
  <2>3. \A i, j \in 1..Len(messages') :
          messages'[i].type = "finish" /\ messages'[j].type = "finish" => i = j
    <3> TAKE i, j \in 1..Len(messages')
    <3>1. messages'[i].type = "finish" /\ messages'[j].type = "finish" => i + 1 = j + 1
      BY <1>2, <2>1 DEF Life, Finishing
    <3> QED BY <1>1, <3>1
  <2>4. \A i \in 1..Len(messages') : messages'[i].type = "conflict" => messages'[i].of \in Conflicts
    BY <1>2, <2>1 DEF Life, Finishing
  <2> QED BY <2>2, <2>3, <2>4 DEF Finishing
<1> QED BY <1>2, <1>3

\* A message appended to a queue without a finish message.
LEMMA AppendLife ==
  ASSUME TypeOK, Finishing, NEW m \in Message, messages' = Append(messages, m),
         \A i \in 1..Len(messages) : messages[i].type # "finish",
         m.type = "finish" => Busy' /\ m.of = active' /\ thread'[active'] = "gone",
         m.type = "conflict" => m.of \in Conflicts
  PROVE  Finishing'
<1>1. /\ Len(messages) \in Nat /\ Len(messages') = Len(messages) + 1
      /\ \A i \in 1..Len(messages) : messages'[i] = messages[i]
      /\ messages'[Len(messages) + 1] = m
  BY LifeTypes, AppendProperties, LenProperties
<1>2. \A i \in 1..Len(messages') : i \in 1..Len(messages) \/ i = Len(messages')
  BY <1>1
<1>3. \A i \in 1..Len(messages') :
        \/ i = Len(messages') /\ messages'[i] = m
        \/ i \in 1..Len(messages) /\ messages'[i] = messages[i] /\ messages'[i].type # "finish"
  BY <1>1, <1>2
<1>4. \A i \in 1..Len(messages') : messages'[i].type = "finish" =>
        Busy' /\ messages'[i].of = active' /\ thread'[active'] = "gone"
  BY <1>3
<1>5. \A i, j \in 1..Len(messages') :
        messages'[i].type = "finish" /\ messages'[j].type = "finish" => i = j
  BY <1>3
<1>6. \A i \in 1..Len(messages') : messages'[i].type = "conflict" => messages'[i].of \in Conflicts
  BY <1>3 DEF Finishing
<1> QED BY <1>4, <1>5, <1>6 DEF Finishing

\* No step lets a second transfer thread run, or loses track of the first.
LEMMA LifeStep ==
  ASSUME TypeOK, Life, Questions, [Next]_vars PROVE Life'
<1>1. UNCHANGED lifeVars => Life'
  BY DEF lifeVars, Life, OneTransfer, Lifecycle, Finishing, Busy, Alive, Started
<1>2. CASE OnStartCommand
  <2>1. /\ startIntents > 0 /\ startIntents' = startIntents - 1
        /\ thread' = IF Busy THEN [thread EXCEPT ![active] = "run"] ELSE thread
        /\ UNCHANGED <<active, pendingResult, retryDialogs, checkpoint, messages>>
    BY <1>2 DEF OnStartCommand, staticVars, retryVars
  <2>2. Busy /\ thread[active] = "none" /\ startIntents = 1
    BY <2>1 DEF Life, OneTransfer
  <2>3. active \in Sessions
    BY <2>2, LifeTypes DEF Busy
  <2>4. thread'[active] = "run" /\ \A t \in Sessions : t # active => thread'[t] = thread[t]
    BY <2>1, <2>2, <2>3, LifeTypes
  <2>5. OneTransfer'
    BY <2>1, <2>2, <2>4 DEF Life, OneTransfer, Alive, Busy
  <2>6. Lifecycle'
    BY <2>1, <2>2, <2>4 DEF Life, Lifecycle, Started, Busy
  <2>7. Finishing'
    <3>1. \A i \in 1..Len(messages) : messages[i].type # "finish"
      BY <2>2, NoFinishYet DEF Life
    <3> QED BY <2>1, <3>1 DEF Life, Finishing
  <2> QED BY <2>5, <2>6, <2>7 DEF Life
<1>3. CASE OnConflict
  <2>1. /\ messages # <<>> /\ messages' = Tail(messages)
        /\ UNCHANGED <<active, pendingResult, retryDialogs, checkpoint, startIntents, thread>>
    BY <1>3 DEF OnConflict, staticVars, retryVars, threadVars
  <2>2. Finishing'
    BY <2>1, TailLife
  <2>3. OneTransfer' /\ Lifecycle'
    BY <2>1 DEF Life, OneTransfer, Lifecycle, Busy, Alive, Started
  <2> QED BY <2>2, <2>3 DEF Life
<1>4. CASE OnFinish
  <2> DEFINE s == Head(messages).of
  <2>1. /\ messages # <<>> /\ Head(messages).type = "finish" /\ messages' = Tail(messages)
        /\ active' = None
        /\ UNCHANGED <<checkpoint, startIntents, thread>>
        /\ pendingResult' \in {pendingResult, s} /\ retryDialogs' \subseteq retryDialogs \cup {s}
    BY <1>4 DEF OnFinish, Shown, threadVars
  <2>2. Head(messages) = messages[1] /\ 1 \in 1..Len(messages)
    BY <2>1, LifeTypes, HeadTailProperties, LenProperties, EmptySeq
  <2>3. Busy /\ s = active /\ thread[active] = "gone"
    BY <2>1, <2>2 DEF Life, Finishing
  <2>4. Started(s) /\ s \in Sessions
    BY <2>3, LifeTypes DEF Life, Lifecycle, Busy
  <2>5. OneTransfer'
    <3>1. startIntents = 0
      BY <2>3 DEF Life, OneTransfer
    <3>2. \A t \in Sessions : ~Alive(t)
      BY <2>3 DEF Life, OneTransfer, Alive
    <3> QED BY <2>1, <3>1, <3>2 DEF OneTransfer, Alive, Busy
  <2>6. Lifecycle'
    <3>1. \A t \in Sessions : Started(t) => thread[t] # "none"
      BY <2>3 DEF Life, Lifecycle
    <3>2. ~Busy'
      BY <2>1 DEF Busy
    <3>3. pendingResult' # None => Started(pendingResult)'
      BY <2>1, <2>4 DEF Life, Lifecycle, Started
    <3>4. \A t \in retryDialogs' : Started(t)'
      BY <2>1, <2>4 DEF Life, Lifecycle, Started
    <3> QED BY <2>1, <3>1, <3>2, <3>3, <3>4 DEF Life, Lifecycle, Started
  <2>7. Finishing'
    <3>1. \A i \in 1..Len(messages') : \E j \in 2..Len(messages) : messages'[i] = messages[j]
      BY <2>1, TailLife
    <3>2. \A j \in 2..Len(messages) : j \in 1..Len(messages) /\ j # 1
      OBVIOUS
    <3>3. \A j \in 2..Len(messages) : messages[j].type # "finish"
      BY <2>1, <2>2, <3>2 DEF Life, Finishing
    <3>4. \A j \in 2..Len(messages) : messages[j].type = "conflict" => messages[j].of \in Conflicts
      BY <3>2 DEF Life, Finishing
    <3> QED BY <3>1, <3>3, <3>4 DEF Finishing
  <2> QED BY <2>5, <2>6, <2>7 DEF Life
<1>5. CASE ConsumeFinished
  <2>1. /\ pendingResult # None /\ pendingResult' = None
        /\ retryDialogs' \subseteq retryDialogs \cup {pendingResult}
        /\ UNCHANGED <<active, checkpoint, startIntents, thread, messages>>
    BY <1>5 DEF ConsumeFinished, Shown, threadVars
  <2> QED BY <2>1 DEF Life, OneTransfer, Lifecycle, Finishing, Busy, Alive, Started
<1>6. CASE Attach \/ Detach \/ CancelPressed \/ CancelReleases \/ AnswerSome \/ UNCHANGED vars
  <2>1. UNCHANGED lifeVars
    BY <1>6, Zenon DEF Attach, Detach, CancelPressed, CancelReleases, AnswerSome, Answer, lifeVars,
       vars, staticVars, retryVars, threadVars
  <2> QED BY <1>1, <2>1
<1>13. CASE Recreate
  <2>1. /\ retryDialogs' \subseteq retryDialogs
        /\ UNCHANGED <<active, pendingResult, checkpoint, startIntents, thread, messages>>
    BY <1>13 DEF Recreate, threadVars
  <2> QED BY <2>1 DEF Life, OneTransfer, Lifecycle, Finishing, Busy, Alive, Started
<1>7. ASSUME NEW s \in Sessions, Start(s) PROVE Life'
  BY <1>7, StartsLife DEF Start, threadVars
<1>8. ASSUME NEW s \in Sessions, NEW t \in Sessions, RetryPressed(s, t) PROVE Life'
  <2>1. Starts(t, checkpoint[s]) /\ s \in retryDialogs /\ retryDialogs' \subseteq retryDialogs
        /\ UNCHANGED <<pendingResult, thread, messages>>
    BY <1>8 DEF RetryPressed, threadVars
  <2>2. checkpoint[s] \in Sessions
    BY <2>1, LifeTypes DEF Life, Lifecycle, Started
  <2> QED BY <2>1, <2>2, StartsLife
<1>9. ASSUME NEW s \in Sessions, Dismiss(s) PROVE Life'
  <2>1. /\ retryDialogs' \subseteq retryDialogs
        /\ UNCHANGED <<active, pendingResult, checkpoint, startIntents, thread, messages>>
    BY <1>9 DEF Dismiss, staticVars, threadVars
  <2> QED BY <2>1 DEF Life, OneTransfer, Lifecycle, Finishing, Busy, Alive, Started
<1>10. ASSUME NEW s \in Sessions,
             MeetConflict(s) \/ ApplyRemembered(s) \/ Ask(s) \/ Await(s) \/ WorkEnds(s)
       PROVE Life'
  <2>1. /\ Alive(s) /\ UNCHANGED messages
        /\ UNCHANGED <<active, pendingResult, retryDialogs, checkpoint, startIntents>>
    BY <1>10 DEF MeetConflict, ApplyRemembered, Ask, Await, WorkEnds, staticVars, retryVars, Alive
  <2>2. PICK x \in {"run", "resolve", "post", "ended"} : thread' = [thread EXCEPT ![s] = x]
    BY <1>10 DEF MeetConflict, ApplyRemembered, Ask, Await, WorkEnds
  <2>3. x \in Stages \ {"none"}
    BY DEF Stages
  <2>4. OneTransfer' /\ Lifecycle' /\ \A i \in 1..Len(messages) : messages[i].type # "finish"
    BY <2>1, <2>2, <2>3, ThreadLife
  <2>5. Finishing'
    BY <2>1, <2>4 DEF Life, Finishing
  <2> QED BY <2>4, <2>5 DEF Life
<1>11. ASSUME NEW s \in Sessions, PostConflict(s) PROVE Life'
  <2> DEFINE m == [type |-> "conflict", of |-> pendingConflict[s]]
  <2>1. /\ Alive(s) /\ thread' = [thread EXCEPT ![s] = "await"] /\ messages' = Append(messages, m)
        /\ UNCHANGED <<active, pendingResult, retryDialogs, checkpoint, startIntents>>
    BY <1>11 DEF PostConflict, staticVars, retryVars, Alive
  <2>2. OneTransfer' /\ Lifecycle' /\ \A i \in 1..Len(messages) : messages[i].type # "finish"
    BY <2>1, ThreadLife DEF Stages
  <2>3. m.of \in Conflicts
    <3>1. pendingConflict[s] \in 1..asked
      BY <1>11 DEF PostConflict, Questions, Asked
    <3> QED BY <3>1, Constants DEF TypeOK, Conflicts
  <2>4. m \in Message /\ m.type = "conflict"
    BY <2>3 DEF Message
  <2> HIDE DEF m
  <2> QED BY <2>1, <2>2, <2>3, <2>4, AppendLife DEF Life
<1>12. ASSUME NEW s \in Sessions, Finish(s) PROVE Life'
  <2> DEFINE m == [type |-> "finish", of |-> s]
  <2>1. /\ Alive(s) /\ thread' = [thread EXCEPT ![s] = "gone"] /\ messages' = Append(messages, m)
        /\ UNCHANGED <<active, pendingResult, retryDialogs, checkpoint, startIntents>>
    BY <1>12 DEF Finish, staticVars, Alive
  <2>2. active = s /\ OneTransfer' /\ Lifecycle'
        /\ \A i \in 1..Len(messages) : messages[i].type # "finish"
    BY <2>1, ThreadLife DEF Stages
  <2>3. Busy' /\ m.of = active' /\ thread'[active'] = "gone"
    BY <2>1, <2>2, LifeTypes DEF Busy
  <2>4. m \in Message /\ m.type = "finish"
    BY DEF Message
  <2> HIDE DEF m
  <2> QED BY <2>1, <2>2, <2>3, <2>4, AppendLife DEF Life
<1> QED
  BY <1>2, <1>3, <1>4, <1>5, <1>6, <1>7, <1>8, <1>9, <1>10, <1>11, <1>12, <1>13,
     NextCases, Zenon

-----------------------------------------------------------------------------
(* Questions and their answers *)

Quest == Questions /\ AnswerFitsQuestion

\* What the proofs below use of the types.
LEMMA QuestTypes ==
  ASSUME TypeOK
  PROVE  /\ thread \in [Sessions -> Stages] /\ pendingConflict \in [Sessions -> Conflicts \cup {NoConflict}]
         /\ slot \in [Conflicts -> Answers \cup {"none"}]
         /\ given \in [Conflicts -> Answers \cup {"none"}]
         /\ taken \in [Conflicts -> Answers \cup {"none"}]
         /\ asked \in 0..MaxConflicts /\ Conflicts = 1..MaxConflicts /\ MaxConflicts \in Nat
  BY Constants DEF TypeOK, Stages, Conflicts

\* Steps that neither ask nor answer.
LEMMA QuestKept ==
  ASSUME Quest, UNCHANGED <<asked, pendingConflict, slot, given, taken>>,
         \A t \in Sessions : /\ thread'[t] = "resolve" => thread[t] = "resolve"
                             /\ thread'[t] \in {"post", "await"} => thread[t] \in {"post", "await"}
  PROVE  Quest'
  BY DEF Quest, Questions, Asked, AnswerFitsQuestion

\* A second answer to one question changes nothing the transfer acts on.
LEMMA AnsweredQuest ==
  ASSUME TypeOK, Quest, NEW c \in Conflicts, NEW d \in Answers, Answered(c, d),
         UNCHANGED <<asked, pendingConflict, thread>>
  PROVE  Quest'
<1>1. /\ slot' = IF slot[c] = "none" THEN [slot EXCEPT ![c] = d] ELSE slot
      /\ given' = IF given[c] = "none" THEN [given EXCEPT ![c] = d] ELSE given
      /\ taken' = taken
  BY DEF Answered, Queue
<1>2. \A e \in Conflicts \ {c} : slot'[e] = slot[e] /\ given'[e] = given[e]
  BY <1>1, QuestTypes
<1>3. taken[c] = "none" => slot'[c] = given'[c]
  BY <1>1, QuestTypes DEF Quest, Questions
<1>4. taken[c] # "none" => given'[c] = given[c]
  BY <1>1 DEF Quest, AnswerFitsQuestion
<1>5. Questions'
  BY <1>1, <1>2, <1>3 DEF Quest, Questions, Asked
<1>6. AnswerFitsQuestion'
  BY <1>1, <1>2, <1>4 DEF Quest, AnswerFitsQuestion
<1> QED BY <1>5, <1>6 DEF Quest

\* A step of thread s, the only one in the middle of a question.
LEMMA OnlyThread ==
  ASSUME TypeOK, OneTransfer, NEW s \in Sessions, thread[s] \in {"run", "resolve", "post", "await"},
         NEW x, thread' = [thread EXCEPT ![s] = x]
  PROVE  /\ thread'[s] = x
         /\ \A t \in Sessions \ {s} : thread'[t] \notin {"resolve", "post", "await"}
<1>1. \A t \in Sessions : Alive(t) => t = s
  BY DEF OneTransfer, Alive
<1>2. \A t \in Sessions \ {s} : thread[t] \in {"none", "gone"}
  BY <1>1 DEF Alive
<1> QED BY <1>2, QuestTypes

\* No step mixes up two questions.
LEMMA QuestStep ==
  ASSUME TypeOK, OneTransfer, Finishing, Quest, [Next]_vars PROVE Quest'
<1>1. CASE \/ Attach \/ Detach \/ Recreate \/ CancelPressed \/ OnConflict \/ OnFinish
           \/ ConsumeFinished \/ UNCHANGED vars
  <2>1. UNCHANGED <<asked, pendingConflict, slot, given, taken, thread>>
    BY <1>1, Zenon DEF Attach, Detach, Recreate, CancelPressed, OnConflict, OnFinish,
       ConsumeFinished, vars, sessionVars, answerVars, threadVars
  <2> QED BY <2>1, QuestKept
<1>2. CASE OnStartCommand
  <2>1. /\ UNCHANGED <<asked, pendingConflict, slot, given, taken>>
        /\ thread' = IF Busy THEN [thread EXCEPT ![active] = "run"] ELSE thread
    BY <1>2 DEF OnStartCommand, sessionVars, answerVars
  <2>2. \A t \in Sessions : thread'[t] = thread[t] \/ thread'[t] = "run"
    BY <2>1, QuestTypes
  <2> QED BY <2>1, <2>2, QuestKept
<1>3. CASE CancelReleases
  <2>1. /\ UNCHANGED <<asked, pendingConflict, thread>> /\ mainPc \in Sessions
        /\ \/ UNCHANGED answerVars
           \/ pendingConflict[mainPc] # NoConflict /\ Answered(pendingConflict[mainPc], "null")
    <3>1. UNCHANGED <<asked, pendingConflict, thread>>
      BY <1>3, Zenon DEF CancelReleases, sessionVars, threadVars
    <3>2. mainPc \in Sessions
      BY <1>3, Zenon DEF CancelReleases, TypeOK
    <3> QED BY <1>3, <3>1, <3>2, Zenon DEF CancelReleases
  <2>2. CASE UNCHANGED answerVars
    BY <2>1, <2>2, QuestKept DEF answerVars
  <2>3. CASE pendingConflict[mainPc] # NoConflict /\ Answered(pendingConflict[mainPc], "null")
    <3>1. pendingConflict[mainPc] \in Conflicts
      BY <2>1, <2>3, QuestTypes
    <3> QED BY <2>1, <2>3, <3>1, AnsweredQuest DEF Answers
  <2> QED BY <2>1, <2>2, <2>3
<1>4. CASE AnswerSome
  <2>1. PICK w \in dialogs, d \in Answers, all \in BOOLEAN : Answer(w, d, all)
    BY <1>4 DEF AnswerSome
  <2>2. w[1] \in Conflicts
    BY <2>1 DEF TypeOK
  <2>3. Answered(w[1], d) /\ UNCHANGED <<asked, pendingConflict, thread>>
    BY <2>1, Zenon DEF Answer, threadVars
  <2> QED BY <2>2, <2>3, AnsweredQuest
<1>5. ASSUME NEW s \in Sessions, Start(s) \/ Dismiss(s) \/ \E t \in Sessions : RetryPressed(t, s)
      PROVE  Quest'
  <2>1. UNCHANGED <<asked, pendingConflict, slot, given, taken, thread>>
    BY <1>5, Zenon DEF Start, Dismiss, RetryPressed, sessionVars, answerVars, threadVars
  <2> QED BY <2>1, QuestKept
<1>6. ASSUME NEW s \in Sessions, MeetConflict(s) PROVE Quest'
  <2>1. /\ thread[s] = "run" /\ thread' = [thread EXCEPT ![s] = "resolve"]
        /\ asked < MaxConflicts /\ asked' = asked + 1
        /\ UNCHANGED <<pendingConflict, slot, given, taken>>
    BY <1>6 DEF MeetConflict, sessionVars, answerVars
  <2>2. thread'[s] = "resolve" /\ \A t \in Sessions \ {s} : thread'[t] \notin {"resolve", "post", "await"}
    BY <2>1, OnlyThread
  <2>3. asked' > 0 /\ asked' \in Conflicts /\ taken'[asked'] = "none"
    BY <2>1, QuestTypes DEF Quest, Questions
  <2>4. \A e \in Conflicts : e > asked' => taken'[e] = "none"
    BY <2>1, QuestTypes DEF Quest, Questions
  <2>5. Questions'
    BY <2>1, <2>2, <2>3, <2>4 DEF Quest, Questions
  <2> QED BY <2>1, <2>5 DEF Quest, AnswerFitsQuestion
<1>7. ASSUME NEW s \in Sessions, Ask(s) PROVE Quest'
  <2>1. /\ thread[s] = "resolve" /\ thread' = [thread EXCEPT ![s] = "post"]
        /\ pendingConflict' = [pendingConflict EXCEPT ![s] = asked]
        /\ UNCHANGED <<asked, slot, given, taken>>
    BY <1>7 DEF Ask, answerVars
  <2>2. thread'[s] = "post" /\ \A t \in Sessions \ {s} : thread'[t] \notin {"resolve", "post", "await"}
    BY <2>1, OnlyThread
  <2>3. pendingConflict'[s] = asked /\ asked > 0 /\ taken[asked] = "none"
    BY <2>1, QuestTypes DEF Quest, Questions
  <2>4. Asked(s)'
    BY <2>1, <2>3, QuestTypes DEF Asked
  <2>5. Questions'
    BY <2>1, <2>2, <2>4 DEF Quest, Questions
  <2> QED BY <2>1, <2>5 DEF Quest, AnswerFitsQuestion
<1>8. ASSUME NEW s \in Sessions, Await(s) PROVE Quest'
  <2> DEFINE c == pendingConflict[s]
             d == slot[c]
  <2>1. /\ thread[s] = "await" /\ d # "none"
        /\ thread' = [thread EXCEPT ![s] = "run"]
        /\ slot' = [slot EXCEPT ![c] = "none"] /\ taken' = [taken EXCEPT ![c] = d]
        /\ UNCHANGED <<asked, given>>
    BY <1>8 DEF Await, Queue
  <2>2. thread'[s] = "run" /\ \A t \in Sessions \ {s} : thread'[t] \notin {"resolve", "post", "await"}
    BY <2>1, OnlyThread
  <2>3. c \in 1..asked /\ taken[c] = "none"
    BY <2>1 DEF Quest, Questions, Asked
  <2>4. c \in Conflicts /\ d = given[c]
    BY <2>3, QuestTypes DEF Quest, Questions
  <2> HIDE DEF c, d
  <2>5. /\ taken'[c] = d
        /\ \A e \in Conflicts \ {c} : taken'[e] = taken[e] /\ slot'[e] = slot[e]
    BY <2>1, <2>4, QuestTypes
  <2>6. \A e \in Conflicts : e > asked => e # c
    BY <2>3, QuestTypes
  <2>7. \A t \in Sessions : thread'[t] \notin {"resolve", "post", "await"}
    BY <2>2
  <2>8. Questions'
    BY <2>1, <2>5, <2>6, <2>7 DEF Quest, Questions
  <2>9. AnswerFitsQuestion'
    BY <2>1, <2>4, <2>5 DEF Quest, AnswerFitsQuestion
  <2> QED BY <2>8, <2>9 DEF Quest
<1>9. ASSUME NEW s \in Sessions, ApplyRemembered(s) \/ PostConflict(s) \/ WorkEnds(s) \/ Finish(s)
      PROVE  Quest'
  <2>1. UNCHANGED <<asked, pendingConflict, slot, given, taken>>
    BY <1>9, Zenon DEF ApplyRemembered, PostConflict, WorkEnds, Finish, sessionVars, answerVars
  <2>2. \/ thread' \in {[thread EXCEPT ![s] = x] : x \in {"run", "ended", "gone"}}
        \/ thread[s] = "post" /\ thread' = [thread EXCEPT ![s] = "await"]
    BY <1>9 DEF ApplyRemembered, PostConflict, WorkEnds, Finish
  <2>3. \A t \in Sessions : /\ thread'[t] = "resolve" => thread[t] = "resolve"
                            /\ thread'[t] \in {"post", "await"} => thread[t] \in {"post", "await"}
    BY <2>2, QuestTypes
  <2> QED BY <2>1, <2>3, QuestKept
<1> QED
  BY <1>1, <1>2, <1>3, <1>4, <1>5, <1>6, <1>7, <1>8, <1>9, NextCases, Zenon

-----------------------------------------------------------------------------
(* One holder of a checkpoint, and partial files only for it *)

Keep == Holding /\ OneCheckpointHolder /\ RetryStateShown
holders == <<active, pendingResult, retryDialogs, orphaned>>

Shows(s) == s \in {active, pendingResult} \cup retryDialogs
Excused(s) == s \in orphaned \/ (cancelled[s] /\ finished[s] = "failed")
Offered(s) == Shows(s) \/ Excused(s)

LEMMA KeepTypes ==
  ASSUME TypeOK
  PROVE  /\ active \in Sessions \cup {None} /\ pendingResult \in Sessions \cup {None}
         /\ retryDialogs \subseteq Sessions /\ None \notin Sessions
         /\ checkpoint \in [Sessions -> Sessions \cup {None}] /\ partials \in [Sessions -> BOOLEAN]
         /\ thread \in [Sessions -> Stages] /\ cancelled \in [Sessions -> BOOLEAN]
         /\ finished \in [Sessions -> {"none", "success", "failed"}]
         /\ messages \in Seq(Message)
  BY Constants DEF TypeOK, Message, Stages

NotTwo == \A s, t \in Sessions :
  s # t /\ checkpoint[s] = checkpoint[t] /\ checkpoint[s] # None => ~(Shows(s) /\ Shows(t))
EachOffered == \A s \in Sessions :
  partials[s] => \E t \in Sessions : checkpoint[t] = s /\ Offered(t)

LEMMA KeepParts == (RetryStateShown <=> EachOffered) /\ (OneCheckpointHolder <=> NotTwo)
<1>1. RetryStateShown <=> EachOffered
  BY Zenon DEF RetryStateShown, EachOffered, Offered, Excused, Shows
<1>2. OneCheckpointHolder <=> NotTwo
  BY DEF OneCheckpointHolder, NotTwo, Shows
<1> QED BY <1>1, <1>2

\* Steps of a thread before its end, and of whoever sets a cancel flag.
LEMMA KeepOn ==
  ASSUME TypeOK, Keep, UNCHANGED <<holders, checkpoint, partials, finished>>,
         \A t \in Sessions : cancelled[t] => cancelled'[t],
         \A t \in Sessions : {thread[t], thread'[t]} \cap {"ended", "gone"} # {} => thread'[t] = thread[t]
  PROVE  Keep'
<1>1. /\ active' = active /\ pendingResult' = pendingResult /\ retryDialogs' = retryDialogs
      /\ orphaned' = orphaned /\ checkpoint' = checkpoint /\ partials' = partials /\ finished' = finished
  BY Zenon DEF holders
<1>2. \A t \in Sessions : /\ thread'[t] \in {"ended", "gone"} => thread[t] = thread'[t]
                          /\ thread[t] = "gone" => thread'[t] = "gone"
  OBVIOUS
<1>3. Holding'
  BY <1>1, <1>2, KeepTypes DEF Keep, Holding, Started, Busy
<1>4. OneCheckpointHolder'
  BY <1>1, Zenon DEF Keep, OneCheckpointHolder
<1>5. RetryStateShown'
  <2>0. EachOffered' => RetryStateShown'
    BY KeepParts, PTL
  <2>1. \A t \in Sessions : Offered(t) => Offered(t)'
    BY <1>1, Zenon DEF Offered, Excused, Shows
  <2>2. EachOffered => EachOffered'
    BY <1>1, <2>1, Zenon DEF EachOffered
  <2> QED BY <2>0, <2>2, KeepParts, Zenon DEF Keep
<1> QED BY <1>3, <1>4, <1>5 DEF Keep

\* A new session t takes a checkpoint over from s, or brings its own.
LEMMA KeepStarts ==
  ASSUME TypeOK, Life, Keep, NEW t \in Sessions, NEW holder \in Sessions, Starts(t, holder),
         UNCHANGED <<pendingResult, partials, orphaned, thread, finished, cancelled>>,
         \/ holder = t /\ UNCHANGED retryDialogs
         \/ \E s \in retryDialogs : holder = checkpoint[s] /\ retryDialogs' = retryDialogs \ {s}
  PROVE  Keep'
<1>1. /\ active = None /\ active' = t /\ ~Started(t)
      /\ checkpoint' = [checkpoint EXCEPT ![t] = holder]
  BY Zenon DEF Starts, Busy, Started
<1>2. /\ checkpoint'[t] = holder
      /\ \A u \in Sessions : u # t => checkpoint'[u] = checkpoint[u]
  BY <1>1, KeepTypes
<1>3. /\ pendingResult # t /\ t \notin retryDialogs
      /\ thread[t] = "none" /\ \A u \in Sessions : checkpoint[u] # t
  BY <1>1, KeepTypes DEF Life, Lifecycle, Keep, Holding, Started
<1>4. holder = t \/ (holder # t /\ checkpoint[holder] = holder)
  BY <1>1, <1>3, KeepTypes DEF Life, Lifecycle, Keep, Holding, Started
<1>5. \A u \in Sessions : Shows(u)' => u = t \/ Shows(u)
  BY <1>1, KeepTypes DEF Shows
<1>6. ASSUME NEW u \in Sessions, u # t, Shows(u)' PROVE checkpoint'[u] # holder
  <2>1. Shows(u) /\ checkpoint'[u] = checkpoint[u]
    BY <1>2, <1>5, <1>6
  <2>2. CASE holder = t
    BY <1>3, <2>1, <2>2
  <2>3. ASSUME NEW s \in retryDialogs, holder = checkpoint[s], retryDialogs' = retryDialogs \ {s}
        PROVE checkpoint[u] # holder
    <3>1. s # u
      BY <1>1, <1>6, <2>3, KeepTypes DEF Shows, Keep, Holding
    <3>2. Shows(s) /\ s \in Sessions /\ holder # None
      BY KeepTypes DEF Shows
    <3> QED BY <2>1, <2>3, <3>1, <3>2, KeepParts, Zenon DEF Keep, NotTwo
  <2> QED BY <2>1, <2>2, <2>3
<1>7. Holding'
  <2>1. \A u \in Sessions : Started(u)' => checkpoint'[checkpoint'[u]] = checkpoint'[u]
    <3>1. ASSUME NEW u \in Sessions, u # t, Started(u)' PROVE checkpoint'[checkpoint'[u]] = checkpoint'[u]
      <4>1. Started(u) /\ checkpoint'[u] = checkpoint[u] /\ checkpoint[u] \in Sessions /\ checkpoint[u] # t
        BY <1>2, <1>3, <3>1, KeepTypes DEF Started
      <4>2. checkpoint[checkpoint[u]] = checkpoint[u]
        BY <4>1, Zenon DEF Keep, Holding
      <4> QED BY <1>2, <4>1, <4>2
    <3>2. checkpoint'[checkpoint'[t]] = checkpoint'[t]
      BY <1>2, <1>4
    <3> QED BY <3>1, <3>2
  <2>2. \A u \in retryDialogs' : u # active' /\ u # pendingResult'
    BY <1>1, <1>3 DEF Keep, Holding
  <2>3. active' # pendingResult'
    BY <1>1, <1>3
  <2>4. \A u \in Sessions : thread'[u] \in {"ended", "gone"} => finished'[u] # "none"
    BY DEF Keep, Holding
  <2>5. \A u \in retryDialogs' \cup {pendingResult'} : u # None => thread'[u] = "gone"
    BY DEF Keep, Holding
  <2>6. ASSUME NEW u \in Sessions, u \in {active', pendingResult'}, thread'[u] = "gone", finished'[u] = "success"
        PROVE  ~partials'[checkpoint'[u]]
    <3>1. u # t /\ u = pendingResult
      BY <1>1, <1>3, <2>6
    <3> QED BY <1>2, <2>6, <3>1 DEF Keep, Holding
  <2> QED BY <2>1, <2>2, <2>3, <2>4, <2>5, <2>6 DEF Holding
<1>8. OneCheckpointHolder'
  <2>1. ASSUME NEW u \in Sessions, NEW v \in Sessions, u # v, checkpoint'[u] = checkpoint'[v],
               checkpoint'[u] # None, Shows(u)', Shows(v)'
        PROVE FALSE
    <3>1. CASE u = t \/ v = t
      BY <1>2, <1>6, <2>1, <3>1
    <3>2. CASE u # t /\ v # t
      BY <1>2, <1>5, <2>1, <3>2, KeepParts, Zenon DEF Keep, NotTwo
    <3> QED BY <3>1, <3>2
  <2>2. NotTwo'
    BY <2>1, Zenon DEF NotTwo
  <2> QED BY <2>2, KeepParts, PTL
<1>9. RetryStateShown'
  <2>0. EachOffered' => RetryStateShown'
    BY KeepParts, PTL
  <2> SUFFICES ASSUME NEW s \in Sessions, partials'[s]
               PROVE  \E u \in Sessions : checkpoint'[u] = s /\ Offered(u)'
    BY <2>0, Zenon DEF EachOffered
  <2>2. PICK u \in Sessions : checkpoint[u] = s /\ Offered(u)
    BY KeepParts, Zenon DEF Keep, EachOffered
  <2>3. u # t /\ checkpoint'[u] = s
    BY <1>2, <1>3, <2>2, <1>1, KeepTypes DEF Started
  <2>4. Offered(u)' \/ (u \in retryDialogs /\ retryDialogs' = retryDialogs \ {u} /\ holder = s)
    BY <1>1, <2>2, KeepTypes DEF Offered, Excused, Shows
  <2>5. Offered(t)' /\ checkpoint'[t] = holder
    BY <1>1, <1>2 DEF Offered, Shows
  <2> QED BY <2>3, <2>4, <2>5
<1> QED BY <1>7, <1>8, <1>9 DEF Keep

\* A session that is over is shown at once or when the screen comes back.
LEMMA KeepShown ==
  ASSUME TypeOK, Life, Keep, NEW s \in Sessions, thread[s] = "gone",
         UNCHANGED <<checkpoint, partials, thread, finished, cancelled>>,
         \/ active = s /\ active' = None /\ pendingResult' \in {s, pendingResult}
         \/ pendingResult = s /\ pendingResult' = None /\ active' = active,
         \/ /\ pendingResult' = s /\ UNCHANGED retryDialogs
            /\ orphaned' = orphaned \cup {t \in {pendingResult} \ {None} : Retriable(t)}
         \/ /\ pendingResult' \in {pendingResult, None} /\ pendingResult' # s
            /\ retryDialogs' = Shown(s) /\ UNCHANGED orphaned
  PROVE  Keep'
<1>1. /\ active' \in {active, None} \ {s} /\ pendingResult' \in {s, pendingResult, None}
      /\ retryDialogs' \subseteq retryDialogs \cup {s} /\ s \notin retryDialogs
      /\ Started(s) /\ s # None /\ retryDialogs \subseteq retryDialogs'
  BY KeepTypes DEF Shown, Keep, Holding, Life, Lifecycle, Busy
<1>2. Shows(s) /\ \A u \in Sessions : Shows(u)' => Shows(u)
  BY <1>1, KeepTypes DEF Shows
<1>3. Holding'
  <2>1. \A u \in retryDialogs' : u # active' /\ u # pendingResult'
    BY <1>1, KeepTypes DEF Keep, Holding, Shown
  <2> QED BY <1>1, <2>1, KeepTypes DEF Keep, Holding, Busy, Started
<1>4. OneCheckpointHolder'
  <2>1. \A u, v \in Sessions : u # v /\ checkpoint'[u] = checkpoint'[v] /\ checkpoint'[u] # None
                               => ~(Shows(u)' /\ Shows(v)')
    BY <1>2, KeepParts, Zenon DEF Keep, NotTwo
  <2>2. NotTwo'
    BY <2>1, Zenon DEF NotTwo
  <2> QED BY <2>2, KeepParts, PTL
<1>5. RetryStateShown'
  <2>0. EachOffered' => RetryStateShown'
    BY KeepParts, PTL
  <2> SUFFICES ASSUME NEW r \in Sessions, partials'[r]
               PROVE  \E u \in Sessions : checkpoint'[u] = r /\ Offered(u)'
    BY <2>0, Zenon DEF EachOffered
  <2>1. PICK u \in Sessions : checkpoint[u] = r /\ Offered(u)
    BY KeepParts, Zenon DEF Keep, EachOffered
  <2>2. orphaned \subseteq orphaned'
    OBVIOUS
  <2>3. CASE Excused(u)
    BY <2>1, <2>2, <2>3, Zenon DEF Offered, Excused
  <2>4. CASE Shows(u) /\ Shows(u)'
    BY <2>1, <2>4, Zenon DEF Offered
  <2>5. CASE Shows(u) /\ ~Shows(u)'
    <3>1. u \in {s, pendingResult} /\ u \notin retryDialogs /\ u # pendingResult'
      BY <1>1, <2>5, KeepTypes DEF Shows
    <3>2. u \in {active, pendingResult} /\ thread[u] = "gone"
      BY <3>1, KeepTypes DEF Keep, Holding
    <3>3. finished[u] # "success"
      BY <2>1, <3>2, KeepTypes DEF Keep, Holding
    <3>4. finished[u] = "failed"
      BY <3>2, <3>3, KeepTypes DEF Keep, Holding
    <3>5. CASE cancelled[u]
      BY <2>1, <3>4, <3>5, Zenon DEF Offered, Excused
    <3>6. CASE ~cancelled[u]
      <4>1. Retriable(u)
        BY <3>4, <3>6 DEF Retriable
      <4>2. u = s => pendingResult' # s /\ u \in Shown(s) /\ retryDialogs' = Shown(s)
        BY <3>1, <4>1 DEF Shown
      <4>3. u # s
        BY <2>5, <4>2 DEF Shows
      <4>4. u = pendingResult /\ u # None
        BY <3>1, <4>3, KeepTypes
      <4>5. u \in orphaned'
        BY <3>1, <4>1, <4>3, <4>4
      <4> QED BY <2>1, <4>5 DEF Offered, Excused
    <3> QED BY <3>5, <3>6
  <2> QED BY <2>1, <2>3, <2>4, <2>5, Zenon DEF Offered
<1> QED BY <1>3, <1>4, <1>5 DEF Keep

\* The last of the thread, and a dialog dismissed: partial files of one checkpoint.
LEMMA KeepPartials ==
  ASSUME TypeOK, Life, Keep, NEW s \in Sessions, NEW kept \in BOOLEAN,
         UNCHANGED <<active, pendingResult, orphaned, checkpoint, cancelled>>,
         partials' = [partials EXCEPT ![checkpoint[s]] = kept],
         \/ kept = FALSE /\ retryDialogs' = retryDialogs \ {s} /\ UNCHANGED <<thread, finished>>
         \/ /\ active = s /\ UNCHANGED retryDialogs
            /\ finished'[s] # "none" /\ (finished'[s] = "success" /\ thread'[s] = "gone" => ~kept)
            /\ \A u \in Sessions : u # s => thread'[u] = thread[u] /\ finished'[u] = finished[u]
  PROVE  Keep'
<1>0. checkpoint[s] # None => checkpoint[s] \in Sessions /\ partials'[checkpoint[s]] = kept
  BY KeepTypes
<1>1. \A r \in Sessions : r # checkpoint[s] => partials'[r] = partials[r]
  BY KeepTypes
<1>2. \A u \in Sessions : Shows(u)' => Shows(u)
  BY KeepTypes DEF Shows
<1>3. Holding'
  <2>1. \A u \in Sessions : thread'[u] \in {"ended", "gone"} => finished'[u] # "none"
    BY DEF Keep, Holding
  <2>2. \A u \in retryDialogs' \cup {pendingResult'} : u # None => thread'[u] = "gone"
    BY KeepTypes DEF Keep, Holding, Busy
  <2>3. ASSUME NEW u \in Sessions, u \in {active', pendingResult'}, thread'[u] = "gone", finished'[u] = "success"
        PROVE  ~partials'[checkpoint'[u]]
    <3>1. Started(u) /\ checkpoint[u] \in Sessions /\ Shows(u)
      BY <2>3, KeepTypes DEF Life, Lifecycle, Busy, Started, Shows
    <3>2. CASE u = s
      BY <1>0, <2>3, <3>1, <3>2, KeepTypes DEF Keep, Holding, Started
    <3>3. CASE u # s
      <4>1. thread[u] = "gone" /\ finished[u] = "success"
        BY <2>3, <3>3
      <4>2. ~partials[checkpoint[u]]
        BY <2>3, <4>1, Zenon DEF Keep, Holding
      <4>3. CASE checkpoint[u] # checkpoint[s]
        BY <1>1, <3>1, <4>2, <4>3
      <4>4. CASE checkpoint[u] = checkpoint[s] /\ active = s
        <5>1. Shows(s)
          BY <4>4 DEF Shows
        <5> QED BY <3>1, <3>3, <4>4, <5>1, KeepParts, Zenon DEF Keep, NotTwo, Started
      <4>5. CASE checkpoint[u] = checkpoint[s] /\ kept = FALSE
        BY <1>0, <3>1, <4>5 DEF Started
      <4> QED BY <4>3, <4>4, <4>5
    <3> QED BY <3>2, <3>3
  <2> QED BY <2>1, <2>2, <2>3 DEF Keep, Holding, Started, Busy
<1>4. OneCheckpointHolder'
  <2>1. \A u, v \in Sessions : u # v /\ checkpoint'[u] = checkpoint'[v] /\ checkpoint'[u] # None
                               => ~(Shows(u)' /\ Shows(v)')
    BY <1>2, KeepParts, Zenon DEF Keep, NotTwo
  <2>2. NotTwo'
    BY <2>1, Zenon DEF NotTwo
  <2> QED BY <2>2, KeepParts, PTL
<1>5. RetryStateShown'
  <2>0. EachOffered' => RetryStateShown'
    BY KeepParts, PTL
  <2> SUFFICES ASSUME NEW r \in Sessions, partials'[r]
               PROVE  \E u \in Sessions : checkpoint'[u] = r /\ Offered(u)'
    BY <2>0, Zenon DEF EachOffered
  <2>2. CASE r = checkpoint[s] /\ kept
    <3>1. active = s /\ Offered(s)'
      BY <2>2 DEF Offered, Shows
    <3> QED BY <2>2, <3>1
  <2>3. CASE r # checkpoint[s]
    <3>1. PICK u \in Sessions : checkpoint[u] = r /\ Offered(u)
      BY <1>1, <2>3, KeepParts, Zenon DEF Keep, EachOffered
    <3>2. u # s
      BY <2>3, <3>1
    <3>3. Offered(u)'
      BY <3>1, <3>2 DEF Offered, Excused, Shows
    <3> QED BY <3>1, <3>3
  <2>4. r = checkpoint[s] => kept
    BY <1>0, KeepTypes
  <2> QED BY <2>2, <2>3, <2>4
<1> QED BY <1>3, <1>4, <1>5 DEF Keep

\* The activity is recreated: the retry dialogs go, and are remembered.
LEMMA KeepRecreate ==
  ASSUME TypeOK, Keep, Recreate PROVE Keep'
<1>1. /\ retryDialogs' = {} /\ orphaned' = orphaned \cup retryDialogs
      /\ UNCHANGED <<active, pendingResult, checkpoint, partials, thread, finished, cancelled>>
  BY Zenon DEF Recreate, threadVars, sessionVars
<1>2. Holding'
  BY <1>1, KeepTypes DEF Keep, Holding, Started, Busy
<1>3. OneCheckpointHolder'
  <2>1. \A u \in Sessions : Shows(u)' => Shows(u)
    BY <1>1 DEF Shows
  <2>2. NotTwo'
    BY <1>1, <2>1, KeepParts, Zenon DEF Keep, NotTwo
  <2> QED BY <2>2, KeepParts, PTL
<1>4. RetryStateShown'
  <2>1. \A u \in Sessions : Offered(u) => Offered(u)'
    BY <1>1 DEF Offered, Excused, Shows
  <2>2. EachOffered'
    BY <1>1, <2>1, KeepParts, Zenon DEF Keep, EachOffered
  <2> QED BY <2>2, KeepParts, PTL
<1> QED BY <1>2, <1>3, <1>4 DEF Keep

LEMMA KeepStep ==
  ASSUME TypeOK, Life, Questions, Keep, [Next]_vars PROVE Keep'
<1> DEFINE Still == UNCHANGED <<holders, checkpoint, partials, finished>>
<1>1. CASE Still /\ UNCHANGED <<thread, cancelled>>
  BY <1>1, KeepOn
<1>2. CASE \/ Attach \/ Detach \/ CancelReleases \/ OnConflict \/ AnswerSome \/ UNCHANGED vars
  <2>1. Still /\ UNCHANGED <<thread, cancelled>>
    BY <1>2, Zenon DEF Attach, Detach, CancelReleases, OnConflict, AnswerSome, Answer, vars,
       staticVars, retryVars, threadVars, sessionVars, holders
  <2> QED BY <1>1, <2>1
<1>3. CASE CancelPressed
  <2>1. Still /\ UNCHANGED thread /\ cancelled' = [cancelled EXCEPT ![active] = TRUE]
    BY <1>3, Zenon DEF CancelPressed, staticVars, retryVars, threadVars, holders
  <2>2. \A t \in Sessions : cancelled[t] => cancelled'[t]
    BY <2>1, KeepTypes
  <2> QED BY <2>1, <2>2, KeepOn
<1>4. CASE OnStartCommand
  <2>1. Still /\ UNCHANGED cancelled
    BY <1>4, Zenon DEF OnStartCommand, staticVars, retryVars, sessionVars, holders
  <2>2. \/ thread' = thread
        \/ Busy /\ thread' = [thread EXCEPT ![active] = "run"]
    BY <1>4 DEF OnStartCommand
  <2>3. Busy => thread[active] = "none"
    BY <1>4, KeepTypes DEF OnStartCommand, Life, OneTransfer
  <2>4. \A t \in Sessions : {thread[t], thread'[t]} \cap {"ended", "gone"} # {} => thread'[t] = thread[t]
    BY <2>2, <2>3, KeepTypes DEF Busy
  <2> QED BY <2>1, <2>4, KeepOn
<1>5. ASSUME NEW s \in Sessions,
             MeetConflict(s) \/ ApplyRemembered(s) \/ Ask(s) \/ PostConflict(s) \/ Await(s)
      PROVE  Keep'
  <2>1. Still
    BY <1>5, Zenon DEF MeetConflict, ApplyRemembered, Ask, PostConflict, Await, staticVars,
       retryVars, sessionVars, holders
  <2>2. /\ thread[s] \in {"run", "resolve", "post", "await"}
        /\ \E x \in {"run", "resolve", "post", "await"} : thread' = [thread EXCEPT ![s] = x]
    BY <1>5 DEF MeetConflict, ApplyRemembered, Ask, PostConflict, Await
  <2>3. \A t \in Sessions : {thread[t], thread'[t]} \cap {"ended", "gone"} # {} => thread'[t] = thread[t]
    BY <2>2, KeepTypes
  <2>4. cancelled' = cancelled \/ cancelled' = [cancelled EXCEPT ![s] = TRUE]
    BY <1>5, Zenon DEF MeetConflict, ApplyRemembered, Ask, PostConflict, Await, sessionVars
  <2>5. \A t \in Sessions : cancelled[t] => cancelled'[t]
    BY <2>4, KeepTypes
  <2> QED BY <2>1, <2>3, <2>5, KeepOn
<1>6. ASSUME NEW s \in Sessions, Start(s) PROVE Keep'
  <2>1. /\ Starts(s, s)
        /\ UNCHANGED <<pendingResult, partials, orphaned, thread, finished, cancelled, retryDialogs>>
    BY <1>6, Zenon DEF Start, threadVars, sessionVars
  <2> QED BY <2>1, KeepStarts
<1>7. ASSUME NEW s \in Sessions, NEW t \in Sessions, RetryPressed(s, t) PROVE Keep'
  <2>1. /\ s \in retryDialogs /\ Starts(t, checkpoint[s]) /\ retryDialogs' = retryDialogs \ {s}
        /\ UNCHANGED <<pendingResult, partials, orphaned, thread, finished, cancelled>>
    BY <1>7, Zenon DEF RetryPressed, threadVars, sessionVars
  <2>2. checkpoint[s] \in Sessions
    BY <2>1, KeepTypes DEF Life, Lifecycle, Started
  <2> QED BY <2>1, <2>2, KeepStarts
<1>8. CASE OnFinish
  <2> DEFINE s == Head(messages).of
  <2>1. /\ messages # <<>> /\ Head(messages).type = "finish" /\ active' = None
        /\ \/ /\ pendingResult' = s /\ UNCHANGED retryDialogs
              /\ orphaned' = orphaned \cup {t \in {pendingResult} \ {None} : Retriable(t)}
           \/ retryDialogs' = Shown(s) /\ UNCHANGED <<pendingResult, orphaned>>
        /\ UNCHANGED <<checkpoint, partials, thread, finished, cancelled>>
    BY <1>8, Zenon DEF OnFinish, threadVars, sessionVars
  <2>2. Head(messages) = messages[1] /\ 1 \in 1..Len(messages)
    BY <2>1, HeadTailProperties, LenProperties, EmptySeq, KeepTypes
  <2>3. active = s /\ s \in Sessions /\ thread[s] = "gone"
    BY <2>1, <2>2, KeepTypes DEF Life, Finishing, Busy
  <2>4. pendingResult # s
    BY <2>3, KeepTypes DEF Keep, Holding, Busy
  <2> HIDE DEF s
  <2> QED BY <2>1, <2>3, <2>4, KeepShown
<1>9. CASE ConsumeFinished
  <2>1. /\ pendingResult # None /\ pendingResult' = None /\ retryDialogs' = Shown(pendingResult)
        /\ UNCHANGED <<active, checkpoint, partials, orphaned, thread, finished, cancelled>>
    BY <1>9, Zenon DEF ConsumeFinished, threadVars, sessionVars
  <2>2. pendingResult \in Sessions /\ thread[pendingResult] = "gone"
    BY <2>1, KeepTypes DEF Keep, Holding
  <2> QED BY <2>1, <2>2, KeepShown
<1>10. ASSUME NEW s \in Sessions, Dismiss(s) PROVE Keep'
  <2>1. /\ retryDialogs' = retryDialogs \ {s} /\ partials' = [partials EXCEPT ![checkpoint[s]] = FALSE]
        /\ UNCHANGED <<active, pendingResult, orphaned, checkpoint, cancelled, thread, finished>>
    BY <1>10, Zenon DEF Dismiss, staticVars, threadVars, sessionVars
  <2> QED BY <2>1, KeepPartials
<1>11. ASSUME NEW s \in Sessions, WorkEnds(s) PROVE Keep'
  <2>1. /\ thread[s] = "run" /\ thread' = [thread EXCEPT ![s] = "ended"]
        /\ UNCHANGED <<active, pendingResult, orphaned, checkpoint, retryDialogs, cancelled>>
        /\ \E x \in {"success", "failed"} : finished' = [finished EXCEPT ![s] = x]
        /\ \/ UNCHANGED partials
           \/ \E left \in BOOLEAN : partials' = [partials EXCEPT ![checkpoint[s]] = left]
    BY <1>11 DEF WorkEnds, staticVars
  <2>2. active = s /\ checkpoint[s] \in Sessions
    BY <2>1, KeepTypes DEF Life, OneTransfer, Alive, Lifecycle, Started
  <2>3. \E left \in BOOLEAN : partials' = [partials EXCEPT ![checkpoint[s]] = left]
    <3>1. partials = [partials EXCEPT ![checkpoint[s]] = partials[checkpoint[s]]]
          /\ partials[checkpoint[s]] \in BOOLEAN
      BY <2>2, KeepTypes
    <3> QED BY <2>1, <3>1, Zenon
  <2>4. /\ thread'[s] = "ended" /\ finished'[s] # "none"
        /\ \A u \in Sessions : u # s => thread'[u] = thread[u] /\ finished'[u] = finished[u]
    BY <2>1, KeepTypes
  <2> QED BY <2>1, <2>2, <2>3, <2>4, KeepPartials
<1>12. ASSUME NEW s \in Sessions, Finish(s) PROVE Keep'
  <2>1. /\ thread[s] = "ended" /\ thread' = [thread EXCEPT ![s] = "gone"]
        /\ UNCHANGED <<active, pendingResult, orphaned, checkpoint, retryDialogs, cancelled, finished>>
        /\ partials' = IF cancelled[s] \/ finished[s] = "success"
                       THEN [partials EXCEPT ![checkpoint[s]] = FALSE] ELSE partials
    BY <1>12, Zenon DEF Finish, staticVars, sessionVars
  <2>2. active = s /\ checkpoint[s] \in Sessions /\ finished[s] # "none"
    BY <2>1, KeepTypes DEF Life, OneTransfer, Alive, Lifecycle, Started, Keep, Holding
  <2>3. \E left \in BOOLEAN : /\ partials' = [partials EXCEPT ![checkpoint[s]] = left]
                              /\ finished[s] = "success" => ~left
    <3>1. partials = [partials EXCEPT ![checkpoint[s]] = partials[checkpoint[s]]]
          /\ partials[checkpoint[s]] \in BOOLEAN
      BY <2>2, KeepTypes
    <3> QED BY <2>1, <3>1, Zenon
  <2>4. /\ thread'[s] = "gone" /\ finished'[s] # "none"
        /\ \A u \in Sessions : u # s => thread'[u] = thread[u] /\ finished'[u] = finished[u]
    BY <2>1, <2>2, KeepTypes
  <2> QED BY <2>1, <2>2, <2>3, <2>4, KeepPartials
<1>13. CASE Recreate
  BY <1>13, KeepRecreate
<1> HIDE DEF Still
<1> QED
  BY <1>2, <1>3, <1>4, <1>5, <1>6, <1>7, <1>8, <1>9, <1>10, <1>11, <1>12, <1>13,
     NextCases, Zenon

-----------------------------------------------------------------------------
(* The invariant and what follows from it *)

LEMMA InitInvariant == Init => IInv
<1> SUFFICES ASSUME Init PROVE IInv
  OBVIOUS
<1>1. TypeOK
  BY TypeInit
<1>2. OneTransfer
  BY DEF Init, OneTransfer, Alive, Busy, None
<1>3. Lifecycle
  BY DEF Init, Lifecycle, Started, Busy
<1>4. Finishing
  <2>1. 1..Len(messages) = {}
    BY DEF Init
  <2> QED BY <2>1 DEF Finishing
<1>5. Questions /\ AnswerFitsQuestion
  BY DEF Init, Questions, AnswerFitsQuestion
<1>6. Holding /\ OneCheckpointHolder /\ RetryStateShown
  BY Constants DEF Init, Holding, OneCheckpointHolder, RetryStateShown, Started, Busy
<1> QED BY <1>1, <1>2, <1>3, <1>4, <1>5, <1>6 DEF IInv

\* IInv is inductive: this is why the session bookkeeping of Transfers is sound.
THEOREM Invariance == Spec => []IInv
<1>1. IInv /\ [Next]_vars => IInv'
  <2> SUFFICES ASSUME IInv, [Next]_vars PROVE IInv'
    OBVIOUS
  <2>1. TypeOK /\ Life /\ Quest /\ Keep /\ OneTransfer /\ Finishing /\ Questions
    BY Zenon DEF IInv, Life, Quest, Keep
  <2>2. TypeOK'
    BY <2>1, TypeStep
  <2>3. Life'
    BY <2>1, LifeStep
  <2>4. Quest'
    BY <2>1, QuestStep
  <2>5. Keep'
    BY <2>1, KeepStep
  <2> QED BY <2>2, <2>3, <2>4, <2>5, Zenon DEF IInv, Life, Quest, Keep
<1> QED BY <1>1, InitInvariant, PTL DEF Spec

\* Every field of Transfers and of each Session keeps to its type, the messages
\* name real questions and sessions, and the retry dialogs real sessions
\* (Transfers.kt, TransferService.kt).
THEOREM SessionTypes == Spec => []TypeOK
<1>1. IInv => TypeOK
  BY DEF IInv
<1> QED BY <1>1, Invariance, PTL

\* However many transfers are started and retried, only the active session has a
\* transfer thread, and exactly one start intent is on its way while it has none
\* (Transfers.start, TransferService.onStartCommand, Session.finish).
THEOREM OneTransferAtATime == Spec => []OneTransfer
<1>1. IInv => OneTransfer
  BY DEF IInv
<1> QED BY <1>1, Invariance, PTL

\* Whatever the user answers twice, late or to a dialog shown twice, the transfer
\* acts on the first answer to the question it asked (Conflict.answer, await).
THEOREM AnswersFitQuestions == Spec => []AnswerFitsQuestion
<1>1. IInv => AnswerFitsQuestion
  BY DEF IInv
<1> QED BY <1>1, Invariance, PTL

\* A checkpoint and the partial files it lists have one holder: the running
\* session, a finished one whose result waits, or one retry dialog, never two of
\* them (Transfers.start, retrySession, continueTransfer).
THEOREM CheckpointHasOneHolder == Spec => []OneCheckpointHolder
<1>1. IInv => OneCheckpointHolder
  BY DEF IInv
<1> QED BY <1>1, Invariance, PTL

\* However many transfers there are and however often they are retried, partial
\* files are kept only while somebody may still resume or discard them, but for the
\* cancel that comes after execute last looked at the flag and for the offers that
\* go away with a recreated activity or under a later result (execute,
\* discardPartials, finishTransfer, showTransferRetry).
THEOREM PartialsAreOffered == Spec => []RetryStateShown
<1>1. IInv => RetryStateShown
  BY DEF IInv
<1> QED BY <1>1, Invariance, PTL

=============================================================================
