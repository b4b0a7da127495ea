------------------------- MODULE ConversationProofs -------------------------
(***************************************************************************)
(* Proofs about the conversations with an agent.  ConversationSession, for *)
(* any number of callers and of conversations that replace each other: who *)
(* holds _lock and who has a command running are the same, through every   *)
(* failure, time-out and restart, in a worker and for the workflow-master. *)
(* AgentChannel, for any number of coroutines and messages: a request for  *)
(* a review leads to one execute command at most.                          *)
(***************************************************************************)
EXTENDS ConversationSession, AgentChannel, FiniteSetTheorems, TLAPS

-----------------------------------------------------------------------------
(* ConversationSession.                                                    *)


\* A call in send() is in the send() of some conversation, and a worker has one.
InSend ==
  /\ host = "worker" => current # NoConversation
  /\ \A c \in Callers : at[c] \in {"waiting", "probing", "creating", "asking"}
       => of[c] \in Conversations

SessionInv == TypeOK /\ InSend /\ OneCommand

LEMMA SessionInitInv == Init => SessionInv
<1> SUFFICES ASSUME Init PROVE SessionInv
  OBVIOUS
<1>1. TypeOK
  BY DEF Init, TypeOK, Made
<1>2. InSend
  BY SessionAssumption DEF Init, InSend, Made
<1>3. OneCommand
  BY SessionAssumption DEF Init, OneCommand
<1>4. QED BY <1>1, <1>2, <1>3 DEF SessionInv

\* Leaving send(), with an answer or an apology, frees the lock.
LEMMA ReturnInv ==
  ASSUME SessionInv, NEW c \in Callers, NEW what \in {"answer", "apology"},
         at[c] \in {"probing", "creating", "asking"}, Return(c, what),
         initialized' \in [Conversations -> BOOLEAN], UNCHANGED <<host, current, session, late>>
  PROVE  SessionInv'
<1>1. of[c] \in Conversations /\ lock[of[c]] = c
  BY DEF SessionInv, OneCommand, InSend
<1>2. TypeOK'
  BY <1>1 DEF SessionInv, TypeOK, Return, Goto
<1>3. InSend'
  BY DEF SessionInv, TypeOK, InSend, Return, Goto
<1>4. OneCommand'
  BY <1>1, SessionAssumption DEF SessionInv, TypeOK, OneCommand, Return, Goto
<1>5. QED BY <1>2, <1>3, <1>4 DEF SessionInv

\* A command that ends inside send() is followed by another one.
LEMMA CommandInv ==
  ASSUME SessionInv, NEW c \in Callers, CommandEnds(c)
  PROVE  SessionInv'
<1>1. CASE Resumed(c)
  BY <1>1, ReturnInv DEF Resumed, SessionInv, TypeOK
<1>2. CASE NotResumed(c)
  BY <1>2 DEF NotResumed, SessionInv, TypeOK, InSend, OneCommand, Goto
<1>3. CASE Created(c)
  <2>1. TypeOK'
    BY <1>3 DEF Created, SessionInv, TypeOK, Goto
  <2>2. InSend' /\ OneCommand'
    BY <1>3 DEF Created, SessionInv, TypeOK, InSend, OneCommand, Goto
  <2>3. QED BY <2>1, <2>2 DEF SessionInv
<1>4. CASE Asked(c)
  <2>1. PICK what \in {"answer", "apology"} : Return(c, what)
    BY <1>4 DEF Asked
  <2>2. QED BY <1>4, <2>1, ReturnInv DEF Asked, SessionInv, TypeOK
<1>5. QED BY <1>1, <1>2, <1>3, <1>4 DEF CommandEnds

\* A call that enters send() has no lock yet.
LEMMA EnterInv ==
  ASSUME SessionInv, NEW c \in Callers, at[c] \in {"none", "notice"}, Enter(c),
         current # NoConversation,
         UNCHANGED <<host, current, initialized, lock, reply, session, late>>
  PROVE  SessionInv'
<1>1. TypeOK' /\ InSend'
  BY DEF SessionInv, TypeOK, InSend, Enter, Goto
<1>2. OneCommand'
  BY DEF SessionInv, TypeOK, OneCommand, Enter, Goto
<1>3. QED BY <1>1, <1>2 DEF SessionInv

\* The cog holds no lock before it relays the message.
LEMMA CogInv ==
  ASSUME SessionInv, NEW c \in Callers, CogStep(c)
  PROVE  SessionInv'
<1>1. CASE Attached(c) \/ NoticeRaises(c)
  BY <1>1 DEF Attached, NoticeRaises, SessionInv, TypeOK, InSend, OneCommand, Goto
<1>2. CASE RelayWorkflowMasterMessage(c)
  <2>1. CASE Enter(c) /\ current # NoConversation /\ UNCHANGED reply
    BY <1>2, <2>1, EnterInv DEF RelayWorkflowMasterMessage
  <2>2. CASE Goto(c, "none") /\ reply' = [reply EXCEPT ![c] = "apology"] /\ UNCHANGED of
    BY <1>2, <2>2
    DEF RelayWorkflowMasterMessage, SessionInv, TypeOK, InSend, OneCommand, Goto
  <2>3. QED BY <1>2, <2>1, <2>2 DEF RelayWorkflowMasterMessage
<1>3. QED BY <1>1, <1>2 DEF CogStep

\* A conversation that is new has no calls: its lock is free.
LEMMA ReplaceInv ==
  ASSUME SessionInv, InitializeWorkflowMaster
  PROVE  SessionInv'
<1>1. PICK s \in Conversations \ {current} :
        /\ \A c \in Callers : of[c] # s
        /\ current' = s
        /\ initialized' = [initialized EXCEPT ![s] = FALSE]
        /\ lock' = [lock EXCEPT ![s] = NoCaller]
  BY DEF InitializeWorkflowMaster
<1>2. UNCHANGED <<host, at, of, reply, session, late>>
  BY DEF InitializeWorkflowMaster
<1>3. TypeOK'
  BY <1>1, <1>2 DEF SessionInv, TypeOK
<1>4. InSend'
  BY <1>1, <1>2, SessionAssumption DEF SessionInv, InSend
<1>5. OneCommand'
  BY <1>1, <1>2, SessionAssumption DEF SessionInv, TypeOK, OneCommand
<1>6. QED BY <1>3, <1>4, <1>5 DEF SessionInv

LEMMA SessionNextInv == SessionInv /\ [Next]_vars => SessionInv'
<1> SUFFICES ASSUME SessionInv, [Next]_vars PROVE SessionInv'
  OBVIOUS
<1>1. ASSUME NEW c \in Callers, Send(c) PROVE SessionInv'
  BY <1>1, EnterInv DEF Send, SessionInv, InSend
<1>2. ASSUME NEW c \in Callers, TakeLock(c) PROVE SessionInv'
  <2>1. of[c] \in Conversations
    BY <1>2 DEF TakeLock, SessionInv, InSend
  <2>2. TypeOK' /\ InSend'
    BY <1>2, <2>1 DEF TakeLock, Hold, SessionInv, TypeOK, InSend, Goto
  <2>3. OneCommand'
    BY <1>2, <2>1, SessionAssumption DEF TakeLock, Hold, SessionInv, TypeOK, OneCommand, Goto
  <2>4. QED BY <2>2, <2>3 DEF SessionInv
<1>3. CASE LateCreate
  BY <1>3 DEF LateCreate, SessionInv, TypeOK, InSend, OneCommand
<1>4. CASE Restart
  <2>1. TypeOK' /\ InSend'
    BY <1>4, SessionAssumption DEF Restart, Made, SessionInv, TypeOK, InSend
  <2>2. OneCommand'
    BY <1>4, SessionAssumption DEF Restart, OneCommand
  <2>3. QED BY <2>1, <2>2 DEF SessionInv
<1>5. CASE UNCHANGED vars
  BY <1>5 DEF vars, SessionInv, TypeOK, InSend, OneCommand
<1>6. ASSUME NEW c \in Callers, OwnerMessage(c) \/ PostResponse(c) \/ Deliver(c)
      PROVE  SessionInv'
  BY <1>6 DEF OwnerMessage, PostResponse, Deliver, SessionInv, TypeOK, InSend, OneCommand, Goto
<1>7. QED BY <1>1, <1>2, <1>3, <1>4, <1>5, <1>6, CommandInv, CogInv, ReplaceInv
  DEF Next

LEMMA SessionAlways == Spec => []SessionInv
BY SessionInitInv, SessionNextInv, PTL DEF Spec

\* ConversationSession.send: two commands of one conversation never work on
\* the session at once, whatever fails, however many callers there are and
\* however often on_ready replaces the conversation.
THEOREM OneCommandAlways == Spec => []OneCommand
<1>1. SessionInv => OneCommand
  BY DEF SessionInv
<1>2. QED BY <1>1, SessionAlways, PTL

\* The types of the session's state, replies included: send() returns a text.
THEOREM SessionTypeAlways == Spec => []TypeOK
<1>1. SessionInv => TypeOK
  BY DEF SessionInv
<1>2. QED BY <1>1, SessionAlways, PTL

-----------------------------------------------------------------------------
(* AgentChannel.                                                           *)

Places == {"none", "announce", "look", "review", "say", "auto", "relay", "throttle", "sleep",
           "gate", "claude", "advance", "hold", "complete", "score", "reply", "log"}

JobStates == [kind : Kinds, at : Places, what : Stages \cup Questions \cup {"none"},
              level : Levels \cup {"none"}, text : Texts]

PlanJobs == {j \in Jobs : job[j].kind = "plan"}

JobTypeOK == job \in [Jobs -> JobStates] /\ due \in Nat

ChannelInv == JobTypeOK /\ ExecutedOnce

\* A job goes on, or ends.
JobMoves(j) ==
  \E r \in JobStates : job' = [job EXCEPT ![j] = r] /\ r.kind \in {job[j].kind, "none"}

LEMMA NoJobFacts == NoJob \in JobStates /\ NoJob.kind = "none"
BY DEF NoJob, JobStates, Kinds, Places, Levels, Texts

LEMMA MoveFacts ==
  ASSUME JobTypeOK, NEW j \in Jobs, NEW l \in Places, Move(j, l)
  PROVE  JobMoves(j)
<1> DEFINE r == [job[j] EXCEPT !.at = l]
<1>1. job[j] \in JobStates
  BY DEF JobTypeOK
<1>2. r \in JobStates /\ r.kind = job[j].kind
  BY <1>1 DEF JobStates
<1>3. job' = [job EXCEPT ![j] = r]
  BY DEF Move
<1>4. QED BY <1>2, <1>3 DEF JobMoves

LEMMA EndFacts ==
  ASSUME JobTypeOK, NEW j \in Jobs, End(j)
  PROVE  JobMoves(j)
BY NoJobFacts DEF End, JobMoves

\* The reviews under way, counted, after a step of one job.
LEMMA PlanCount ==
  ASSUME JobTypeOK, NEW j \in Jobs, NEW r \in JobStates, job' = [job EXCEPT ![j] = r]
  PROVE  /\ job' \in [Jobs -> JobStates]
         /\ Cardinality(PlanJobs) \in Nat
         /\ r.kind = "plan" /\ j \notin PlanJobs =>
              Cardinality(PlanJobs') = Cardinality(PlanJobs) + 1
         /\ r.kind = "plan" /\ j \in PlanJobs => Cardinality(PlanJobs') = Cardinality(PlanJobs)
         /\ r.kind # "plan" /\ j \in PlanJobs =>
              Cardinality(PlanJobs') = Cardinality(PlanJobs) - 1
         /\ r.kind # "plan" /\ j \notin PlanJobs => Cardinality(PlanJobs') = Cardinality(PlanJobs)
<1>1. job' \in [Jobs -> JobStates] /\ \A i \in Jobs : job'[i] = IF i = j THEN r ELSE job[i]
  BY DEF JobTypeOK
<1>2. PlanJobs' = IF r.kind = "plan" THEN PlanJobs \cup {j} ELSE PlanJobs \ {j}
  BY <1>1 DEF PlanJobs
<1>3. IsFiniteSet(PlanJobs)
  BY ChannelAssumption, FS_Subset DEF PlanJobs
<1>4. Cardinality(PlanJobs) \in Nat
  BY <1>3, FS_CardinalityType
<1>5. /\ j \notin PlanJobs => Cardinality(PlanJobs \cup {j}) = Cardinality(PlanJobs) + 1
      /\ j \in PlanJobs => Cardinality(PlanJobs \ {j}) = Cardinality(PlanJobs) - 1
  BY <1>3, FS_AddElement, FS_RemoveElement
<1>6. /\ j \in PlanJobs => PlanJobs \cup {j} = PlanJobs
      /\ j \notin PlanJobs => PlanJobs \ {j} = PlanJobs
  OBVIOUS
<1> HIDE DEF PlanJobs
<1>7. QED BY <1>1, <1>2, <1>4, <1>5, <1>6

\* A job that goes on or ends without a command to the agent.
LEMMA QuietStep ==
  ASSUME ChannelInv, NEW j \in Jobs, JobMoves(j), UNCHANGED due
  PROVE  ChannelInv'
<1>1. PICK r \in JobStates : job' = [job EXCEPT ![j] = r] /\ r.kind \in {job[j].kind, "none"}
  BY DEF JobMoves
<1>2. JobTypeOK /\ due \in Nat /\ due >= Cardinality(PlanJobs)
  BY DEF ChannelInv, JobTypeOK, ExecutedOnce, PlanJobs
<1>3. r.kind = "plan" => j \in PlanJobs
  BY <1>1 DEF PlanJobs
<1>4. /\ job' \in [Jobs -> JobStates] /\ Cardinality(PlanJobs) \in Nat
      /\ \/ Cardinality(PlanJobs') = Cardinality(PlanJobs)
         \/ Cardinality(PlanJobs') = Cardinality(PlanJobs) - 1
  <2>1. CASE r.kind = "plan"
    BY <1>1, <1>2, <1>3, <2>1, PlanCount
  <2>2. CASE r.kind # "plan" /\ j \in PlanJobs
    BY <1>1, <1>2, <2>2, PlanCount
  <2>3. CASE r.kind # "plan" /\ j \notin PlanJobs
    BY <1>1, <1>2, <2>3, PlanCount
  <2>4. QED BY <2>1, <2>2, <2>3
<1>5. due' >= Cardinality(PlanJobs')
  BY <1>2, <1>4
<1>6. QED BY <1>2, <1>4, <1>5 DEF ChannelInv, JobTypeOK, ExecutedOnce, PlanJobs

LEMMA ExecuteStep ==
  ASSUME ChannelInv, NEW j \in Jobs, Execute(j)
  PROVE  ChannelInv'
<1>1. job' = [job EXCEPT ![j] = NoJob] /\ j \in PlanJobs /\ due' = due - 1
  BY DEF Execute, End, At, PlanJobs
<1>2. JobTypeOK /\ due \in Nat /\ due >= Cardinality(PlanJobs)
  BY DEF ChannelInv, JobTypeOK, ExecutedOnce, PlanJobs
<1>3. /\ job' \in [Jobs -> JobStates] /\ Cardinality(PlanJobs) \in Nat
      /\ Cardinality(PlanJobs') = Cardinality(PlanJobs) - 1
  BY <1>1, <1>2, NoJobFacts, PlanCount
<1>4. IsFiniteSet(PlanJobs')
  <2>1. IsFiniteSet({i \in Jobs : job'[i].kind = "plan"})
    BY ChannelAssumption, FS_Subset
  <2>2. QED BY <2>1 DEF PlanJobs
<1>5. Cardinality(PlanJobs') \in Nat
  BY <1>4, FS_CardinalityType
<1>6. due' \in Nat /\ due' >= Cardinality(PlanJobs')
  BY <1>1, <1>2, <1>3, <1>5
<1>7. QED BY <1>3, <1>6 DEF ChannelInv, JobTypeOK, ExecutedOnce, PlanJobs

LEMMA BeginStep ==
  ASSUME ChannelInv, NEW j \in Jobs, NEW kind \in Kinds, NEW l \in Places,
         NEW what \in Stages \cup Questions \cup {"none"}, Begin(j, kind, l, what)
  PROVE  ChannelInv'
<1> DEFINE r == [NoJob EXCEPT !.kind = kind, !.at = l, !.what = what]
<1>1. job' = [job EXCEPT ![j] = r] /\ job[j] = NoJob /\ due' = due + (IF kind = "plan" THEN 1 ELSE 0)
  BY DEF Begin
<1>2. r \in JobStates /\ r.kind = kind
  BY NoJobFacts DEF JobStates
<1> HIDE DEF r
<1>3. JobTypeOK /\ due \in Nat /\ due >= Cardinality(PlanJobs)
  BY DEF ChannelInv, JobTypeOK, ExecutedOnce, PlanJobs
<1>4. j \notin PlanJobs
  BY <1>1, NoJobFacts DEF PlanJobs
<1>5. /\ job' \in [Jobs -> JobStates] /\ Cardinality(PlanJobs) \in Nat
      /\ Cardinality(PlanJobs') = Cardinality(PlanJobs) + (IF kind = "plan" THEN 1 ELSE 0)
  <2>1. CASE kind = "plan"
    <3>1. /\ job' \in [Jobs -> JobStates] /\ Cardinality(PlanJobs) \in Nat
          /\ Cardinality(PlanJobs') = Cardinality(PlanJobs) + 1
      BY <1>1, <1>2, <1>3, <1>4, <2>1, PlanCount
    <3>2. QED BY <2>1, <3>1
  <2>2. CASE kind # "plan"
    <3>1. /\ job' \in [Jobs -> JobStates] /\ Cardinality(PlanJobs) \in Nat
          /\ Cardinality(PlanJobs') = Cardinality(PlanJobs)
      BY <1>1, <1>2, <1>3, <1>4, <2>2, PlanCount
    <3>2. QED BY <2>2, <3>1
  <2>3. QED BY <2>1, <2>2
<1>6. due' \in Nat /\ due' >= Cardinality(PlanJobs')
  BY <1>1, <1>3, <1>5
<1>7. QED BY <1>5, <1>6 DEF ChannelInv, JobTypeOK, ExecutedOnce, PlanJobs

LEMMA ArriveStep ==
  ASSUME ChannelInv, NEW j \in Jobs, Arrive(j)
  PROVE  ChannelInv'
<1>1. PICK kind \in Kinds, l \in Places, what \in Stages \cup Questions \cup {"none"} :
        Begin(j, kind, l, what)
  BY DEF Arrive, PlanReady, ExecuteReady, DispatchPmReview, PostReviewRequest, Signal, Question,
         Kinds, Places
<1>2. QED BY <1>1, BeginStep

\* The steps of a job but for the command to execute a plan.
LEMMA OtherSteps ==
  ASSUME JobTypeOK, NEW j \in Jobs, Step(j), ~Execute(j)
  PROVE  JobMoves(j) /\ UNCHANGED due
<1>1. job[j] \in JobStates
  BY DEF JobTypeOK
<1>2. CASE \/ Announced(j) \/ PlanFound(j) \/ ReviewRaises(j) \/ AutoApprove(j) \/ StageFound(j)
           \/ EnterGate(j) \/ Advance(j)
  <2>1. PICK l \in Places : Move(j, l) /\ UNCHANGED due
    BY <1>2 DEF Announced, PlanFound, ReviewRaises, AutoApprove, StageFound, EnterGate, Advance,
                Places
  <2>2. QED BY <2>1, MoveFacts
<1>3. CASE \/ NoPlan(j) \/ JobRaises(j) \/ Verified(j) \/ StageLost(j) \/ Woken(j)
           \/ SignalIgnored(j) \/ PhaseComplete(j) \/ LogDecision(j)
  <2>1. End(j) /\ UNCHANGED due
    BY <1>3 DEF NoPlan, JobRaises, Verified, StageLost, Woken, PostReview, SignalIgnored,
                PhaseComplete, LogDecision
  <2>2. QED BY <2>1, EndFacts
<1>4. CASE \/ Said(j) \/ Throttled(j) \/ GateUnreviewed(j) \/ EventSent(j)
           \/ \E text \in Texts : Replied(j, text)
  <2>1. (End(j) \/ \E l \in Places : Move(j, l)) /\ UNCHANGED due
    BY <1>4 DEF Said, Throttled, PostReview, GateUnreviewed, EventSent, Replied, Places
  <2>2. QED BY <2>1, EndFacts, MoveFacts
<1>5. ASSUME NEW failed \in SUBSET Checks, Reviewed(j, failed)
      PROVE  JobMoves(j) /\ UNCHANGED due
  <2> DEFINE text == ReviewText(failed, IF job[j].kind = "plan" THEN "other" ELSE "needs-changes")
             r == [job[j] EXCEPT !.at = IF job[j].kind = "plan" THEN "say" ELSE "throttle",
                                 !.level = IF failed = {} THEN "HIGH" ELSE "LOW", !.text = text]
  <2>1. text \in Texts
    BY DEF ReviewText, Texts
  <2>2. job' = [job EXCEPT ![j] = r] /\ UNCHANGED due
    BY <1>5 DEF Reviewed
  <2> HIDE DEF text
  <2>3. r \in JobStates /\ r.kind = job[j].kind
    BY <1>1, <2>1 DEF JobStates, Places, Levels
  <2>4. QED BY <2>2, <2>3 DEF JobMoves
<1>6. CASE NoReview(j) \/ StageRaises(j)
  <2>1. PICK level \in {job[j].level, "none"} :
          /\ job' = [job EXCEPT ![j] = [job[j] EXCEPT !.at = "throttle", !.level = level,
                                                      !.text = "approved"]]
          /\ UNCHANGED due
    <3>1. CASE NoReview(j)
      BY <1>1, <3>1 DEF NoReview, JobStates
    <3>2. CASE StageRaises(j)
      BY <3>2 DEF StageRaises
    <3>3. QED BY <1>6, <3>1, <3>2
  <2> DEFINE r == [job[j] EXCEPT !.at = "throttle", !.level = level, !.text = "approved"]
  <2>2. r \in JobStates /\ r.kind = job[j].kind
    BY <1>1 DEF JobStates, Places, Levels, Texts
  <2>3. QED BY <2>1, <2>2 DEF JobMoves
<1>7. ASSUME NEW level \in Levels, GateReviewed(j, level)
      PROVE  JobMoves(j) /\ UNCHANGED due
  <2> DEFINE l == IF level = "LOW" THEN "hold" ELSE "claude"
             r == [job[j] EXCEPT !.level = level, !.at = l]
  <2>1. job' = [job EXCEPT ![j] = r] /\ UNCHANGED due
    BY <1>7 DEF GateReviewed
  <2>2. r \in JobStates /\ r.kind = job[j].kind
    BY <1>1 DEF JobStates, Places
  <2>3. QED BY <2>1, <2>2 DEF JobMoves
<1>8. CASE Scored(j)
  <2> DEFINE level == Level(ScoreLevel(cover[job[j].what], Prior(job[j].what)))
             r == [job[j] EXCEPT !.level = level,
                                 !.at = IF level = "LOW" THEN "reply" ELSE "claude"]
  <2>1. level \in Levels
    BY DEF Level, ScoreLevel, Levels
  <2>2. (End(j) \/ job' = [job EXCEPT ![j] = r]) /\ UNCHANGED due
    BY <1>8 DEF Scored
  <2> HIDE DEF level
  <2>3. r \in JobStates /\ r.kind = job[j].kind
    BY <1>1, <2>1 DEF JobStates, Places
  <2>4. QED BY <2>2, <2>3, EndFacts DEF JobMoves
<1>9. QED BY <1>2, <1>3, <1>4, <1>5, <1>6, <1>7, <1>8 DEF Step

\* The claude process ends.
LEMMA AnsweredStep ==
  ASSUME JobTypeOK, NEW j \in Jobs, Answered(j)
  PROVE  JobMoves(j) /\ UNCHANGED due
<1>1. UNCHANGED due /\ (Move(j, "reply") \/ Move(j, "hold") \/ Move(j, "advance"))
  BY DEF Answered
<1>2. {"reply", "hold", "advance"} \subseteq Places
  BY DEF Places
<1>3. QED BY <1>1, <1>2, MoveFacts

LEMMA ChannelNextInv ==
  ASSUME ChannelInv, [ChannelNext]_channelVars
  PROVE  ChannelInv'
<1>1. CASE \E j \in Jobs : Arrive(j)
  BY <1>1, ArriveStep
<1>2. CASE \E j \in Jobs : Step(j)
  BY <1>2, ExecuteStep, OtherSteps, QuietStep DEF ChannelInv
<1>3. CASE \E j \in Jobs : Answered(j)
  BY <1>3, AnsweredStep, QuietStep DEF ChannelInv
<1>4. CASE UNCHANGED <<job, due>>
  BY <1>4 DEF ChannelInv, JobTypeOK, ExecutedOnce
<1>5. QED
  <2>1. Bot \/ OwnerWrites \/ ThirtySeconds \/ Ask \/ AskStep => UNCHANGED <<job, due>>
    BY DEF Bot, Respond, SendFeedback, OwnerWrites, ThirtySeconds, Ask, AskStep
  <2>2. Reply("seen") \/ Reply("buried") \/ UNCHANGED channelVars => UNCHANGED <<job, due>>
    BY DEF Reply, channelVars
  <2>3. QED BY <1>1, <1>2, <1>3, <1>4, <2>1, <2>2 DEF ChannelNext

\* Each "@PM plan ready" leads to one execute command at most, for any number
\* of requests at a time and wherever a step of a review raises.
THEOREM AlwaysExecutedOnce == ChannelSpec => []ExecutedOnce
<1>1. ChannelInit => ChannelInv
  <2> SUFFICES ASSUME ChannelInit PROVE ChannelInv
    OBVIOUS
  <2>1. JobTypeOK
    BY NoJobFacts DEF ChannelInit, JobTypeOK
  <2>2. {j \in Jobs : job[j].kind = "plan"} = {}
    BY NoJobFacts DEF ChannelInit
  <2>3. Cardinality({j \in Jobs : job[j].kind = "plan"}) = 0
    BY <2>2, FS_EmptySet
  <2>4. due >= Cardinality({j \in Jobs : job[j].kind = "plan"})
    BY <2>3 DEF ChannelInit
  <2>5. QED BY <2>1, <2>4 DEF ChannelInv, ExecutedOnce
<1>2. ChannelInv /\ [ChannelNext]_channelVars => ChannelInv'
  BY ChannelNextInv
<1>3. ChannelInv => ExecutedOnce
  BY DEF ChannelInv
<1>4. QED BY <1>1, <1>2, <1>3, PTL DEF ChannelSpec
=============================================================================
