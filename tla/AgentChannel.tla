---------------------------- MODULE AgentChannel ----------------------------
(***************************************************************************)
(* What the bot does in the channel agent-<id> of one agent: the PM's      *)
(* reviews on "@PM ..." and of a stage (bot/cogs/plan_review.py), the      *)
(* reading of its own "[PM] ..." messages as review responses, the stage   *)
(* gates (bot/cogs/workflow_orchestrator_cog.py), questions                *)
(* (bot/cogs/question_handler.py, strategist/pm.py,                        *)
(* strategist/confidence.py), the relay of the owner's messages            *)
(* (bot/cogs/task_relay.py) and the hook that posts an agent's question    *)
(* there and polls for the reply (cli/ask_cmd.py, daemon/daemon.py).       *)
(*                                                                         *)
(* Each message starts a coroutine, a job; jobs interleave at their        *)
(* awaits.  A text stands for what _handle_review_response looks for in    *)
(* it.  The parts that are injected at start-up may be there or not.       *)
(***************************************************************************)
EXTENDS Naturals, Sequences, FiniteSets, PlanChecks

CONSTANTS
  Jobs,       \* coroutines in progress at a time
  Questions,
  Grain,      \* coverage and similarity are multiples of 1/Grain
  MaxWrites,  \* messages that agents and people write
  MaxPolls    \* polls for the reply to a question

ASSUME ChannelAssumption ==
  IsFiniteSet(Jobs) /\ Grain \in Nat \ {0} /\ MaxWrites \in Nat /\ MaxPolls \in Nat

Levels == {"HIGH", "MEDIUM", "LOW"}
Texts == {"approved", "needs-changes", "other"}

VARIABLES
  wired,    \* which of reviewer, pm, logger, context, project there are
  cover,    \* question -> share of its keywords in the context documents
  ask,      \* the hook's question: the hook, the daemon's handler, the reply
  log,      \* questions in decisions.jsonl
  job,      \* the coroutines
  chat,     \* the bot's "[PM]" messages that it has not seen yet
  feedback, \* reviews whose feedback is still to be relayed
  told,     \* the last order to the agent, and the review it comes from
  recent,   \* a review was posted in the last 30 seconds
  due,      \* history: plan reviews asked for, less execute commands sent
  writes    \* messages written

world == <<wired, cover, ask>>
channelVars == <<world, log, job, chat, feedback, told, recent, due, writes>>

Parts == {"reviewer", "pm", "logger", "context", "project"}
Kinds == {"none", "plan", "verify", "stage", "request", "signal", "question"}
Stages == {"discuss", "plan", "execute", "research"}

\* A message: what its text is taken for, and the level of the review that
\* it reports.
Messages == [text : Texts, level : Levels \cup {"none"}]

NoJob == [kind |-> "none", at |-> "none", what |-> "none", level |-> "none",
          text |-> "other"]

ChannelInit ==
  /\ wired \in SUBSET Parts
  /\ cover \in [Questions -> 0 .. Grain]
  /\ ask = [hook |-> "idle", daemon |-> "none", polls |-> 0, reply |-> "none"]
  /\ log = {}
  /\ job = [j \in Jobs |-> NoJob]
  /\ chat = <<>>
  /\ feedback = 0
  /\ told = [what |-> "none", level |-> "none"]
  /\ recent = FALSE
  /\ due = 0
  /\ writes = 0

Has(part) == part \in wired
At(j, kind, l) == job[j].kind = kind /\ job[j].at = l
Move(j, l) == job' = [job EXCEPT ![j].at = l]
End(j) == job' = [job EXCEPT ![j] = NoJob]
Post(text, level) == chat' = Append(chat, [text |-> text, level |-> level])
Tell(what, level) == told' = [what |-> what, level |-> level]

\* A message arrives that starts a job.
Begin(j, kind, l, what) ==
  /\ job[j] = NoJob
  /\ writes < MaxWrites
  /\ writes' = writes + 1
  /\ job' = [job EXCEPT ![j] = [NoJob EXCEPT !.kind = kind, !.at = l, !.what = what]]
  /\ due' = due + (IF kind = "plan" THEN 1 ELSE 0)
  /\ UNCHANGED <<world, log, chat, feedback, told, recent>>

-----------------------------------------------------------------------------
(* "@PM plan ready": _review_agent_plans.                                  *)

PlanReady(j) == Begin(j, "plan", "announce", "none")

\* "[PM] Reviewing ...", read back as a review response like the others.
Announced(j) ==
  /\ job[j].at = "announce"
  /\ Post("other", "none")
  /\ Move(j, "look")
  /\ UNCHANGED <<world, log, feedback, told, recent, due, writes>>

\* No project, or no plan file: the agent is told so.
NoPlan(j) ==
  /\ At(j, "plan", "look")
  /\ Post("other", "none")
  /\ End(j)
  /\ UNCHANGED <<world, log, feedback, told, recent, due, writes>>

PlanFound(j) ==
  /\ At(j, "plan", "look")
  /\ Has("project")
  /\ Move(j, IF Has("reviewer") THEN "review" ELSE "auto")
  /\ UNCHANGED <<world, log, chat, feedback, told, recent, due, writes>>

\* The text of a LOW review quotes the checks that failed; the one of the
\* duplicate check has "approved plan from" in it.
ReviewText(failed, text) ==
  IF failed = {} \/ "duplicate" \in failed THEN "approved" ELSE text

\* PlanReviewer.review_plan, and the note in pm-context.md.
Reviewed(j, failed) ==
  /\ job[j].kind \in {"plan", "stage"} /\ job[j].at = "review"
  /\ failed \in IF job[j].kind = "plan" THEN PromptFailures ELSE ArtifactFailures
  /\ job' = [job EXCEPT ![j].at = IF job[j].kind = "plan" THEN "say" ELSE "throttle",
                        ![j].level = IF failed = {} THEN "HIGH" ELSE "LOW",
                        ![j].text = ReviewText(failed, IF job[j].kind = "plan"
                                                       THEN "other" ELSE "needs-changes")]
  /\ UNCHANGED <<world, log, chat, feedback, told, recent, due, writes>>

\* The verdict is posted; a plan that is approved is executed next.
Said(j) ==
  /\ At(j, "plan", "say")
  /\ Post(job[j].text, job[j].level)
  /\ IF job[j].level = "HIGH" THEN Move(j, "relay") ELSE End(j)
  /\ UNCHANGED <<world, log, feedback, told, recent, due, writes>>

\* Whatever raises between the review and its announcement is caught, and the
\* plan is approved all the same.
ReviewRaises(j) ==
  /\ job[j].at \in {"review", "say"}
  /\ job[j].kind = "plan"
  /\ Move(j, "auto")
  /\ UNCHANGED <<world, log, chat, feedback, told, recent, due, writes>>

\* "[PM] Auto-approving ...": neither "approve" nor "approved" is in it.
AutoApprove(j) ==
  /\ At(j, "plan", "auto")
  /\ Post("other", "none")
  /\ Move(j, "relay")
  /\ UNCHANGED <<world, log, feedback, told, recent, due, writes>>

\* Mutant: the relay may raise after the command went out.
Execute_Retries(j) ==
  /\ At(j, "plan", "relay")
  /\ Tell("execute", job[j].level)
  /\ due' = due - 1
  /\ Move(j, "auto")
  /\ UNCHANGED <<world, log, chat, feedback, recent, writes>>

\* relay_channel_message with the execute command; its errors are caught.
Execute(j) ==
  /\ At(j, "plan", "relay")
  /\ Tell("execute", job[j].level)
  /\ due' = due - 1
  /\ End(j)
  /\ UNCHANGED <<world, log, chat, feedback, recent, writes>>

\* An error outside the try blocks ends the job; the bot logs it.
JobRaises(j) ==
  /\ \/ job[j].at \in {"announce", "look", "reply", "log"}
     \/ At(j, "plan", "auto")
     \/ At(j, "plan", "relay") /\ job[j].level # "HIGH"
     \/ job[j].kind = "request" /\ job[j].at \in {"throttle", "sleep"}
  /\ End(j)
  /\ UNCHANGED <<world, log, chat, feedback, told, recent, due, writes>>

\* "@PM execute complete": _verify_agent_execution posts what git log says.
ExecuteReady(j) == Begin(j, "verify", "announce", "none")

Verified(j) ==
  /\ At(j, "verify", "look")
  /\ Post("other", "none")
  /\ End(j)
  /\ UNCHANGED <<world, log, feedback, told, recent, due, writes>>

-----------------------------------------------------------------------------
(* dispatch_pm_review, post_review_request and _post_throttled.            *)

DispatchPmReview(j) == Begin(j, "stage", "look", "none")

PostReviewRequest(j) == Begin(j, "request", "throttle", "none")

\* Without a project, a reviewer or an artifact the stage is approved.
NoReview(j) ==
  /\ At(j, "stage", "look")
  /\ job' = [job EXCEPT ![j].at = "throttle", ![j].text = "approved"]
  /\ UNCHANGED <<world, log, chat, feedback, told, recent, due, writes>>

StageFound(j) ==
  /\ At(j, "stage", "look")
  /\ Has("project") /\ Has("reviewer")
  /\ Move(j, "review")
  /\ UNCHANGED <<world, log, chat, feedback, told, recent, due, writes>>

\* The review, or the posting of it, raises: "[PM] APPROVED".
StageRaises(j) ==
  /\ job[j].kind = "stage"
  /\ job[j].at = "review" \/ (job[j].at \in {"throttle", "sleep"} /\ job[j].level # "none")
  /\ job' = [job EXCEPT ![j].at = "throttle", ![j].level = "none", ![j].text = "approved"]
  /\ UNCHANGED <<world, log, chat, feedback, told, recent, due, writes>>

\* The auto-approval cannot be posted.
StageLost(j) ==
  /\ job[j].kind = "stage"
  /\ job[j].at \in {"throttle", "sleep"} /\ job[j].level = "none"
  /\ End(j)
  /\ UNCHANGED <<world, log, chat, feedback, told, recent, due, writes>>

\* A request is not a "[PM]" message, and as the bot wrote it itself its "@PM"
\* starts no review.
PostReview(j) ==
  /\ IF job[j].kind = "stage" THEN Post(job[j].text, job[j].level) ELSE UNCHANGED chat
  /\ recent' = TRUE
  /\ End(j)

Throttled(j) ==
  /\ job[j].at = "throttle"
  /\ IF recent THEN Move(j, "sleep") /\ UNCHANGED <<chat, recent>> ELSE PostReview(j)
  /\ UNCHANGED <<world, log, feedback, told, due, writes>>

\* asyncio.sleep ends; the time of the last post is not looked at again.
Woken(j) ==
  /\ job[j].at = "sleep"
  /\ ~recent
  /\ PostReview(j)
  /\ UNCHANGED <<world, log, feedback, told, due, writes>>

ThirtySeconds ==
  /\ recent
  /\ recent' = FALSE
  /\ UNCHANGED <<world, log, job, chat, feedback, told, due, writes>>

-----------------------------------------------------------------------------
(* The bot sees its own "[PM]" messages: _handle_review_response.          *)

\* What the agent's gate is resolved with.
Decision(text) == CASE text = "approved" -> "approve"
                    [] text = "needs-changes" -> "modify"
                    [] OTHER -> "clarify"

\* Mutant: every response is acknowledged with a "[PM]" message.
Respond_Acknowledges(found) ==
  /\ chat # <<>>
  /\ chat' = Append(Tail(chat), [text |-> "other", level |-> "none"])
  /\ IF found THEN Tell(Decision(Head(chat).text), Head(chat).level) ELSE UNCHANGED told
  /\ UNCHANGED <<world, log, job, feedback, recent, due, writes>>

\* resolve_review; after a "modify" the feedback is relayed as well.  The
\* agent may be gone.
Respond(found) ==
  LET d == Decision(Head(chat).text) IN
  /\ chat # <<>>
  /\ chat' = Tail(chat)
  /\ IF found THEN Tell(d, Head(chat).level) ELSE UNCHANGED told
  /\ feedback' = feedback + (IF found /\ d = "modify" THEN 1 ELSE 0)
  /\ UNCHANGED <<world, log, job, recent, due, writes>>

SendFeedback ==
  /\ feedback > 0
  /\ feedback' = feedback - 1
  /\ Tell("relay", "none")
  /\ UNCHANGED <<world, log, job, chat, recent, due, writes>>

\* ChannelRelayCog: the owner's messages without "@PM" go to the agent.
OwnerWrites ==
  /\ writes < MaxWrites
  /\ writes' = writes + 1
  /\ Tell("relay", "none")
  /\ UNCHANGED <<world, log, job, chat, feedback, recent, due>>

-----------------------------------------------------------------------------
(* "<time> <agent>: <stage>-phase complete": the workflow gates.           *)

Signal(j, s) == Begin(j, "signal", "look", s)

\* No such agent, a stage without a gate, or no project directory.
SignalIgnored(j) ==
  /\ At(j, "signal", "look")
  /\ End(j)
  /\ UNCHANGED <<world, log, chat, feedback, told, recent, due, writes>>

EnterGate(j) ==
  /\ At(j, "signal", "look")
  /\ job[j].what # "research" /\ Has("project")
  /\ Move(j, "gate")
  /\ UNCHANGED <<world, log, chat, feedback, told, recent, due, writes>>

\* There is no artifact, or VERIFICATION.md has PASS and no FAIL.
Advance(j) ==
  /\ At(j, "signal", "gate")
  /\ Move(j, "advance")
  /\ UNCHANGED <<world, log, chat, feedback, told, recent, due, writes>>

\* PMTier.evaluate_question: above LOW it asks Claude.
GateReviewed(j, level) ==
  /\ At(j, "signal", "gate")
  /\ Has("pm")
  /\ job' = [job EXCEPT ![j].level = level,
                        ![j].at = IF level = "LOW" THEN "hold" ELSE "claude"]
  /\ UNCHANGED <<world, log, chat, feedback, told, recent, due, writes>>

\* No PM, or it raises: the verify gate says nothing, the others advance.
GateUnreviewed(j) ==
  /\ At(j, "signal", "gate")
  /\ IF job[j].what = "execute" THEN End(j) ELSE Move(j, "advance")
  /\ UNCHANGED <<world, log, chat, feedback, told, recent, due, writes>>

\* _send_system_event catches its errors: posted or not, the gate is left.
\* Past the verify gate the phase is complete.
EventSent(j) ==
  /\ job[j].kind = "signal" /\ job[j].at \in {"advance", "hold"}
  /\ IF job[j].at = "advance" /\ job[j].what = "execute" THEN Move(j, "complete") ELSE End(j)
  /\ UNCHANGED <<world, log, chat, feedback, told, recent, due, writes>>

\* _handle_phase_complete: its event, and then an AttributeError, as
\* RuntimeAPI has no route_completion_to_pm.
PhaseComplete(j) ==
  /\ At(j, "signal", "complete")
  /\ End(j)
  /\ UNCHANGED <<world, log, chat, feedback, told, recent, due, writes>>

-----------------------------------------------------------------------------
(* Questions.                                                              *)

\* _answer_directly: the claude process ends, or its failure is caught and a
\* stock answer is used.  communicate() is awaited without a time-out.  At the
\* verify gate HIGH and MEDIUM mean that the agent is to execute again.
Answered(j) ==
  /\ job[j].at = "claude"
  /\ Move(j, CASE job[j].kind = "question" -> "reply"
                [] job[j].what = "execute" -> "hold"
                [] OTHER -> "advance")
  /\ UNCHANGED <<world, log, chat, feedback, told, recent, due, writes>>

Question(j, q) == Begin(j, "question", "score", q)

\* ConfidenceScorer.score: 60% coverage, 40% similarity to a prior decision.
ScoreLevel(coverage, prior) ==
  LET score == 6 * coverage + 4 * prior IN
  IF score > 9 * Grain THEN "HIGH" ELSE IF score >= 6 * Grain THEN "MEDIUM" ELSE "LOW"

\* _load_decision_log: the similarity to the decision that is most like it.
Prior(q) == IF q \in log THEN Grain ELSE 0

\* _load_context_docs: with any of them a LOW question is answered as MEDIUM.
Level(raw) == IF raw = "LOW" /\ Has("context") THEN "MEDIUM" ELSE raw

Scored(j) ==
  LET q == job[j].what
      level == Level(ScoreLevel(cover[q], Prior(q)))
  IN
  /\ At(j, "question", "score")
  /\ IF Has("pm")
     THEN job' = [job EXCEPT ![j].level = level,
                             ![j].at = IF level = "LOW" THEN "reply" ELSE "claude"]
     ELSE End(j)
  /\ UNCHANGED <<world, log, chat, feedback, told, recent, due, writes>>

\* The answer of Claude may contain anything.  LOW is announced as an
\* escalation; RuntimeAPI has no handle_pm_escalation, so that it ends there.
Replied(j, text) ==
  /\ At(j, "question", "reply")
  /\ Post(IF job[j].level = "LOW" THEN "other" ELSE text, "none")
  /\ IF job[j].level = "MEDIUM" THEN Move(j, "log") ELSE End(j)
  /\ UNCHANGED <<world, log, feedback, told, recent, due, writes>>

\* DecisionLogger.log_decision: the file, and then a post that never raises.
AppendToFile(q) == log' = log \cup {q}

\* RuntimeAPI.log_decision
LogDecision(j) ==
  /\ At(j, "question", "log")
  /\ IF Has("logger") THEN AppendToFile(job[j].what) ELSE UNCHANGED log
  /\ End(j)
  /\ UNCHANGED <<world, chat, feedback, told, recent, due, writes>>

-----------------------------------------------------------------------------
(* "vco ask": the hook of AskUserQuestion, and the daemon's _handle_ask.   *)

\* The hook calls the daemon and waits for one line.
Ask ==
  /\ ask.hook # "waiting" /\ ask.daemon = "none"
  /\ writes < MaxWrites
  /\ writes' = writes + 1
  /\ ask' = [hook |-> "waiting", daemon |-> "post", polls |-> 0, reply |-> "none"]
  /\ UNCHANGED <<wired, cover, log, job, chat, feedback, told, recent, due>>

\* The handler is done; a hook that still waits gets its answer.
Answer(outcome) ==
  ask' = [ask EXCEPT !.daemon = "none",
                     !.hook = IF ask.hook = "waiting" THEN outcome ELSE ask.hook]

\* There is no channel for the agent, or the embed cannot be posted.
AskRefused == ask.daemon = "post" /\ Answer("error")

\* The embed has no footer "Request: ...": QuestionHandlerCog does not take it
\* for a question, and only a person's reply can answer it.
Posted == ask.daemon = "post" /\ ask' = [ask EXCEPT !.daemon = "poll"]

\* A reply to the embed is among the 20 messages that follow it.
PollFinds ==
  /\ ask.daemon = "poll" /\ ask.polls < MaxPolls
  /\ ask.reply = "seen"
  /\ Answer("answered")

\* Mutant: a poll that raises is not counted.
PollMisses_Free ==
  /\ ask.daemon = "poll" /\ ask.polls < MaxPolls
  /\ UNCHANGED ask

\* No reply among them, or Discord fails.
PollMisses ==
  /\ ask.daemon = "poll" /\ ask.polls < MaxPolls
  /\ ask' = [ask EXCEPT !.polls = @ + 1]

\* The first option is chosen.
PollEnds ==
  /\ ask.daemon = "poll" /\ ask.polls = MaxPolls
  /\ Answer("timeout")

\* The daemon's process ends.
DaemonGone == ask.daemon # "none" /\ Answer("error")

\* 660 seconds: the polls may take longer, as each one is a request.
HookTimeout == ask.hook = "waiting" /\ ask' = [ask EXCEPT !.hook = "error"]

Handler == AskRefused \/ Posted \/ PollFinds \/ PollMisses \/ PollEnds

AskStep ==
  /\ Handler \/ DaemonGone \/ HookTimeout
  /\ UNCHANGED <<wired, cover, log, job, chat, feedback, told, recent, due, writes>>

\* Somebody replies to the embed, perhaps after 20 other messages.
Reply(found) ==
  /\ ask.daemon = "poll" /\ ask.reply = "none"
  /\ writes < MaxWrites
  /\ writes' = writes + 1
  /\ ask' = [ask EXCEPT !.reply = found]
  /\ UNCHANGED <<wired, cover, log, job, chat, feedback, told, recent, due>>

Step(j) ==
  \/ Announced(j) \/ NoPlan(j) \/ PlanFound(j)
  \/ \E failed \in SUBSET Checks : Reviewed(j, failed)
  \/ Said(j) \/ ReviewRaises(j) \/ AutoApprove(j) \/ Execute(j) \/ JobRaises(j)
  \/ Verified(j)
  \/ NoReview(j) \/ StageFound(j) \/ StageRaises(j) \/ StageLost(j)
  \/ Throttled(j) \/ Woken(j)
  \/ SignalIgnored(j) \/ EnterGate(j) \/ Advance(j) \/ GateUnreviewed(j) \/ EventSent(j)
  \/ PhaseComplete(j)
  \/ \E level \in Levels : GateReviewed(j, level)
  \/ Scored(j) \/ \E text \in Texts : Replied(j, text)
  \/ LogDecision(j)

Arrive(j) ==
  \/ PlanReady(j) \/ ExecuteReady(j) \/ DispatchPmReview(j) \/ PostReviewRequest(j)
  \/ \E s \in Stages : Signal(j, s)
  \/ \E q \in Questions : Question(j, q)

Bot == (\E found \in BOOLEAN : Respond(found)) \/ SendFeedback

ChannelNext ==
  \/ \E j \in Jobs : Arrive(j) \/ Step(j) \/ Answered(j)
  \/ Bot \/ OwnerWrites \/ ThirtySeconds
  \/ Ask \/ AskStep \/ Reply("seen") \/ Reply("buried")

\* The event loop runs what is ready, and time passes.  A claude process that
\* the PM waits for may never end.
ChannelSpec ==
  /\ ChannelInit /\ [][ChannelNext]_channelVars
  /\ \A j \in Jobs : WF_channelVars(Step(j))
  /\ WF_channelVars(Bot) /\ WF_channelVars(ThirtySeconds) /\ WF_channelVars(Handler /\ AskStep)
-----------------------------------------------------------------------------
(* Properties.                                                             *)

\* Each "@PM plan ready" leads to one execute command at most, although the
\* handler starts over with an automatic approval when a step of the review
\* raises: nothing that comes after the command is taken for such a step.
ExecutedOnce == due >= Cardinality({j \in Jobs : job[j].kind = "plan"})

\* The channel comes to rest once nobody writes: the bot reads its own
\* messages, but no answer leads to another one for ever, and nothing but a
\* claude process that does not end can keep a coroutine.  Neither that nor the
\* throttle holds up the others.
ChannelSettles ==
  /\ <>[](\A j \in Jobs : job[j] = NoJob \/ job[j].at = "claude")
  /\ <>[](chat = <<>> /\ feedback = 0)

\* An agent that asks is not left waiting, and its question does not keep a
\* handler of the daemon busy, whether or not anybody replies and whether or
\* not the hook gives up first.
AskEnds == <>[](ask.hook # "waiting" /\ ask.daemon = "none")
=============================================================================
