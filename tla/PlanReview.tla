----------------------------- MODULE PlanReview -----------------------------
(***************************************************************************)
(* The plan gate of one agent: the check for new plan files                *)
(* (monitor/checks.py), the review of a plan by the PM and by a person     *)
(* (bot/cogs/plan_review.py, bot/views/plan_review.py) and the state of    *)
(* the gate (models/monitor_state.py).                                     *)
(*                                                                         *)
(* A review <<p, v>> is the coroutine handle_new_plan for version v of the *)
(* plan file p; each await is a step boundary.  The view of a review runs  *)
(* one coroutine per pressed button, concurrently with the review.         *)
(***************************************************************************)
EXTENDS Naturals, FiniteSets

CONSTANTS
  Plans,       \* plan files of the agent
  MaxVersion   \* plan -> how often it is written

ASSUME PlanAssumption == MaxVersion \in [Plans -> Nat]

Reviews == UNION {{p} \X (1 .. MaxVersion[p]) : p \in Plans}
PlanOf(r) == r[1]

Check == INSTANCE PlanChecks

VARIABLES
  disk,       \* plan -> its mtime; 0: no such file
  seen,       \* last_plan_mtimes of the monitor
  reviewer,   \* a PlanReviewer was injected
  monitored,  \* the bot has an AgentMonitorState for the agent
  rev,        \* the reviews
  gate,       \* AgentMonitorState: plan_gate_status, pending_plans, approved_plans
  verdict     \* history: the last decision on the plan since it was posted

vars == <<disk, seen, reviewer, monitored, rev, gate, verdict>>

Buttons == {"approving", "modal", "rejecting"}

ReviewStates ==
  [at : {"none", "read", "pm", "post", "wait", "woken", "api", "notify", "check", "exec", "say",
         "refuse", "sendback", "expired", "end"},
   auto : BOOLEAN, result : {"none", "approved", "rejected"}, btn : SUBSET Buttons]

TypeOK ==
  /\ disk \in [Plans -> Nat] /\ seen \in [Plans -> Nat]
  /\ reviewer \in BOOLEAN /\ monitored \in BOOLEAN
  /\ rev \in [Reviews -> ReviewStates]
  /\ gate \in [status : {"idle", "awaiting_review", "approved", "rejected"},
               pending : SUBSET Plans, approved : SUBSET Plans]
  /\ verdict \in [Plans -> {"none", "approved", "rejected"}]

NoReview == [at |-> "none", auto |-> FALSE, result |-> "none", btn |-> {}]

Init ==
  /\ disk = [p \in Plans |-> 0] /\ seen = [p \in Plans |-> 0]
  /\ reviewer = FALSE
  /\ monitored \in BOOLEAN
  /\ rev = [r \in Reviews |-> NoReview]
  /\ gate = [status |-> "idle", pending |-> {}, approved |-> {}]
  /\ verdict = [p \in Plans |-> "none"]

Goto(r, l) == rev' = [rev EXCEPT ![r].at = l]
At(r, l) == rev[r].at = l

\* Mutant: a rejected plan stays in pending_plans.
UpdateGate_KeepsRejected(p, status) ==
  /\ gate' = IF ~monitored THEN gate
             ELSE [status |-> status,
                   pending |-> CASE status = "awaiting_review" -> gate.pending \cup {p}
                                 [] status = "approved" -> gate.pending \ {p}
                                 [] OTHER -> gate.pending,
                   approved |-> gate.approved \cup (IF status = "approved" THEN {p} ELSE {})]
  /\ verdict' = [verdict EXCEPT ![p] = IF status = "awaiting_review" THEN "none" ELSE status]

\* _update_gate_state
UpdateGate(p, status) ==
  /\ gate' = IF ~monitored THEN gate
             ELSE [status |-> status,
                   pending |-> IF status = "awaiting_review"
                               THEN gate.pending \cup {p} ELSE gate.pending \ {p},
                   approved |-> gate.approved \cup (IF status = "approved" THEN {p} ELSE {})]
  /\ verdict' = [verdict EXCEPT ![p] = IF status = "awaiting_review" THEN "none" ELSE status]

-----------------------------------------------------------------------------
(* The agent writes plans and the monitor looks for them.                  *)

WritePlan(p) ==
  /\ disk[p] < MaxVersion[p]
  /\ disk' = [disk EXCEPT ![p] = @ + 1]
  /\ UNCHANGED <<seen, reviewer, monitored, rev, gate, verdict>>

SetPlanReviewer ==
  /\ reviewer' = TRUE
  /\ UNCHANGED <<disk, seen, monitored, rev, gate, verdict>>

\* check_plan_gate; on_plan_detected starts a review of every new plan.  As
\* long as no plan is known a scan counts as the first, and only seeds.
CheckPlanGate ==
  /\ seen' = disk
  /\ rev' = IF seen = [p \in Plans |-> 0] THEN rev
            ELSE [r \in Reviews |->
                    IF disk[PlanOf(r)] = r[2] /\ seen[PlanOf(r)] < r[2]
                    THEN [NoReview EXCEPT !.at = "read"] ELSE rev[r]]
  /\ UNCHANGED <<disk, reviewer, monitored, gate, verdict>>

\* There is no directory of phases, or the scan raises: no plan is known any
\* more, and the next scan only seeds.
ScanFails ==
  /\ seen' = [p \in Plans |-> 0]
  /\ UNCHANGED <<disk, reviewer, monitored, rev, gate, verdict>>

-----------------------------------------------------------------------------
(* handle_new_plan up to the decision.                                     *)

ReadPlan(r) ==
  /\ At(r, "read")
  /\ Goto(r, IF reviewer THEN "pm" ELSE "post")
  /\ UNCHANGED <<disk, seen, reviewer, monitored, gate, verdict>>

\* No channel, or the file cannot be read.
ReadFails(r) ==
  /\ At(r, "read")
  /\ Goto(r, "end")
  /\ UNCHANGED <<disk, seen, reviewer, monitored, gate, verdict>>

\* PlanReviewer.review_plan: HIGH when every check passes, else LOW.
PmReviewed(r, failed) ==
  /\ At(r, "pm")
  /\ IF failed = {}
     THEN /\ UpdateGate(PlanOf(r), "approved")
          /\ rev' = [rev EXCEPT ![r].at = "api", ![r].auto = TRUE]
     ELSE Goto(r, "post") /\ UNCHANGED <<gate, verdict>>
  /\ UNCHANGED <<disk, seen, reviewer, monitored>>

PmRaises(r) ==
  /\ At(r, "pm")
  /\ Goto(r, "post")
  /\ UNCHANGED <<disk, seen, reviewer, monitored, gate, verdict>>

Posted(r) ==
  /\ At(r, "post")
  /\ rev' = [rev EXCEPT ![r] = [NoReview EXCEPT !.at = "wait"]]
  /\ UpdateGate(PlanOf(r), "awaiting_review")
  /\ UNCHANGED <<disk, seen, reviewer, monitored>>

PostFails(r) ==
  /\ At(r, "post")
  /\ Goto(r, "end")
  /\ UNCHANGED <<disk, seen, reviewer, monitored, gate, verdict>>

-----------------------------------------------------------------------------
(* The buttons.  The result is set before the message is edited, and the   *)
(* view stops only after that: until then other buttons still work.        *)

Press(r, b) == /\ rev[r].at \in {"wait", "woken"}
               /\ b \in rev[r].btn
               /\ UNCHANGED <<disk, seen, reviewer, monitored, gate, verdict>>

PressApprove(r) ==
  /\ At(r, "wait")
  /\ rev' = [rev EXCEPT ![r].result = "approved", ![r].btn = @ \cup {"approving"}]
  /\ UNCHANGED <<disk, seen, reviewer, monitored, gate, verdict>>

PressReject(r) ==
  /\ At(r, "wait")
  /\ rev' = [rev EXCEPT ![r].btn = @ \cup {"modal"}]
  /\ UNCHANGED <<disk, seen, reviewer, monitored, gate, verdict>>

SubmitModal(r) ==
  /\ Press(r, "modal")
  /\ rev' = [rev EXCEPT ![r].result = "rejected",
                        ![r].btn = (@ \ {"modal"}) \cup {"rejecting"}]

\* The message is edited: the view stops, and the review is woken.
Edited(r, b) ==
  /\ Press(r, b) /\ b # "modal"
  /\ rev' = [rev EXCEPT ![r].btn = @ \ {b}, ![r].at = "woken"]

\* The edit raises: the result stays, the view goes on.
EditRaises(r, b) ==
  /\ Press(r, b) /\ b # "modal"
  /\ rev' = [rev EXCEPT ![r].btn = @ \ {b}]

\* Mutant: the view has no timeout once a button was pressed.
ViewTimeout_NotAfterPress(r) ==
  /\ At(r, "wait")
  /\ rev[r].btn = {} /\ rev[r].result = "none"
  /\ rev' = [rev EXCEPT ![r] = [NoReview EXCEPT !.at = "expired"]]
  /\ UNCHANGED <<disk, seen, reviewer, monitored, gate, verdict>>

\* 3600 seconds; a modal that is submitted later is of no effect.
ViewTimeout(r) ==
  /\ At(r, "wait")
  /\ rev' = [rev EXCEPT ![r] = [NoReview EXCEPT !.at = "expired"]]
  /\ UNCHANGED <<disk, seen, reviewer, monitored, gate, verdict>>

-----------------------------------------------------------------------------
(* _handle_approval, _handle_rejection, _trigger_execution.                *)

\* view.wait() returns: the result that is set by now counts.
Resume(r) ==
  /\ At(r, "woken")
  /\ UpdateGate(PlanOf(r), rev[r].result)
  /\ rev' = [rev EXCEPT ![r] = [NoReview EXCEPT
               !.at = IF rev[r].result = "approved" THEN "api" ELSE "refuse"]]
  /\ UNCHANGED <<disk, seen, reviewer, monitored>>

\* RuntimeAPI.handle_plan_approval: the notice, and the decision to the agent.
HandlePlanApproval(r) ==
  /\ At(r, "api")
  /\ Goto(r, "notify")
  /\ UNCHANGED <<disk, seen, reviewer, monitored, gate, verdict>>

\* The workflow cog posts an event; its errors are caught.
NotifyPlanApproved(r) ==
  /\ At(r, "notify")
  /\ Goto(r, "check")
  /\ UNCHANGED <<disk, seen, reviewer, monitored, gate, verdict>>

\* Mutant: the execution does not wait for the other plans.
CheckPending_Eager(r) ==
  /\ At(r, "check")
  /\ Goto(r, IF monitored THEN "exec" ELSE "say")
  /\ UNCHANGED <<disk, seen, reviewer, monitored, gate, verdict>>

\* The execute command is sent if no plan is pending.
CheckPending(r) ==
  /\ At(r, "check")
  /\ Goto(r, IF monitored /\ gate.pending = {} THEN "exec" ELSE "say")
  /\ UNCHANGED <<disk, seen, reviewer, monitored, gate, verdict>>

\* relay_channel_message returns: the gate is reset, whatever has been posted
\* meanwhile.
Executed(r) ==
  /\ At(r, "exec")
  /\ gate' = [gate EXCEPT !.status = "idle", !.approved = {}]
  /\ Goto(r, "say")
  /\ UNCHANGED <<disk, seen, reviewer, monitored, verdict>>

Said(r) ==
  /\ At(r, "say")
  /\ Goto(r, "end")
  /\ UNCHANGED <<disk, seen, reviewer, monitored, gate, verdict>>

\* The worker's or Discord's error ends a manual review; after an automatic
\* approval it is caught, and the plan goes to manual review.
ApprovalRaises(r) ==
  /\ rev[r].at \in {"api", "exec", "say"}
  /\ Goto(r, IF rev[r].auto THEN "post" ELSE "end")
  /\ UNCHANGED <<disk, seen, reviewer, monitored, gate, verdict>>

\* RuntimeAPI.handle_plan_rejection: the notice, and the decision to the agent.
HandlePlanRejection(r) ==
  /\ At(r, "refuse")
  /\ Goto(r, "sendback")
  /\ UNCHANGED <<disk, seen, reviewer, monitored, gate, verdict>>

NotifyPlanRejected(r) ==
  /\ At(r, "sendback")
  /\ Goto(r, "say")
  /\ UNCHANGED <<disk, seen, reviewer, monitored, gate, verdict>>

RejectionRaises(r) ==
  /\ At(r, "refuse")
  /\ Goto(r, "end")
  /\ UNCHANGED <<disk, seen, reviewer, monitored, gate, verdict>>

Step(r) ==
  \/ ReadPlan(r) \/ ReadFails(r)
  \/ \E failed \in Check!ArtifactFailures : PmReviewed(r, failed)
  \/ PmRaises(r) \/ Posted(r) \/ PostFails(r) \/ ViewTimeout(r)
  \/ Resume(r) \/ HandlePlanApproval(r) \/ NotifyPlanApproved(r) \/ CheckPending(r)
  \/ Executed(r) \/ Said(r) \/ ApprovalRaises(r)
  \/ HandlePlanRejection(r) \/ NotifyPlanRejected(r) \/ RejectionRaises(r)

Next ==
  \/ \E p \in Plans : WritePlan(p)
  \/ SetPlanReviewer \/ CheckPlanGate \/ ScanFails
  \/ \E r \in Reviews :
       \/ Step(r)
       \/ PressApprove(r) \/ PressReject(r) \/ SubmitModal(r)
       \/ \E b \in Buttons : Edited(r, b) \/ EditRaises(r, b)

\* The event loop runs every coroutine, and a view that nobody uses expires.
Spec == Init /\ [][Next]_vars /\ \A r \in Reviews : WF_vars(Step(r))
-----------------------------------------------------------------------------
(* Properties.                                                             *)

\* People were asked about the plan, and their answer has not been taken up.
Asked(r) == rev[r].at \in {"wait", "woken", "expired"}

\* A plan is pending only as long as one of its reviews is open or expired:
\* no order of approvals, rejections, errors and new versions leaves a
\* pending plan that nobody was asked about.
PendingHasReview ==
  \A p \in gate.pending : \E r \in Reviews : PlanOf(r) = p /\ Asked(r)

\* The execute command is not sent while people have still to decide on a plan
\* they were asked about, or have let the time for it pass, in whatever order
\* reviews are posted, decided and fail.  This is all that is left of "All
\* plans approved -> trigger execution" (_handle_approval): a plan that was
\* rejected does not hold the command back, nor one whose review has not been
\* posted yet, nor a version on which the review of another has decided.
PostedPlansWait ==
  [][\A r \in Reviews : (rev[r].at = "check" /\ rev'[r].at = "exec") =>
       \A q \in Reviews : Asked(q) => verdict[PlanOf(q)] # "none"]_vars

\* Every review comes to an end: the view times out when nobody decides, and
\* also when a press was lost because the message could not be edited.
ReviewEnds ==
  \A r \in Reviews : (rev[r].at = "read") ~> (rev[r].at \in {"end", "expired"})
=============================================================================
