--------------------------- MODULE DeliveryProofs ---------------------------
(***************************************************************************)
(* Proofs about the two gates that the work of agents passes: PlanReview,  *)
(* for any number of plan files and versions, and Integration, for any     *)
(* agents, tests, conflicts and number of runs.                            *)
(***************************************************************************)
EXTENDS PlanReview, Integration, TLAPS

-----------------------------------------------------------------------------
(* PlanReview.  PendingHasReview and PostedPlansWait are not inductive: the *)
(* first needs that a scan never starts a review over (Detected), the      *)
(* second that a plan whose review is undecided is pending (OpenPending).  *)

NothingSeen == [p \in Plans |-> 0]

\* A version that is under review was written, and has been seen by the
\* monitor, which never sees more than was written, or lost track of all.
Detected ==
  /\ \A p \in Plans : seen[p] <= disk[p]
  /\ \A r \in Reviews : rev[r].at # "none" => r[2] <= disk[PlanOf(r)]
  /\ seen = NothingSeen \/ \A r \in Reviews : rev[r].at # "none" => r[2] <= seen[PlanOf(r)]

\* A view that has stopped has a result, and so has one whose message is
\* being edited.
Pressed ==
  \A r \in Reviews :
    (rev[r].at = "woken" \/ "approving" \in rev[r].btn \/ "rejecting" \in rev[r].btn)
      => rev[r].result # "none"

\* A gate that the bot has no state for stays empty.
Unmonitored == ~monitored => gate.pending = {}

\* A plan that people were asked about is pending, unless another review has
\* decided on it.
OpenPending ==
  monitored => \A r \in Reviews :
    (Asked(r) /\ verdict[PlanOf(r)] = "none") => PlanOf(r) \in gate.pending

GateInv ==
  TypeOK /\ Detected /\ Pressed /\ Unmonitored /\ PendingHasReview /\ OpenPending

LEMMA ReviewParts ==
  ASSUME NEW r \in Reviews
  PROVE  PlanOf(r) \in Plans /\ r[2] \in Nat /\ r[2] > 0
BY PlanAssumption DEF Reviews, PlanOf

LEMMA NoReviewFacts ==
  /\ NoReview \in [at : {"none"}, auto : {FALSE}, result : {"none"}, btn : {{}}]
  /\ NoReview.at = "none" /\ NoReview.result = "none" /\ NoReview.btn = {}
BY DEF NoReview

LEMMA GateInitInv == Init => GateInv
<1>1. SUFFICES ASSUME Init PROVE GateInv OBVIOUS
<1>2. TypeOK
  <2>1. NoReview \in ReviewStates BY DEF NoReview, ReviewStates
  <2>2. QED BY <1>1, <2>1 DEF Init, TypeOK
<1>3. Detected /\ Pressed
  BY <1>1, NoReviewFacts DEF Init, Detected, Pressed
<1>4. Unmonitored /\ PendingHasReview
  BY <1>1 DEF Init, Unmonitored, PendingHasReview
<1>5. OpenPending
  BY <1>1, NoReviewFacts DEF Init, OpenPending, Asked
<1>6. QED BY <1>2, <1>3, <1>4, <1>5 DEF GateInv

-----------------------------------------------------------------------------
\* A step of one review that leaves the gate alone: it may not decide, begin
\* or reopen it.
LEMMA QuietStep ==
  ASSUME GateInv, NEW r \in Reviews,
         rev' \in [Reviews -> ReviewStates],
         \A q \in Reviews : q # r => rev'[q] = rev[q],
         rev[r].at # "none", rev'[r].at # "none",
         rev[r].at \in {"wait", "woken", "expired"} <=> rev'[r].at \in {"wait", "woken", "expired"},
         (rev'[r].at = "woken" \/ "approving" \in rev'[r].btn \/ "rejecting" \in rev'[r].btn)
           => rev'[r].result # "none",
         UNCHANGED <<disk, seen, reviewer, monitored, gate, verdict>>
  PROVE  GateInv'
<1>1. TypeOK' BY DEF GateInv, TypeOK
<1>2. Detected' /\ Pressed'
  BY DEF GateInv, Detected, Pressed, PlanOf
<1>3. Unmonitored' BY DEF GateInv, Unmonitored
<1>4. \A q \in Reviews : Asked(q) <=> Asked(q)'
  BY DEF Asked
<1>5. PendingHasReview' /\ OpenPending'
  BY <1>4 DEF GateInv, PendingHasReview, OpenPending, PlanOf
<1>6. QED BY <1>1, <1>2, <1>3, <1>5 DEF GateInv

\* A step of one review that decides on its plan.
LEMMA DecidingStep ==
  ASSUME GateInv, NEW r \in Reviews, NEW decision \in {"approved", "rejected"},
         rev[r].at # "none", rev'[r].at \in {"api", "refuse"},
         rev'[r] \in [at : {"api", "refuse"}, auto : BOOLEAN,
                      result : {"none", "approved", "rejected"}, btn : SUBSET Buttons],
         rev' = [rev EXCEPT ![r] = rev'[r]],
         ("approving" \in rev'[r].btn \/ "rejecting" \in rev'[r].btn)
           => rev'[r].result # "none",
         UpdateGate(PlanOf(r), decision),
         UNCHANGED <<disk, seen, reviewer, monitored>>
  PROVE  GateInv'
<1>0. PlanOf(r) \in Plans BY ReviewParts
<1>1. TypeOK'
  <2>1. rev'[r] \in ReviewStates BY DEF ReviewStates
  <2>2. rev' \in [Reviews -> ReviewStates] BY <2>1 DEF GateInv, TypeOK
  <2>3. QED BY <1>0, <2>2 DEF GateInv, TypeOK, UpdateGate
<1>2. Detected' /\ Pressed'
  BY DEF GateInv, TypeOK, Detected, Pressed, PlanOf
<1>3. Unmonitored' BY DEF GateInv, Unmonitored, UpdateGate
<1>4. /\ \A q \in Reviews : q # r => rev'[q] = rev[q]
      /\ ~Asked(r)'
  BY DEF GateInv, TypeOK, Asked
<1>5. PendingHasReview'
  <2>1. \A p \in gate'.pending : p \in gate.pending /\ p # PlanOf(r)
    BY DEF UpdateGate, GateInv, Unmonitored
  <2>2. QED BY <1>4, <2>1 DEF GateInv, PendingHasReview, Asked, PlanOf
<1>6. OpenPending'
  <2>1. SUFFICES ASSUME monitored, NEW q \in Reviews, Asked(q)', verdict'[PlanOf(q)] = "none"
                 PROVE  PlanOf(q) \in gate'.pending
    BY DEF OpenPending, PlanOf
  <2>2. q # r /\ Asked(q)
    BY <1>4, <2>1 DEF Asked
  <2>3. PlanOf(q) # PlanOf(r) /\ verdict[PlanOf(q)] = "none"
    <3>1. PlanOf(q) \in Plans BY ReviewParts
    <3>2. verdict' = [verdict EXCEPT ![PlanOf(r)] = decision]
      BY DEF UpdateGate
    <3>3. QED BY <1>0, <2>1, <3>1, <3>2 DEF GateInv, TypeOK
  <2>4. QED BY <2>1, <2>2, <2>3 DEF GateInv, OpenPending, UpdateGate
<1>7. QED BY <1>1, <1>2, <1>3, <1>5, <1>6 DEF GateInv

\* What Goto leaves of the review.
LEMMA GotoReview ==
  ASSUME TypeOK, NEW r \in Reviews, NEW l, Goto(r, l)
  PROVE  /\ rev'[r] = [rev[r] EXCEPT !.at = l]
         /\ rev'[r].at = l /\ rev'[r].auto = rev[r].auto
         /\ rev'[r].result = rev[r].result /\ rev'[r].btn = rev[r].btn
         /\ \A q \in Reviews : q # r => rev'[q] = rev[q]
BY DEF TypeOK, Goto

LEMMA GotoStep ==
  ASSUME GateInv, NEW r \in Reviews,
         NEW l \in {"pm", "post", "notify", "check", "exec", "say", "sendback", "end"},
         rev[r].at \notin {"none", "wait", "woken", "expired"}, Goto(r, l),
         UNCHANGED <<disk, seen, reviewer, monitored, gate, verdict>>
  PROVE  GateInv'
<1>0. TypeOK BY DEF GateInv
<1>1. /\ rev'[r].at = l /\ rev'[r].result = rev[r].result /\ rev'[r].btn = rev[r].btn
      /\ \A q \in Reviews : q # r => rev'[q] = rev[q]
  BY <1>0, GotoReview
<1>2. rev' \in [Reviews -> ReviewStates]
  <2>1. [rev[r] EXCEPT !.at = l] \in ReviewStates
    BY <1>0 DEF TypeOK, ReviewStates
  <2>2. QED BY <1>0, <2>1 DEF TypeOK, Goto
<1>3. (rev'[r].at = "woken" \/ "approving" \in rev'[r].btn \/ "rejecting" \in rev'[r].btn)
        => rev'[r].result # "none"
  BY <1>1 DEF GateInv, Pressed
<1>4. rev'[r].at # "none" /\ rev'[r].at \notin {"wait", "woken", "expired"}
  BY <1>1
<1>5. QED BY <1>1, <1>2, <1>3, <1>4, QuietStep

-----------------------------------------------------------------------------
LEMMA CheckPlanGateInv == GateInv /\ CheckPlanGate => GateInv'
<1>1. SUFFICES ASSUME GateInv, CheckPlanGate PROVE GateInv' OBVIOUS
<1>2. TypeOK /\ TypeOK'
  <2>1. [NoReview EXCEPT !.at = "read"] \in ReviewStates BY DEF NoReview, ReviewStates
  <2>2. QED BY <1>1, <2>1 DEF CheckPlanGate, GateInv, TypeOK
<1>3. ASSUME NEW r \in Reviews
      PROVE  \/ rev'[r] = rev[r]
             \/ rev[r].at = "none" /\ rev'[r] = [NoReview EXCEPT !.at = "read"]
                /\ r[2] <= disk[PlanOf(r)]
  <2>1. seen # NothingSeen /\ rev[r].at # "none" => ~(seen[PlanOf(r)] < r[2])
    BY <1>1, <1>2, ReviewParts DEF GateInv, Detected, TypeOK
  <2>2. QED BY <1>1, <2>1, ReviewParts DEF CheckPlanGate, NothingSeen
<1>4. [NoReview EXCEPT !.at = "read"] \in
        [at : {"read"}, auto : {FALSE}, result : {"none"}, btn : {{}}]
  BY DEF NoReview
<1>5. \A r \in Reviews : Asked(r) <=> Asked(r)'
  BY <1>3, <1>4 DEF Asked
<1>6. Detected'
  <2>1. \A p \in Plans : seen'[p] <= disk'[p]
    BY <1>1, <1>2 DEF CheckPlanGate, TypeOK
  <2>2. ASSUME NEW r \in Reviews, rev'[r].at # "none" PROVE r[2] <= seen'[PlanOf(r)]
    <3>1. seen' = disk BY <1>1 DEF CheckPlanGate
    <3>2. CASE rev'[r] = rev[r]
      BY <1>1, <1>2, <2>2, <3>1, <3>2, ReviewParts DEF GateInv, Detected, TypeOK
    <3>3. QED BY <1>3, <3>1, <3>2
  <2>3. seen' = disk /\ disk' = disk BY <1>1 DEF CheckPlanGate
  <2>4. QED BY <2>1, <2>2, <2>3 DEF Detected, PlanOf
<1>7. Pressed'
  BY <1>1, <1>3, <1>4 DEF GateInv, Pressed
<1>8. Unmonitored' /\ PendingHasReview' /\ OpenPending'
  BY <1>1, <1>5 DEF CheckPlanGate, GateInv, Unmonitored, PendingHasReview, OpenPending, PlanOf
<1>9. QED BY <1>2, <1>6, <1>7, <1>8 DEF GateInv

\* The plan of a review that is posted becomes pending.
LEMMA PostedInv == ASSUME GateInv, NEW r \in Reviews, Posted(r) PROVE GateInv'
<1>0. PlanOf(r) \in Plans /\ TypeOK BY ReviewParts DEF GateInv
<1>1. /\ rev' = [rev EXCEPT ![r] = [NoReview EXCEPT !.at = "wait"]]
      /\ [NoReview EXCEPT !.at = "wait"] \in
           [at : {"wait"}, auto : {FALSE}, result : {"none"}, btn : {{}}]
      /\ rev[r].at = "post"
  BY DEF Posted, NoReview, At
<1>2. /\ rev'[r].at = "wait" /\ rev'[r].btn = {}
      /\ \A q \in Reviews : q # r => rev'[q] = rev[q]
  BY <1>0, <1>1 DEF TypeOK
<1>3. TypeOK'
  <2>1. [NoReview EXCEPT !.at = "wait"] \in ReviewStates BY DEF NoReview, ReviewStates
  <2>2. rev' \in [Reviews -> ReviewStates] BY <1>0, <1>1, <2>1 DEF TypeOK
  <2>3. QED BY <1>0, <2>2 DEF Posted, UpdateGate, TypeOK
<1>4. Detected' /\ Pressed'
  BY <1>1, <1>2 DEF Posted, GateInv, Detected, Pressed, PlanOf
<1>5. Unmonitored'
  BY DEF Posted, UpdateGate, GateInv, Unmonitored
<1>6. /\ Asked(r)'
      /\ \A q \in Reviews : Asked(q) => Asked(q)'
      /\ \A q \in Reviews : q # r => (Asked(q)' <=> Asked(q))
  BY <1>1, <1>2 DEF Asked
<1>7. \A p \in gate'.pending : p \in gate.pending \/ p = PlanOf(r)
  BY DEF Posted, UpdateGate
<1>8. PendingHasReview'
  BY <1>6, <1>7 DEF GateInv, PendingHasReview, PlanOf
<1>9. OpenPending'
  <2>1. SUFFICES ASSUME monitored', NEW q \in Reviews, Asked(q)', verdict'[PlanOf(q)] = "none"
                 PROVE  PlanOf(q) \in gate'.pending
    BY DEF OpenPending, PlanOf
  <2>2. gate'.pending = gate.pending \cup {PlanOf(r)}
    BY <2>1 DEF Posted, UpdateGate
  <2>3. CASE PlanOf(q) # PlanOf(r)
    <3>1. q # r /\ Asked(q) BY <1>6, <2>1, <2>3
    <3>2. verdict[PlanOf(q)] = "none"
      BY <1>0, <2>1, <2>3, ReviewParts DEF Posted, UpdateGate, TypeOK
    <3>3. QED BY <2>1, <2>2, <3>1, <3>2 DEF Posted, GateInv, OpenPending
  <2>4. QED BY <2>2, <2>3
<1>10. QED BY <1>3, <1>4, <1>5, <1>8, <1>9 DEF GateInv

\* A step of the review itself.
LEMMA StepInv == ASSUME GateInv, NEW r \in Reviews, Step(r) PROVE GateInv'
<1>0. TypeOK /\ rev[r] \in ReviewStates
  BY DEF GateInv, TypeOK
<1>1. CASE ReadPlan(r) \/ ReadFails(r) \/ PmRaises(r) \/ PostFails(r)
  BY <1>1, GotoStep DEF ReadPlan, ReadFails, PmRaises, PostFails, At
<1>2. CASE HandlePlanApproval(r) \/ NotifyPlanApproved(r) \/ CheckPending(r) \/ Said(r)
  BY <1>2, GotoStep DEF HandlePlanApproval, NotifyPlanApproved, CheckPending, Said, At
<1>3. CASE ApprovalRaises(r) \/ HandlePlanRejection(r) \/ NotifyPlanRejected(r) \/ RejectionRaises(r)
  BY <1>3, GotoStep DEF ApprovalRaises, HandlePlanRejection, NotifyPlanRejected, RejectionRaises, At
<1>4. ASSUME NEW fails, PmReviewed(r, fails) PROVE GateInv'
  <2>1. CASE fails = {}
    <3>1. rev' = [rev EXCEPT ![r].at = "api", ![r].auto = TRUE] /\ rev[r].at = "pm"
      BY <1>4, <2>1 DEF PmReviewed, At
    <3>2. /\ rev'[r] = [rev[r] EXCEPT !.at = "api", !.auto = TRUE]
          /\ rev' = [rev EXCEPT ![r] = rev'[r]]
      BY <1>0, <3>1 DEF TypeOK
    <3>3. /\ rev'[r] \in [at : {"api", "refuse"}, auto : BOOLEAN,
                           result : {"none", "approved", "rejected"}, btn : SUBSET Buttons]
          /\ rev'[r].at = "api" /\ rev'[r].result = rev[r].result /\ rev'[r].btn = rev[r].btn
      BY <1>0, <3>2 DEF ReviewStates
    <3>4. ("approving" \in rev'[r].btn \/ "rejecting" \in rev'[r].btn) => rev'[r].result # "none"
      BY <3>3 DEF GateInv, Pressed
    <3>5. UpdateGate(PlanOf(r), "approved") /\ UNCHANGED <<disk, seen, reviewer, monitored>>
      BY <1>4, <2>1 DEF PmReviewed
    <3>6. QED BY <3>1, <3>2, <3>3, <3>4, <3>5, DecidingStep
  <2>2. CASE fails # {}
    BY <1>4, <2>2, GotoStep DEF PmReviewed, At
  <2>3. QED BY <2>1, <2>2
<1>5. CASE ViewTimeout(r)
  <2>1. /\ rev' = [rev EXCEPT ![r] = [NoReview EXCEPT !.at = "expired"]]
        /\ [NoReview EXCEPT !.at = "expired"] \in
             [at : {"expired"}, auto : {FALSE}, result : {"none"}, btn : {{}}]
        /\ rev[r].at = "wait"
    BY <1>5 DEF ViewTimeout, NoReview, At
  <2>2. /\ rev'[r].at = "expired" /\ rev'[r].btn = {}
        /\ \A q \in Reviews : q # r => rev'[q] = rev[q]
    BY <1>0, <2>1 DEF TypeOK
  <2>3. TypeOK'
    <3>1. [NoReview EXCEPT !.at = "expired"] \in ReviewStates BY <2>1 DEF ReviewStates
    <3>2. QED BY <1>0, <1>5, <2>1, <3>1 DEF ViewTimeout, TypeOK
  <2>4. QED BY <1>5, <2>1, <2>2, <2>3, QuietStep DEF ViewTimeout, TypeOK
<1>6. CASE Resume(r)
  <2>1. rev[r].at = "woken" /\ rev[r].result \in {"approved", "rejected"}
    BY <1>0, <1>6 DEF Resume, At, GateInv, Pressed, ReviewStates
  <2>2. PICK l \in {"api", "refuse"} : rev' = [rev EXCEPT ![r] = [NoReview EXCEPT !.at = l]]
    BY <1>6 DEF Resume
  <2>3. [NoReview EXCEPT !.at = l] \in
          [at : {"api", "refuse"}, auto : BOOLEAN, result : {"none"}, btn : {{}}]
    BY DEF NoReview
  <2>4. rev'[r] = [NoReview EXCEPT !.at = l]
    BY <1>0, <2>2 DEF TypeOK
  <2>5. /\ rev' = [rev EXCEPT ![r] = rev'[r]]
        /\ rev'[r].at \in {"api", "refuse"} /\ rev'[r].btn = {}
        /\ rev'[r] \in [at : {"api", "refuse"}, auto : BOOLEAN,
                         result : {"none", "approved", "rejected"}, btn : SUBSET Buttons]
    BY <2>2, <2>3, <2>4
  <2>6. UpdateGate(PlanOf(r), rev[r].result) /\ UNCHANGED <<disk, seen, reviewer, monitored>>
    BY <1>6 DEF Resume
  <2>7. QED BY <2>1, <2>5, <2>6, DecidingStep
<1>7. CASE Executed(r)
  <2>1. rev[r].at = "exec" /\ Goto(r, "say") BY <1>7 DEF Executed, At
  <2>2. /\ gate' = [gate EXCEPT !.status = "idle", !.approved = {}]
        /\ gate'.pending = gate.pending
        /\ UNCHANGED <<disk, seen, reviewer, monitored, verdict>>
    BY <1>0, <1>7 DEF Executed, TypeOK
  <2>3. /\ rev'[r].at = "say" /\ rev'[r].result = rev[r].result /\ rev'[r].btn = rev[r].btn
        /\ \A q \in Reviews : q # r => rev'[q] = rev[q]
    BY <1>0, <2>1, GotoReview
  <2>4. TypeOK'
    <3>1. [rev[r] EXCEPT !.at = "say"] \in ReviewStates BY <1>0 DEF ReviewStates
    <3>2. rev' \in [Reviews -> ReviewStates] BY <1>0, <2>1, <3>1 DEF TypeOK, Goto
    <3>3. QED BY <1>0, <2>2, <3>2 DEF TypeOK
  <2>5. Detected' /\ Pressed'
    BY <2>1, <2>2, <2>3 DEF GateInv, Detected, Pressed, PlanOf
  <2>6. \A q \in Reviews : Asked(q) <=> Asked(q)'
    BY <2>1, <2>3 DEF Asked
  <2>7. Unmonitored' /\ PendingHasReview' /\ OpenPending'
    BY <2>2, <2>6 DEF GateInv, Unmonitored, PendingHasReview, OpenPending, PlanOf
  <2>8. QED BY <2>4, <2>5, <2>7 DEF GateInv
<1>8. CASE Posted(r) BY <1>8, PostedInv
<1>9. QED BY <1>1, <1>2, <1>3, <1>4, <1>5, <1>6, <1>7, <1>8 DEF Step

\* A review whose view is open, or has just stopped.
OpenStates == [at : {"wait", "woken"}, auto : BOOLEAN,
               result : {"none", "approved", "rejected"}, btn : SUBSET Buttons]

\* A button, a modal, or the edit of a message.
LEMMA ButtonInv ==
  ASSUME GateInv, NEW r \in Reviews, NEW b \in Buttons,
         \/ PressApprove(r) \/ PressReject(r) \/ SubmitModal(r)
         \/ Edited(r, b) \/ EditRaises(r, b)
  PROVE  GateInv'
<1>0. TypeOK /\ rev \in [Reviews -> ReviewStates]
  BY DEF GateInv, TypeOK
<1>1. /\ rev[r].at \in {"wait", "woken"}
      /\ UNCHANGED <<disk, seen, reviewer, monitored, gate, verdict>>
  BY DEF PressApprove, PressReject, SubmitModal, Edited, EditRaises, Press, At
<1>2. rev[r] \in OpenStates
  BY <1>0, <1>1 DEF ReviewStates, OpenStates
<1>3. PICK n \in OpenStates :
        /\ rev' = [rev EXCEPT ![r] = n]
        /\ (n.at = "woken" \/ "approving" \in n.btn \/ "rejecting" \in n.btn) => n.result # "none"
  <2>0. (rev[r].at = "woken" \/ "approving" \in rev[r].btn \/ "rejecting" \in rev[r].btn)
          => rev[r].result # "none"
    BY DEF GateInv, Pressed
  <2>1. CASE PressApprove(r)
    <3> DEFINE n == [rev[r] EXCEPT !.result = "approved", !.btn = @ \cup {"approving"}]
    <3>1. rev' = [rev EXCEPT ![r] = n]
      BY <2>1 DEF PressApprove
    <3>2. n.result = "approved" /\ n \in OpenStates
      BY <1>2, <2>1 DEF PressApprove, Buttons, OpenStates
    <3>3. QED BY <3>1, <3>2
  <2>2. CASE PressReject(r)
    <3> DEFINE n == [rev[r] EXCEPT !.btn = @ \cup {"modal"}]
    <3>1. rev' = [rev EXCEPT ![r] = n]
      BY <2>2 DEF PressReject
    <3>2. /\ n.result = rev[r].result /\ n.at = rev[r].at /\ n.btn = rev[r].btn \cup {"modal"}
          /\ n \in OpenStates
      BY <1>2, <2>2 DEF PressReject, Buttons, OpenStates
    <3>3. QED BY <2>0, <3>1, <3>2
  <2>3. CASE SubmitModal(r)
    <3> DEFINE n == [rev[r] EXCEPT !.result = "rejected",
                                   !.btn = (@ \ {"modal"}) \cup {"rejecting"}]
    <3>1. rev' = [rev EXCEPT ![r] = n]
      BY <2>3 DEF SubmitModal
    <3>2. n.result = "rejected" /\ n \in OpenStates
      BY <1>2, <2>3 DEF SubmitModal, Buttons, OpenStates
    <3>3. QED BY <3>1, <3>2
  <2>4. CASE Edited(r, b)
    <3> DEFINE n == [rev[r] EXCEPT !.btn = @ \ {b}, !.at = "woken"]
    <3>1. rev' = [rev EXCEPT ![r] = n]
      BY <2>4 DEF Edited
    <3>2. n.result = rev[r].result /\ n \in OpenStates
      BY <1>2, <2>4 DEF Edited, OpenStates
    <3>3. rev[r].result # "none"
      BY <2>0, <2>4 DEF Edited, Press, Buttons
    <3>4. QED BY <3>1, <3>2, <3>3
  <2>5. CASE EditRaises(r, b)
    <3> DEFINE n == [rev[r] EXCEPT !.btn = @ \ {b}]
    <3>1. rev' = [rev EXCEPT ![r] = n]
      BY <2>5 DEF EditRaises
    <3>2. /\ n.result = rev[r].result /\ n.at = rev[r].at /\ n.btn = rev[r].btn \ {b}
          /\ n \in OpenStates
      BY <1>2, <2>5 DEF EditRaises, OpenStates
    <3>3. QED BY <2>0, <3>1, <3>2
  <2>6. QED BY <2>1, <2>2, <2>3, <2>4, <2>5
<1>4. rev'[r] = n /\ \A q \in Reviews : q # r => rev'[q] = rev[q]
  BY <1>0, <1>3
<1>5. rev' \in [Reviews -> ReviewStates]
  <2>1. n \in ReviewStates BY DEF ReviewStates, OpenStates
  <2>2. QED BY <1>0, <1>3, <2>1
<1>6. n.at \in {"wait", "woken"} BY DEF OpenStates
<1>7. QED BY <1>1, <1>3, <1>4, <1>5, <1>6, QuietStep

LEMMA GateStep == GateInv /\ [Next]_vars => GateInv'
<1>0. SUFFICES ASSUME GateInv, [Next]_vars PROVE GateInv' OBVIOUS
<1>1. ASSUME NEW p \in Plans, WritePlan(p) PROVE GateInv'
  <2>1. TypeOK' BY <1>0, <1>1 DEF WritePlan, GateInv, TypeOK
  <2>2. Detected'
    <3>1. \A q \in Plans : disk[q] \in Nat /\ seen[q] \in Nat /\ disk[q] <= disk'[q] /\ disk'[q] \in Nat
      BY <1>0, <1>1 DEF WritePlan, GateInv, TypeOK
    <3>2. UNCHANGED <<rev, seen>>
      BY <1>1 DEF WritePlan
    <3>3. \A q \in Plans : seen'[q] <= disk'[q]
      BY <1>0, <3>1, <3>2 DEF GateInv, Detected
    <3>4. \A r \in Reviews : rev'[r].at # "none" => r[2] <= disk'[PlanOf(r)]
      BY <1>0, <3>1, <3>2, ReviewParts DEF GateInv, Detected
    <3>5. QED BY <1>0, <3>2, <3>3, <3>4 DEF GateInv, Detected, PlanOf
  <2>3. QED BY <1>0, <1>1, <2>1, <2>2 DEF WritePlan, GateInv, Pressed, Unmonitored,
              PendingHasReview, OpenPending, Asked, PlanOf
<1>2. CASE SetPlanReviewer
  BY <1>0, <1>2 DEF SetPlanReviewer, GateInv, TypeOK, Detected, Pressed, Unmonitored,
     PendingHasReview, OpenPending, Asked, PlanOf
<1>5. CASE ScanFails
  <2>1. TypeOK' /\ Detected'
    BY <1>0, <1>5 DEF ScanFails, GateInv, TypeOK, Detected, PlanOf, NothingSeen
  <2>2. QED BY <1>0, <1>5, <2>1 DEF ScanFails, GateInv, Pressed, Unmonitored,
              PendingHasReview, OpenPending, Asked, PlanOf
<1>3. CASE UNCHANGED vars
  BY <1>0, <1>3 DEF vars, GateInv, TypeOK, Detected, Pressed, Unmonitored,
     PendingHasReview, OpenPending, Asked, PlanOf
<1>4. QED BY <1>0, <1>1, <1>2, <1>3, <1>5, CheckPlanGateInv, StepInv, ButtonInv DEF Next, Buttons

\* A review goes from the check of the pending plans to the execute command
\* by that check alone.
LEMMA OnlyCheckExecutes ==
  ASSUME GateInv, Next, NEW r \in Reviews, rev[r].at = "check", rev'[r].at = "exec"
  PROVE  monitored /\ gate.pending = {}
<1>0. TypeOK BY DEF GateInv
<1>1. ASSUME NEW p \in Plans, WritePlan(p) PROVE FALSE
  BY <1>1 DEF WritePlan
<1>2. CASE SetPlanReviewer \/ ScanFails BY <1>2 DEF SetPlanReviewer, ScanFails
<1>3. CASE CheckPlanGate
  <2>1. [NoReview EXCEPT !.at = "read"].at = "read" BY DEF NoReview
  <2>2. QED BY <1>3, <2>1 DEF CheckPlanGate
<1>4. ASSUME NEW q \in Reviews, q # r,
             Step(q) \/ PressApprove(q) \/ PressReject(q) \/ SubmitModal(q)
               \/ \E b \in Buttons : Edited(q, b) \/ EditRaises(q, b)
      PROVE  FALSE
  <2>1. PICK n : rev' = [rev EXCEPT ![q] = n]
    BY <1>4 DEF Step, Goto, ReadPlan, ReadFails, PmReviewed, PmRaises, Posted, PostFails,
       ViewTimeout, Resume, HandlePlanApproval, NotifyPlanApproved, CheckPending, Executed, Said,
       ApprovalRaises, HandlePlanRejection, NotifyPlanRejected, RejectionRaises,
       PressApprove, PressReject, SubmitModal, Edited, EditRaises
  <2>2. QED BY <1>0, <1>4, <2>1 DEF TypeOK
<1>5. CASE PressApprove(r) \/ PressReject(r) \/ SubmitModal(r)
             \/ \E b \in Buttons : Edited(r, b) \/ EditRaises(r, b)
  BY <1>5 DEF PressApprove, PressReject, SubmitModal, Edited, EditRaises, Press, At
<1>6. CASE Step(r)
  <2>1. CheckPending(r)
    BY <1>6 DEF Step, ReadPlan, ReadFails, PmReviewed, PmRaises, Posted, PostFails, ViewTimeout,
       Resume, HandlePlanApproval, NotifyPlanApproved, Executed, Said, ApprovalRaises,
       HandlePlanRejection, NotifyPlanRejected, RejectionRaises, At
  <2>2. rev'[r].at = IF monitored /\ gate.pending = {} THEN "exec" ELSE "say"
    BY <1>0, <2>1, GotoReview DEF CheckPending
  <2>3. QED BY <2>2
<1>7. QED BY <1>1, <1>2, <1>3, <1>4, <1>5, <1>6 DEF Next

-----------------------------------------------------------------------------
\* The inductive invariant of the gate, and with it its types, hold in every
\* reachable state.
THEOREM GateSafety == Spec => []GateInv
BY GateInitInv, GateStep, PTL DEF Spec

\* No order of approvals, rejections, errors and new versions leaves a
\* pending plan that nobody was asked about (PendingHasReview).
THEOREM PendingAlwaysHasReview == Spec => []PendingHasReview
<1>1. GateInv => PendingHasReview BY DEF GateInv
<1>2. QED BY <1>1, GateSafety, PTL

\* The execute command is not sent while people have still to decide on a plan
\* they were asked about, for any number of plans and versions
\* (PostedPlansWait; _trigger_execution and the check of pending_plans).
THEOREM PostedPlansAlwaysWait == Spec => PostedPlansWait
<1>1. GateInv /\ [Next]_vars =>
        [\A r \in Reviews : (rev[r].at = "check" /\ rev'[r].at = "exec") =>
           \A q \in Reviews : Asked(q) => verdict[PlanOf(q)] # "none"]_vars
  <2>1. SUFFICES ASSUME GateInv, Next, NEW r \in Reviews, rev[r].at = "check", rev'[r].at = "exec",
                        NEW q \in Reviews, Asked(q)
                 PROVE  verdict[PlanOf(q)] # "none"
    OBVIOUS
  <2>2. monitored /\ gate.pending = {}
    BY <2>1, OnlyCheckExecutes
  <2>3. QED BY <2>1, <2>2 DEF GateInv, OpenPending
<1>2. QED BY <1>1, GateSafety, PTL DEF Spec, PostedPlansWait

-----------------------------------------------------------------------------
(* Integration: the invariant.                                             *)

\* A clone in a state that git can leave it in.
IsClone(c) ==
  /\ c \in [refs : [DOMAIN c.refs -> Contents], head : Branches, merging : BOOLEAN]
  /\ DOMAIN c.refs \subseteq Branches
  /\ {c.head, Main} \subseteq DOMAIN c.refs

PipelineTypeOK ==
  /\ IsClone(repo)
  /\ pc \in {"idle", "merge", "test", "attr", "rerun", "push", "pr"}
  /\ runs \in 0 .. MaxRuns /\ k \in 1 .. Len(AgentIds) + 1
  /\ failed \subseteq Tests /\ blame \in [Owners -> SUBSET Tests]
  /\ status \in {"none", "merge_conflict", "test_failure", "error", "success"}
  /\ broken \in [Tests -> SUBSET Contents]

\* The branch of a later run has not been made, and only the merge of an
\* agent's branch leaves the clone in the middle of one.
CloneInv ==
  /\ \A m \in 1 .. MaxRuns : m > runs => Integrate(m) \notin DOMAIN repo.refs
  /\ repo.merging => AgentIds # <<>>

\* What run() merges goes into the branch that it pushes.  A merge that an
\* earlier run left in the index makes the first merge fail.
OnBranch == ~repo.merging /\ repo.head = Integrate(runs)

MergeInv ==
  /\ pc # "idle" => runs > 0
  /\ pc = "merge" /\ repo.merging => k = 1
  /\ pc = "merge" /\ ~repo.merging =>
       OnBranch /\ \A i \in 1 .. k - 1 : AgentIds[i] \in Content(repo)
  /\ pc \in {"test", "push"} => OnBranch /\ Content(repo) = Agents
  /\ pc = "push" => Failing(Agents) = {}
  /\ pc = "rerun" => k <= Len(AgentIds)

IntegrationInv == PipelineTypeOK /\ CloneInv /\ MergeInv /\ PublishedIsTested

\* Blame is laid on agents for tests that failed; the rest is sorted out at
\* the end.
BlameInv ==
  /\ pc # "idle" => status = "none"
  /\ pc \in {"merge", "test", "push", "pr"} => failed = {} /\ blame = NoBlame
  /\ pc \in {"attr", "rerun"} =>
       /\ blame["_interaction"] = {} /\ blame["_flaky"] = {}
       /\ \A a \in Agents : blame[a] \subseteq failed
  /\ FailuresOwned
-----------------------------------------------------------------------------
(* What the git commands do to a clone.                                    *)

LEMMA BranchFacts ==
  /\ \A n : Integrate(n) # Main
  /\ \A a : Attr(a) # Main
  /\ \A n, a : Integrate(n) # Attr(a)
  /\ \A n, m : Integrate(n) = Integrate(m) => n = m
  /\ \A a, b : Attr(a) = Attr(b) => a = b
BY DEF Main, Integrate, Attr

LEMMA CheckoutFacts ==
  ASSUME NEW c, IsClone(c), NEW b
  PROVE  /\ IsClone(Checkout(c, b))
         /\ Checkout(c, b).refs = c.refs /\ Checkout(c, b).merging = c.merging
         /\ Checkout(c, b).head = IF c.merging \/ b \notin DOMAIN c.refs THEN c.head ELSE b
BY DEF Checkout, IsClone

LEMMA NewBranchFacts ==
  ASSUME NEW c, IsClone(c), NEW b \in Branches, NEW d \in CheckoutNewBranch(c, b)
  PROVE  /\ IsClone(d) /\ d.merging = c.merging
         /\ DOMAIN d.refs \subseteq DOMAIN c.refs \cup {b}
         /\ \A x \in DOMAIN c.refs : x \in DOMAIN d.refs /\ d.refs[x] = c.refs[x]
         /\ ~c.merging /\ b \notin DOMAIN c.refs => d.head = b /\ Content(d) = Content(c)
<1> DEFINE r == With(c.refs, b, Content(c))
           made == [c EXCEPT !.refs = r, !.head = b]
<1>1. Content(c) \in Contents
  BY DEF IsClone, Content
<1>2. /\ DOMAIN r = DOMAIN c.refs \cup {b}
      /\ r \in [DOMAIN r -> Contents]
      /\ \A x \in DOMAIN c.refs : r[x] = c.refs[x]
      /\ b \notin DOMAIN c.refs => r[b] = Content(c)
  BY <1>1 DEF IsClone, With
<1> HIDE DEF r
<1>3. /\ made.refs = r /\ made.head = b /\ made.merging = c.merging
      /\ made \in [refs : [DOMAIN r -> Contents], head : Branches, merging : BOOLEAN]
  BY <1>2 DEF IsClone
<1>4. CASE b \in DOMAIN c.refs
  <2>1. d = c
    BY <1>4 DEF CheckoutNewBranch
  <2>2. QED BY <1>4, <2>1
<1>5. CASE b \notin DOMAIN c.refs
  <2>1. d = made \/ (c.merging /\ d = c)
    BY <1>5 DEF CheckoutNewBranch, r
  <2> HIDE DEF made
  <2>2. CASE d = made
    BY <1>2, <1>3, <1>5, <2>2 DEF IsClone, Content
  <2>3. QED BY <2>1, <2>2
<1>6. QED BY <1>4, <1>5

LEMMA MergeFacts ==
  ASSUME NEW c, IsClone(c), NEW a \in Agents
  PROVE  /\ IsClone(Merge(c, a)) /\ Merge(c, a).head = c.head
         /\ DOMAIN Merge(c, a).refs = DOMAIN c.refs
         /\ \A x \in DOMAIN c.refs : x # c.head => Merge(c, a).refs[x] = c.refs[x]
         /\ MergeFails(c, a) => Merge(c, a).refs = c.refs /\ Merge(c, a).merging
         /\ ~MergeFails(c, a) => /\ Content(Merge(c, a)) = Content(c) \cup {a}
                                 /\ ~Merge(c, a).merging /\ ~c.merging
<1>1. CASE MergeFails(c, a)
  BY <1>1 DEF Merge, IsClone
<1>2. CASE ~MergeFails(c, a)
  <2> DEFINE r == [c.refs EXCEPT ![c.head] = @ \cup {a}]
  <2>1. /\ DOMAIN r = DOMAIN c.refs /\ r \in [DOMAIN r -> Contents]
        /\ \A x \in DOMAIN c.refs : x # c.head => r[x] = c.refs[x]
        /\ r[c.head] = c.refs[c.head] \cup {a}
    BY DEF IsClone, Contents
  <2>2. Merge(c, a) = [refs |-> r, head |-> c.head, merging |-> c.merging]
    BY <1>2 DEF Merge, IsClone
  <2>3. ~c.merging
    BY <1>2 DEF MergeFails
  <2> HIDE DEF r
  <2>4. QED BY <1>2, <2>1, <2>2, <2>3 DEF IsClone, Content
<1>3. QED BY <1>1, <1>2

LEMMA AbortFacts ==
  ASSUME NEW c, IsClone(c)
  PROVE  /\ IsClone(MergeAbort(c)) /\ MergeAbort(c).refs = c.refs
         /\ MergeAbort(c).head = c.head /\ MergeAbort(c).merging = FALSE
<1>1. /\ MergeAbort(c).refs = c.refs /\ MergeAbort(c).head = c.head
      /\ MergeAbort(c).merging = FALSE
      /\ MergeAbort(c) \in [refs : [DOMAIN c.refs -> Contents], head : Branches, merging : BOOLEAN]
  BY DEF MergeAbort, IsClone
<1>2. QED BY <1>1 DEF IsClone

LEMMA AgentFacts ==
  /\ Len(AgentIds) \in Nat
  /\ \A i \in 1 .. Len(AgentIds) : AgentIds[i] \in Agents
  /\ \A a \in Agents : \E i \in 1 .. Len(AgentIds) : AgentIds[i] = a
  /\ \A i, j \in 1 .. Len(AgentIds) : AgentIds[i] = AgentIds[j] => i = j
  /\ Len(AgentIds) > 0 => AgentIds # <<>>
  /\ AgentIds # <<>> => Len(AgentIds) > 0
<1>1. AgentIds \in Seq(Agents) /\ IsInjective(AgentIds)
  BY IntegrationAssumption
<1>2. DOMAIN AgentIds = 1 .. Len(AgentIds)
  BY <1>1
<1>3. QED BY <1>1, <1>2 DEF IsInjective, Agents, Range

-----------------------------------------------------------------------------
(* What run() publishes is what was tested.                                *)

LEMMA IntegrationStarts == IntegrationInit => IntegrationInv
<1> SUFFICES ASSUME IntegrationInit PROVE IntegrationInv
  OBVIOUS
<1>1. /\ repo.refs = [b \in {Main} |-> {}] /\ repo.head = Main /\ repo.merging = FALSE
      /\ repo \in [refs : [{Main} -> Contents], head : Branches, merging : BOOLEAN]
      /\ DOMAIN repo.refs = {Main}
  BY DEF IntegrationInit, Contents, Branches
<1>2. IsClone(repo)
  BY <1>1 DEF IsClone, Branches
<1>3. PipelineTypeOK
  <2>1. blame \in [Owners -> SUBSET Tests]
    BY DEF IntegrationInit, NoBlame
  <2>2. broken \in [Tests -> SUBSET Contents]
    BY DEF IntegrationInit
  <2>3. QED BY <1>2, <2>1, <2>2, AgentFacts, IntegrationAssumption
            DEF IntegrationInit, PipelineTypeOK
<1>4. CloneInv
  BY <1>1, BranchFacts DEF CloneInv
<1>5. MergeInv /\ PublishedIsTested
  BY DEF IntegrationInit, MergeInv, PublishedIsTested
<1>6. QED BY <1>3, <1>4, <1>5 DEF IntegrationInv

LEMMA StartKeeps ==
  ASSUME IntegrationInv, Start
  PROVE  IntegrationInv'
<1> DEFINE c == Checkout(repo, Main)
           b == Integrate(runs + 1)
<1>1. /\ IsClone(repo) /\ runs \in Nat /\ runs + 1 \in 1 .. MaxRuns /\ b \in Branches
      /\ b \notin DOMAIN repo.refs /\ runs + 1 > runs
  BY IntegrationAssumption
  DEF IntegrationInv, PipelineTypeOK, CloneInv, Start, Branches
<1>2. /\ IsClone(c) /\ c.refs = repo.refs /\ c.merging = repo.merging
      /\ ~repo.merging => Content(c) = repo.refs[Main]
  BY <1>1, CheckoutFacts DEF IsClone, Content
<1>3. /\ repo' \in CheckoutNewBranch(c, b) /\ runs' = runs + 1 /\ k' = 1
      /\ pc = "idle" /\ pc' = "merge" /\ failed' = {} /\ blame' = NoBlame /\ status' = "none"
      /\ UNCHANGED <<remote, clash, broken>>
  BY DEF Start, Fetch, world
<1> HIDE DEF c, b
<1>4. /\ IsClone(repo)' /\ repo'.merging = repo.merging
      /\ DOMAIN repo'.refs \subseteq DOMAIN repo.refs \cup {b}
      /\ \A x \in DOMAIN repo.refs : x \in DOMAIN repo'.refs /\ repo'.refs[x] = repo.refs[x]
      /\ ~repo.merging => repo'.head = b
  <2>1. ASSUME NEW d \in CheckoutNewBranch(c, b)
        PROVE  /\ IsClone(d) /\ d.merging = repo.merging
               /\ DOMAIN d.refs \subseteq DOMAIN repo.refs \cup {b}
               /\ \A x \in DOMAIN repo.refs : x \in DOMAIN d.refs /\ d.refs[x] = repo.refs[x]
               /\ ~repo.merging => d.head = b
    BY <1>1, <1>2, NewBranchFacts
  <2>2. QED BY <1>3, <2>1
<1>5. PipelineTypeOK'
  <2>1. blame' \in [Owners -> SUBSET Tests]
    BY <1>3 DEF NoBlame
  <2>2. QED BY <1>1, <1>3, <1>4, <2>1, AgentFacts DEF IntegrationInv, PipelineTypeOK
<1>6. CloneInv'
  BY <1>1, <1>3, <1>4, BranchFacts, IntegrationAssumption DEF IntegrationInv, CloneInv, b
<1>7. MergeInv'
  BY <1>1, <1>3, <1>4 DEF MergeInv, OnBranch, b
<1>8. PublishedIsTested'
  BY <1>3 DEF IntegrationInv, PublishedIsTested, Failing
<1>9. QED BY <1>5, <1>6, <1>7, <1>8 DEF IntegrationInv

LEMMA MergeAgentKeeps ==
  ASSUME IntegrationInv, MergeAgent
  PROVE  IntegrationInv'
<1> DEFINE a == AgentIds[k]
           c == Merge(repo, a)
<1>1. /\ IsClone(repo) /\ k \in 1 .. Len(AgentIds) /\ a \in Agents /\ Len(AgentIds) \in Nat
      /\ pc = "merge" /\ runs \in Nat /\ runs > 0
  BY AgentFacts, IntegrationAssumption
  DEF IntegrationInv, PipelineTypeOK, MergeAgent, MergeInv
<1>2. UNCHANGED <<remote, runs, failed, blame, clash, broken>>
  BY DEF MergeAgent, world
<1>3. PublishedIsTested'
  BY <1>2 DEF IntegrationInv, PublishedIsTested, Failing
<1>4. /\ IsClone(c) /\ c.head = repo.head /\ DOMAIN c.refs = DOMAIN repo.refs
      /\ \A x \in DOMAIN repo.refs : x # repo.head => c.refs[x] = repo.refs[x]
      /\ MergeFails(repo, a) => c.refs = repo.refs
      /\ ~MergeFails(repo, a) => /\ Content(c) = Content(repo) \cup {a}
                                 /\ ~c.merging /\ ~repo.merging
  BY <1>1, MergeFacts
<1>5. CASE MergeFails(repo, a)
  <2>1. repo' = MergeAbort(c) /\ pc' = "idle" /\ status' = "merge_conflict" /\ k' = k
    BY <1>5 DEF MergeAgent, Return
  <2> HIDE DEF c
  <2>2. IsClone(repo)' /\ repo'.refs = repo.refs /\ repo'.merging = FALSE
    BY <1>4, <1>5, <2>1, AbortFacts
  <2>3. PipelineTypeOK'
    BY <1>1, <1>2, <2>1, <2>2 DEF IntegrationInv, PipelineTypeOK
  <2>4. CloneInv' /\ MergeInv'
    BY <1>2, <2>1, <2>2 DEF IntegrationInv, CloneInv, MergeInv
  <2>5. QED BY <1>3, <2>3, <2>4 DEF IntegrationInv
<1>6. CASE ~MergeFails(repo, a)
  <2>1. repo' = c /\ k' = k + 1 /\ pc' = pc /\ status' = status
    BY <1>6 DEF MergeAgent
  <2> HIDE DEF c
  <2>2. /\ IsClone(repo)' /\ repo'.head = repo.head /\ DOMAIN repo'.refs = DOMAIN repo.refs
        /\ \A x \in DOMAIN repo.refs : x # repo.head => repo'.refs[x] = repo.refs[x]
        /\ Content(repo)' = Content(repo) \cup {a} /\ ~repo'.merging /\ ~repo.merging
    BY <1>4, <1>6, <2>1 DEF IsClone, Content
  <2>3. OnBranch /\ \A i \in 1 .. k - 1 : AgentIds[i] \in Content(repo)
    BY <1>1, <2>2 DEF IntegrationInv, MergeInv
  <2>4. k' \in 1 .. Len(AgentIds) + 1 /\ k \in Nat /\ k' - 1 = k
    BY <1>1, <2>1
  <2>5. PipelineTypeOK'
    BY <1>2, <2>1, <2>2, <2>4 DEF IntegrationInv, PipelineTypeOK
  <2>6. CloneInv'
    BY <1>2, <2>2 DEF IntegrationInv, CloneInv
  <2>7. \A i \in 1 .. k' - 1 : AgentIds[i] \in Content(repo)'
    <3> SUFFICES ASSUME NEW i \in 1 .. k
                 PROVE  AgentIds[i] \in Content(repo)'
      BY <2>4
    <3>1. i \in 1 .. k - 1 \/ i = k
      BY <2>4
    <3>2. QED BY <2>2, <2>3, <3>1 DEF Content
  <2>8. MergeInv'
    BY <1>1, <1>2, <2>1, <2>2, <2>3, <2>7 DEF MergeInv, OnBranch
  <2>9. QED BY <1>3, <2>5, <2>6, <2>8 DEF IntegrationInv
<1>7. QED BY <1>5, <1>6

\* The steps that leave clone and remote alone, by where they lead.
Stays ==
  \/ Merged \/ TestsPass \/ TestsFail \/ TestsCrash \/ Raises \/ CreatePr \/ Attributed
  \/ ResolveAll \/ Resolve \/ ResolveRaises
  \/ UNCHANGED integrationVars

LEMMA StaysKeeps ==
  ASSUME IntegrationInv, Stays
  PROVE  IntegrationInv'
<1>1. /\ UNCHANGED <<repo, remote, runs, clash, broken>>
      /\ \/ Merged \/ TestsPass \/ TestsFail
         \/ pc' = "idle" /\ k' = k
         \/ pc' = pc /\ k' = k
  BY DEF Stays, Merged, TestsPass, TestsFail, TestsCrash, Raises, CreatePr, Attributed, Return,
         ResolveAll, Resolve, ResolveRaises, integrationVars, world
<1>2. IsClone(repo)' /\ CloneInv' /\ PublishedIsTested'
  BY <1>1 DEF IntegrationInv, PipelineTypeOK, IsClone, CloneInv, PublishedIsTested, Failing
<1>3. PipelineTypeOK'
  <2>1. failed' \subseteq Tests
    BY DEF Stays, Merged, TestsPass, TestsFail, TestsCrash, Raises, CreatePr, Attributed,
           ResolveAll, Resolve, ResolveRaises, integrationVars, Failing, IntegrationInv,
           PipelineTypeOK
  <2>2. blame' \in [Owners -> SUBSET Tests]
    <3>1. CASE Attributed
      BY <3>1 DEF Attributed, IntegrationInv, PipelineTypeOK
    <3>2. CASE UNCHANGED blame
      BY <3>2 DEF IntegrationInv, PipelineTypeOK
    <3>3. QED BY <3>1, <3>2
      DEF Stays, Merged, TestsPass, TestsFail, TestsCrash, Raises, CreatePr,
          ResolveAll, Resolve, ResolveRaises, integrationVars
  <2>3. status' \in {"none", "merge_conflict", "test_failure", "error", "success"}
    BY DEF Stays, Merged, TestsPass, TestsFail, TestsCrash, Raises, CreatePr, Attributed, Return,
           ResolveAll, Resolve, ResolveRaises, integrationVars, IntegrationInv, PipelineTypeOK
  <2>4. /\ pc' \in {"idle", "merge", "test", "attr", "rerun", "push", "pr"}
        /\ k' \in 1 .. Len(AgentIds) + 1
    BY <1>1, AgentFacts DEF Merged, TestsPass, TestsFail, IntegrationInv, PipelineTypeOK
  <2>5. QED BY <1>1, <1>2, <2>1, <2>2, <2>3, <2>4 DEF IntegrationInv, PipelineTypeOK
<1>4. CASE Merged
  <2>1. /\ pc = "merge" /\ pc' = "test" /\ k' = k /\ k \in Nat /\ k > Len(AgentIds)
        /\ k \in 1 .. Len(AgentIds) + 1 /\ IsClone(repo)
    BY <1>4 DEF Merged, IntegrationInv, PipelineTypeOK
  <2>2. ~repo.merging
    BY <2>1, AgentFacts DEF IntegrationInv, MergeInv, CloneInv
  <2>3. OnBranch /\ \A i \in 1 .. k - 1 : AgentIds[i] \in Content(repo)
    BY <2>1, <2>2 DEF IntegrationInv, MergeInv
  <2>4. Agents \subseteq Content(repo)
    BY <2>1, <2>3, AgentFacts
  <2>5. Content(repo) \subseteq Agents
    BY <2>1 DEF IsClone, Content, Contents
  <2>6. MergeInv'
    BY <1>1, <2>1, <2>3, <2>4, <2>5 DEF MergeInv, OnBranch, Content, IntegrationInv
  <2>7. QED BY <1>2, <1>3, <2>6 DEF IntegrationInv
<1>5. CASE TestsPass
  <2>1. pc = "test" /\ pc' = "push" /\ k' = k /\ Failing(Content(repo)) = {}
    BY <1>5 DEF TestsPass
  <2>2. OnBranch /\ Content(repo) = Agents /\ Failing(Agents) = {} /\ runs > 0
    BY <2>1 DEF IntegrationInv, MergeInv
  <2>3. MergeInv'
    BY <1>1, <2>1, <2>2 DEF MergeInv, OnBranch, Content, Failing
  <2>4. QED BY <1>2, <1>3, <2>3 DEF IntegrationInv
<1>6. CASE TestsFail
  <2>1. pc = "test" /\ pc' = "attr" /\ k' = 1
    BY <1>6 DEF TestsFail
  <2>2. MergeInv'
    BY <1>1, <2>1 DEF IntegrationInv, MergeInv
  <2>3. QED BY <1>2, <1>3, <2>2 DEF IntegrationInv
<1>7. CASE pc' = "idle" /\ k' = k
  <2>1. MergeInv'
    BY <1>1, <1>7 DEF IntegrationInv, MergeInv
  <2>2. QED BY <1>2, <1>3, <2>1 DEF IntegrationInv
<1>8. CASE pc' = pc /\ k' = k
  <2>1. MergeInv'
    BY <1>1, <1>8 DEF IntegrationInv, MergeInv, OnBranch, Content, Failing
  <2>2. QED BY <1>2, <1>3, <2>1 DEF IntegrationInv
<1>9. QED BY <1>1, <1>4, <1>5, <1>6, <1>7, <1>8

\* git push sends what the tests have passed on.
LEMMA PushKeeps ==
  ASSUME IntegrationInv, Push
  PROVE  IntegrationInv'
<1>1. /\ pc = "push" /\ pc' = "pr"
      /\ UNCHANGED <<repo, runs, k, failed, blame, status, clash, broken>>
  BY DEF Push, world
<1>2. PICK sent \in BOOLEAN :
        remote' = IF sent THEN With(remote, Integrate(runs), repo.refs[Integrate(runs)]) ELSE remote
  BY DEF Push
<1>3. repo.refs[Integrate(runs)] = Agents /\ Failing(Agents) = {}
  BY <1>1 DEF IntegrationInv, MergeInv, OnBranch, Content
<1>4. \A b \in DOMAIN remote' : remote'[b] = Agents /\ Failing(remote'[b]) = {}
  BY <1>2, <1>3 DEF With, IntegrationInv, PublishedIsTested
<1>5. PublishedIsTested'
  BY <1>1, <1>4 DEF PublishedIsTested, Failing
<1>6. PipelineTypeOK' /\ CloneInv' /\ MergeInv'
  BY <1>1 DEF IntegrationInv, PipelineTypeOK, IsClone, CloneInv, MergeInv
<1>7. QED BY <1>5, <1>6 DEF IntegrationInv

\* The tests run again on the branch of one agent; main is checked out.
LEMMA RerunKeeps ==
  ASSUME IntegrationInv, Rerun \/ RerunCrash \/ RerunOther \/ RerunRaises
  PROVE  IntegrationInv'
<1>1. /\ pc = "rerun" /\ repo' = Checkout(repo, Main)
      /\ \/ pc' = "attr" /\ k' = k + 1 /\ status' = status
         \/ pc' = "idle" /\ k' = k /\ status' = "error"
      /\ UNCHANGED <<remote, runs, failed, clash, broken>>
  BY DEF Rerun, RerunCrash, RerunOther, RerunRaises, Return, world
<1>2. /\ k \in 1 .. Len(AgentIds) /\ AgentIds[k] \in Agents /\ Len(AgentIds) \in Nat
      /\ IsClone(repo) /\ runs > 0
  BY <1>1, AgentFacts DEF IntegrationInv, PipelineTypeOK, MergeInv
<1>3. IsClone(repo)' /\ repo'.refs = repo.refs /\ repo'.merging = repo.merging
  BY <1>1, <1>2, CheckoutFacts
<1>4. blame' \in [Owners -> SUBSET Tests]
  BY DEF Rerun, RerunCrash, RerunOther, RerunRaises, IntegrationInv, PipelineTypeOK
<1>5. PipelineTypeOK'
  BY <1>1, <1>2, <1>3, <1>4 DEF IntegrationInv, PipelineTypeOK
<1>6. CloneInv' /\ MergeInv' /\ PublishedIsTested'
  BY <1>1, <1>2, <1>3 DEF IntegrationInv, CloneInv, MergeInv, PublishedIsTested, Failing
<1>7. QED BY <1>5, <1>6 DEF IntegrationInv

\* The branch of one agent on its own.
LEMMA IsolateKeeps ==
  ASSUME IntegrationInv, Isolate
  PROVE  IntegrationInv'
<1> DEFINE a == AgentIds[k]
           c == Checkout(repo, Main)
<1>1. /\ pc = "attr" /\ k \in 1 .. Len(AgentIds) /\ a \in Agents /\ Len(AgentIds) \in Nat
      /\ IsClone(repo) /\ runs > 0 /\ AgentIds # <<>>
      /\ UNCHANGED <<remote, runs, failed, status, clash, broken>>
  BY AgentFacts DEF Isolate, IntegrationInv, PipelineTypeOK, MergeInv, world
<1>2. /\ IsClone(c) /\ c.refs = repo.refs /\ c.merging = repo.merging
      /\ ~repo.merging => Content(c) = repo.refs[Main]
  BY <1>1, CheckoutFacts DEF IsClone, Content
<1>3. PICK d \in CheckoutNewBranch(c, Attr(a)) :
        IF MergeFails(d, a)
        THEN /\ repo' = Checkout(Merge(d, a), Main)
             /\ blame' = [blame EXCEPT ![a] = failed]
             /\ k' = k + 1 /\ pc' = pc
        ELSE /\ repo' = Merge(d, a)
             /\ pc' = "rerun" /\ k' = k /\ blame' = blame
  BY DEF Isolate
<1>4. Attr(a) \in Branches
  BY <1>1 DEF Branches
<1> HIDE DEF c
<1>5. /\ IsClone(d) /\ d.merging = repo.merging
      /\ DOMAIN d.refs \subseteq DOMAIN repo.refs \cup {Attr(a)}
      /\ \A x \in DOMAIN repo.refs : x \in DOMAIN d.refs /\ d.refs[x] = repo.refs[x]
  BY <1>2, <1>3, <1>4, NewBranchFacts
<1> DEFINE e == Merge(d, a)
<1>6. /\ IsClone(e) /\ e.head = d.head /\ DOMAIN e.refs = DOMAIN d.refs
      /\ \A x \in DOMAIN d.refs : x # d.head => e.refs[x] = d.refs[x]
      /\ ~MergeFails(d, a) => Content(e) = Content(d) \cup {a} /\ ~e.merging
  BY <1>1, <1>5, MergeFacts
<1> HIDE DEF e
<1>7. IsClone(repo)' /\ repo'.refs = e.refs /\ repo'.merging = e.merging
  <2>1. CASE MergeFails(d, a)
    BY <1>3, <1>6, <2>1, CheckoutFacts DEF e
  <2>2. CASE ~MergeFails(d, a)
    BY <1>3, <1>6, <2>2 DEF e
  <2>3. QED BY <2>1, <2>2
<1>8. PipelineTypeOK'
  <2>1. blame' \in [Owners -> SUBSET Tests]
    BY <1>3 DEF IntegrationInv, PipelineTypeOK
  <2>2. pc' \in {"attr", "rerun"} /\ k' \in 1 .. Len(AgentIds) + 1
    BY <1>1, <1>3
  <2>3. QED BY <1>1, <1>7, <2>1, <2>2 DEF IntegrationInv, PipelineTypeOK
<1>9. CloneInv'
  BY <1>1, <1>5, <1>6, <1>7, BranchFacts DEF IntegrationInv, CloneInv
<1>10. MergeInv' /\ PublishedIsTested'
  BY <1>1, <1>3 DEF IntegrationInv, MergeInv, PublishedIsTested, Failing
<1>11. QED BY <1>8, <1>9, <1>10 DEF IntegrationInv

LEMMA IntegrationKeeps ==
  ASSUME IntegrationInv, [IntegrationNext]_integrationVars
  PROVE  IntegrationInv'
<1>1. \/ Start \/ MergeAgent \/ Push \/ Isolate \/ Stays
      \/ Rerun \/ RerunCrash \/ RerunOther \/ RerunRaises
  BY DEF IntegrationNext, Stays
<1>2. QED
  BY <1>1, StartKeeps, MergeAgentKeeps, StaysKeeps, PushKeeps, IsolateKeeps, RerunKeeps

\* What run() publishes holds the work of every agent and passes the tests,
\* for any agents, tests and conflicts, and whatever earlier runs left in the
\* clone.
THEOREM PublishedAlwaysTested == IntegrationSpec => []PublishedIsTested
<1>1. IntegrationInit => IntegrationInv
  BY IntegrationStarts
<1>2. IntegrationInv /\ [IntegrationNext]_integrationVars => IntegrationInv'
  BY IntegrationKeeps
<1>3. IntegrationInv => PublishedIsTested
  BY DEF IntegrationInv
<1>4. QED BY <1>1, <1>2, <1>3, PTL DEF IntegrationSpec

-----------------------------------------------------------------------------
(* Every failed test has an owner.                                         *)

\* The keys under which attribute_failures puts what is nobody's: no agent is
\* called like this.
NotAgents == {"_interaction", "_flaky"} \cap Agents = {}

LEMMA BlameStarts == IntegrationInit => BlameInv
BY DEF IntegrationInit, BlameInv, FailuresOwned, NoBlame, Owners, Range

LEMMA NoBlameFacts ==
  /\ UNION Range(NoBlame) = {}
  /\ \A o \in Owners : NoBlame[o] = {}
  /\ Agents \cup {"_interaction", "_flaky"} = Owners
BY DEF NoBlame, Range, Owners

\* The steps that do not attribute anything.
LEMMA BlameStays ==
  ASSUME IntegrationInv, BlameInv,
         \/ Start \/ MergeAgent \/ Merged \/ TestsPass \/ TestsFail \/ TestsCrash \/ Raises \/ Push
         \/ CreatePr \/ RerunCrash \/ RerunRaises \/ ResolveAll \/ Resolve \/ ResolveRaises
         \/ UNCHANGED integrationVars
  PROVE  BlameInv'
<1>1. blame \in [Owners -> SUBSET Tests] /\ UNCHANGED <<clash, broken>>
  BY DEF IntegrationInv, PipelineTypeOK, Start, MergeAgent, Merged, TestsPass, TestsFail,
         TestsCrash, Raises, Push, CreatePr, RerunCrash, RerunRaises, ResolveAll, Resolve,
         ResolveRaises, integrationVars, world
<1>2. CASE Start
  <2>1. pc' = "merge" /\ status' = "none" /\ failed' = {} /\ blame' = NoBlame
    BY <1>2 DEF Start
  <2>2. QED BY <2>1, NoBlameFacts DEF BlameInv, FailuresOwned
<1>3. CASE TestsFail
  <2>1. pc = "test" /\ pc' = "attr" /\ status' = status /\ blame' = blame
    BY <1>3 DEF TestsFail
  <2>2. status = "none" /\ blame = NoBlame
    BY <2>1 DEF BlameInv
  <2>3. QED BY <2>1, <2>2, NoBlameFacts DEF BlameInv, FailuresOwned
<1>4. CASE TestsCrash
  <2>1. pc = "test" /\ pc' = "idle" /\ status' = "test_failure" /\ UNCHANGED <<failed, blame>>
    BY <1>4 DEF TestsCrash, Return
  <2>2. failed = {} /\ blame = NoBlame
    BY <2>1 DEF BlameInv
  <2>3. QED BY <2>1, <2>2, NoBlameFacts DEF BlameInv, FailuresOwned
<1>5. CASE MergeAgent \/ Raises \/ CreatePr \/ RerunRaises
  <2>1. /\ UNCHANGED <<runs, failed, blame>>
        /\ \/ pc' = "idle" /\ status' \in {"merge_conflict", "error", "success"}
           \/ UNCHANGED <<pc, status>>
    BY <1>5 DEF MergeAgent, Raises, CreatePr, RerunRaises, Return
  <2>2. FailuresOwned'
    BY <1>1, <2>1 DEF BlameInv, FailuresOwned
  <2>3. QED BY <2>1, <2>2 DEF BlameInv
<1>6. CASE Merged \/ TestsPass \/ Push \/ RerunCrash
  <2>1. /\ UNCHANGED <<runs, failed, blame, status>>
        /\ \/ pc \in {"merge", "test", "push"} /\ pc' \in {"test", "push", "pr"}
           \/ pc = "rerun" /\ pc' = "attr"
    BY <1>6 DEF Merged, TestsPass, Push, RerunCrash
  <2>2. FailuresOwned'
    BY <1>1, <2>1 DEF BlameInv, FailuresOwned
  <2>3. QED BY <2>1, <2>2 DEF BlameInv
<1>7. CASE ResolveAll \/ Resolve \/ ResolveRaises \/ UNCHANGED integrationVars
  <2>1. UNCHANGED <<pc, runs, failed, blame, status>>
    BY <1>7 DEF ResolveAll, Resolve, ResolveRaises, integrationVars
  <2>2. FailuresOwned'
    BY <1>1, <2>1 DEF BlameInv, FailuresOwned
  <2>3. QED BY <2>1, <2>2 DEF BlameInv
<1>8. QED BY <1>2, <1>3, <1>4, <1>5, <1>6, <1>7

\* One agent is blamed for some of the tests that failed.
LEMMA BlameOne ==
  ASSUME IntegrationInv, BlameInv, NotAgents, Isolate \/ Rerun \/ RerunOther
  PROVE  BlameInv'
<1> DEFINE a == AgentIds[k]
<1>1. /\ pc \in {"attr", "rerun"} /\ pc' \in {"attr", "rerun"} /\ a \in Agents
      /\ UNCHANGED <<runs, failed, status, clash, broken>>
      /\ blame \in [Owners -> SUBSET Tests] /\ status = "none"
  BY AgentFacts
  DEF Isolate, Rerun, RerunOther, IntegrationInv, PipelineTypeOK, MergeInv, BlameInv, world
<1>2. PICK T \in SUBSET failed : blame' = blame \/ blame' = [blame EXCEPT ![a] = T]
  <2>1. CASE Rerun
    BY <2>1 DEF Rerun
  <2>2. CASE Isolate \/ RerunOther
    <3>1. blame' = blame \/ blame' = [blame EXCEPT ![a] = failed]
      BY <2>2 DEF Isolate, RerunOther
    <3>2. QED BY <3>1
  <2>3. QED BY <2>1, <2>2
<1> HIDE DEF a
<1>3. /\ \A o \in Owners : o # a => blame'[o] = blame[o]
      /\ blame'[a] = blame[a] \/ blame'[a] = T
  BY <1>1, <1>2 DEF Owners
<1>4. /\ blame'["_interaction"] = {} /\ blame'["_flaky"] = {}
      /\ \A b \in Agents : blame'[b] \subseteq failed
  BY <1>1, <1>3 DEF BlameInv, NotAgents, Owners
<1>5. FailuresOwned'
  BY <1>1 DEF FailuresOwned
<1>6. QED BY <1>1, <1>4, <1>5 DEF BlameInv

\* What is left is an interaction of agents, or flaky.
LEMMA BlameRest ==
  ASSUME IntegrationInv, BlameInv, NotAgents, Attributed
  PROVE  BlameInv'
<1> DEFINE rest == failed \ UNION {blame[a] : a \in Agents}
           who == IF Len(AgentIds) > 1 THEN "_interaction" ELSE "_flaky"
<1>1. /\ pc = "attr" /\ blame' = [blame EXCEPT ![who] = rest] /\ pc' = "idle"
      /\ UNCHANGED <<failed, runs, clash, broken>>
      /\ blame \in [Owners -> SUBSET Tests]
  BY DEF Attributed, Return, IntegrationInv, PipelineTypeOK, world
<1>2. /\ blame["_interaction"] = {} /\ blame["_flaky"] = {}
      /\ \A a \in Agents : blame[a] \subseteq failed
  BY <1>1 DEF BlameInv
<1>3. who \in {"_interaction", "_flaky"} /\ who \in Owners /\ who \notin Agents
  BY DEF Owners, NotAgents
<1> HIDE DEF who, rest
<1>4. /\ \A a \in Agents : blame'[a] = blame[a]
      /\ blame'[who] = rest /\ DOMAIN blame' = Owners
      /\ blame'["_interaction"] = rest \/ blame'["_interaction"] = {}
      /\ \A o \in {"_interaction", "_flaky"} : blame'[o] \subseteq rest
  BY <1>1, <1>2, <1>3 DEF Owners
<1>5. failed = UNION Range(blame')
  <2>1. ASSUME NEW t \in failed PROVE \E o \in Owners : t \in blame'[o]
    <3>1. CASE t \in rest
      BY <1>3, <1>4, <3>1
    <3>2. CASE t \notin rest
      BY <1>4, <2>1, <3>2 DEF rest, Owners
    <3>3. QED BY <3>1, <3>2
  <2>2. ASSUME NEW o \in Owners PROVE blame'[o] \subseteq failed
    <3>1. rest \subseteq failed
      BY DEF rest
    <3>2. QED BY <1>2, <1>4, <2>2, <3>1 DEF Owners
  <2>3. QED BY <1>4, <2>1, <2>2 DEF Range
<1>6. \A a \in Agents : blame'[a] \cap (blame'["_interaction"] \cup blame'["_flaky"]) = {}
  BY <1>4 DEF rest
<1>7. FailuresOwned'
  BY <1>1, <1>5, <1>6 DEF FailuresOwned
<1>8. QED BY <1>1, <1>7 DEF BlameInv

\* No failed test is left without an owner, and none is laid both on an agent
\* and on nobody, for any agents, tests and conflicts and whatever earlier
\* runs left in the clone.
THEOREM FailuresAlwaysOwned ==
  ASSUME NotAgents
  PROVE  IntegrationSpec => []FailuresOwned
<1>1. IntegrationInit => IntegrationInv /\ BlameInv
  BY IntegrationStarts, BlameStarts
<1>2. IntegrationInv /\ BlameInv /\ [IntegrationNext]_integrationVars
        => (IntegrationInv /\ BlameInv)'
  <2> SUFFICES ASSUME IntegrationInv, BlameInv, [IntegrationNext]_integrationVars
               PROVE  IntegrationInv' /\ BlameInv'
    OBVIOUS
  <2>1. IntegrationInv'
    BY IntegrationKeeps
  <2>2. \/ Isolate \/ Rerun \/ RerunOther
        \/ Attributed
        \/ \/ Start \/ MergeAgent \/ Merged \/ TestsPass \/ TestsFail \/ TestsCrash \/ Raises
           \/ Push \/ CreatePr \/ RerunCrash \/ RerunRaises \/ ResolveAll \/ Resolve \/ ResolveRaises
           \/ UNCHANGED integrationVars
    BY DEF IntegrationNext
  <2>3. QED BY <2>1, <2>2, BlameOne, BlameRest, BlameStays
<1>3. BlameInv => FailuresOwned
  BY DEF BlameInv
<1>4. QED BY <1>1, <1>2, <1>3, PTL DEF IntegrationSpec
=============================================================================
