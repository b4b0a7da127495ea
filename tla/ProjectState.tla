---------------------------- MODULE ProjectState ----------------------------
(***************************************************************************)
(* ProjectStateManager (autonomy/project_state.py) on top of the backlog,  *)
(* driven by the PM's message handler (handler/transient.py), which        *)
(* handles one message at a time, by edits of the backlog, and by          *)
(* reassign_stale(), which scans the queue without the lock.               *)
(*                                                                         *)
(* assign[a] is the value stored under "assignment:<a>".  held[a] are the  *)
(* items that agent a works on: it learns of them when they are recorded,  *)
(* from the "[Task Assigned]" report of _auto_assign_next or, after a      *)
(* "[Request Assignment]", which sends no report, from                     *)
(* get_agent_assignment().  A report may name any listed item; one that    *)
(* its agent does not hold (a repeated, late or mistaken report) is noted  *)
(* in faults.  A report of an unknown item raises and changes nothing.     *)
(*                                                                         *)
(* A record is written by execute() and commit().  When the commit raises, *)
(* later reads of the same connection may see the change or not; that a    *)
(* later commit of another key may carry a refused change of the backlog   *)
(* with it is left out.                                                    *)
(***************************************************************************)
EXTENDS Backlog

CONSTANT NoItem   \* no value stored under the key

ASSUME StateAssumption ==
  /\ {"pm", "sweep", "edit"} \subseteq Tasks
  /\ NoItem \notin Items

VARIABLES
  assign,  \* stored assignment records
  held,    \* items each agent works on and has not reported
  pm,      \* where the PM's handler is: [at, agent, item]
  sweep,   \* where reassign_stale is: [at, pos, item, active]
  faults   \* history: "crash" once a write has raised or the PM has died,
           \* "sweep" once reassign_stale has been called, "misreport" and
           \* "returned" once an agent has reported an item it does not hold
           \* as completed, or as failed

stateVars == <<assign, held, pm, sweep, faults>>
vars == <<backlogVars, stateVars>>

PmAt(at, a, i) == [at |-> at, agent |-> a, item |-> i]
PmIdle == PmAt("idle", Nobody, NoItem)
SweepIdle == [at |-> "idle", pos |-> 0, item |-> NoItem, active |-> {}]

TypeOK ==
  /\ BacklogTypeOK
  /\ assign \in [Agents -> Items \cup {NoItem}]
  /\ held \in [Agents -> SUBSET Items]
  /\ pm \in [at : {"idle", "completing", "failing", "next", "claimed"},
             agent : Agents \cup {Nobody}, item : Items \cup {NoItem}]
  /\ sweep \in [at : {"idle", "scan", "mark", "clear"}, pos : Nat,
                item : Items \cup {NoItem}, active : SUBSET Agents]
  /\ faults \subseteq {"crash", "sweep", "misreport", "returned"}

Init ==
  /\ BacklogInit
  /\ assign = [a \in Agents |-> NoItem]
  /\ held = [a \in Agents |-> {}]
  /\ pm = PmIdle
  /\ sweep = SweepIdle
  /\ faults = {}

-----------------------------------------------------------------------------
(* The PM's handler.  Each step ends at a suspension point.                *)

\* Agent a has reported item i.
Reported(a, i, stray) ==
  /\ held' = [held EXCEPT ![a] = @ \ {i}]
  /\ faults' = IF i \in held[a] THEN faults ELSE faults \cup {stray}

\* "[Task Completed]": mark_completed, up to its write.
TaskCompleted(a, i) ==
  /\ pm = PmIdle
  /\ MarkCompleted("pm", i)
  /\ Reported(a, i, "misreport")
  /\ pm' = PmAt("completing", a, i)
  /\ UNCHANGED <<assign, sweep>>

\* "[Task Failed]": mark_pending, up to its write.
TaskFailed(a, i) ==
  /\ pm = PmIdle
  /\ MarkPending("pm", i)
  /\ Reported(a, i, "returned")
  /\ pm' = PmAt("failing", a, i)
  /\ UNCHANGED <<assign, sweep>>

\* Mutants: the record is not deleted, or overwritten with None.
ClearAssignment_Keeps ==
  /\ pm.at \in {"completing", "failing"}
  /\ lock # "pm"
  /\ pm' = IF pm.at = "completing" THEN PmAt("next", pm.agent, NoItem) ELSE PmIdle
  /\ UNCHANGED <<backlogVars, assign, held, sweep, faults>>

Forget(a) == assign' = [assign EXCEPT ![a] = NoItem]

\* The record is deleted; a completion goes on to the next assignment.
ClearAssignment ==
  /\ pm.at \in {"completing", "failing"}
  /\ lock # "pm"
  /\ Forget(pm.agent)
  /\ pm' = IF pm.at = "completing" THEN PmAt("next", pm.agent, NoItem) ELSE PmIdle
  /\ UNCHANGED <<backlogVars, held, sweep, faults>>

\* delete() raises, and with it the handler; the record may be gone or not.
ClearRaises ==
  /\ pm.at \in {"completing", "failing"}
  /\ lock # "pm"
  /\ Forget(pm.agent) \/ UNCHANGED assign
  /\ pm' = PmIdle
  /\ faults' = faults \cup {"crash"}
  /\ UNCHANGED <<backlogVars, held, sweep>>

\* "[Request Assignment]".
RequestAssignment(a) ==
  /\ pm = PmIdle
  /\ pm' = PmAt("next", a, NoItem)
  /\ UNCHANGED <<backlogVars, assign, held, sweep, faults>>

\* assign_next_task: claim_next, up to its write.
Claim ==
  /\ pm.at = "next"
  /\ ClaimNext("pm", pm.agent)
  /\ pm' = PmAt("claimed", pm.agent, items[FirstPending])
  /\ UNCHANGED <<assign, held, sweep, faults>>

NothingToClaim ==
  /\ pm.at = "next"
  /\ lock = NoTask
  /\ FirstPending = 0
  /\ pm' = PmIdle
  /\ UNCHANGED <<backlogVars, assign, held, sweep, faults>>

\* The assignment is recorded, and the agent learns of it.
Record(a, i) ==
  /\ assign' = [assign EXCEPT ![a] = i]
  /\ held' = [held EXCEPT ![a] = @ \cup {i}]

RecordAssignment ==
  /\ pm.at = "claimed"
  /\ lock # "pm"
  /\ Record(pm.agent, pm.item)
  /\ pm' = PmIdle
  /\ UNCHANGED <<backlogVars, sweep, faults>>

\* set() raises: the claim stays, without a record or with one.
RecordRaises ==
  /\ pm.at = "claimed"
  /\ lock # "pm"
  /\ Record(pm.agent, pm.item) \/ UNCHANGED <<assign, held>>
  /\ pm' = PmIdle
  /\ faults' = faults \cup {"crash"}
  /\ UNCHANGED <<backlogVars, sweep>>

-----------------------------------------------------------------------------
(* reassign_stale(active): a scan of the live list, without the lock.      *)

SweepStart(active) ==
  /\ sweep = SweepIdle
  /\ sweep' = [at |-> "scan", pos |-> 1, item |-> NoItem, active |-> active]
  /\ faults' = faults \cup {"sweep"}
  /\ UNCHANGED <<backlogVars, assign, held, pm>>

Stale(i) == status[i] = "assigned" /\ owner[i] \notin sweep.active

StaleAt == {k \in sweep.pos .. Len(items) : Stale(items[k])}

SweepEnd ==
  /\ sweep.at = "scan"
  /\ StaleAt = {}
  /\ sweep' = SweepIdle
  /\ UNCHANGED <<backlogVars, assign, held, pm, faults>>

\* The next stale item is put back at once when the lock is free ...
SweepTake ==
  /\ sweep.at = "scan"
  /\ StaleAt # {}
  /\ MarkPending("sweep", items[Min(StaleAt)])
  /\ sweep' = [sweep EXCEPT !.at = "clear", !.pos = Min(StaleAt),
                            !.item = items[Min(StaleAt)]]
  /\ UNCHANGED <<assign, held, pm, faults>>

\* ... and otherwise when mark_pending gets it: the item is not looked at
\* again by then.
SweepWait ==
  /\ sweep.at = "scan"
  /\ StaleAt # {}
  /\ lock # NoTask
  /\ sweep' = [sweep EXCEPT !.at = "mark", !.pos = Min(StaleAt),
                            !.item = items[Min(StaleAt)]]
  /\ UNCHANGED <<backlogVars, assign, held, pm, faults>>

SweepMark ==
  /\ sweep.at = "mark"
  /\ MarkPending("sweep", sweep.item)
  /\ sweep' = [sweep EXCEPT !.at = "clear"]
  /\ UNCHANGED <<assign, held, pm, faults>>

\* The record to delete is named by assigned_to as it is now.
SweptRecords == [a \in Agents |-> IF a = owner[sweep.item] THEN NoItem ELSE assign[a]]

SweepClear ==
  /\ sweep.at = "clear"
  /\ lock # "sweep"
  /\ assign' = SweptRecords
  /\ sweep' = [sweep EXCEPT !.at = "scan", !.pos = @ + 1, !.item = NoItem]
  /\ UNCHANGED <<backlogVars, held, pm, faults>>

\* delete() raises: the sweep ends.
SweepRaises ==
  /\ sweep.at = "clear"
  /\ lock # "sweep"
  /\ assign' \in {SweptRecords, assign}
  /\ sweep' = SweepIdle
  /\ faults' = faults \cup {"crash"}
  /\ UNCHANGED <<backlogVars, held, pm>>

-----------------------------------------------------------------------------
\* A write returns, or raises and ends the operation that made it.
WriteReturns(t) == Persist(t) /\ UNCHANGED stateVars

WriteRaises(t) ==
  /\ PersistFails(t)
  /\ pm' = IF t = "pm" THEN PmIdle ELSE pm
  /\ sweep' = IF t = "sweep" THEN SweepIdle ELSE sweep
  /\ faults' = faults \cup {"crash"}
  /\ UNCHANGED <<assign, held>>

Crash ==
  /\ Restart
  /\ pm' = PmIdle
  /\ sweep' = SweepIdle
  /\ faults' = faults \cup {"crash"}
  /\ UNCHANGED <<assign, held>>

Next ==
  \/ \E a \in Agents :
       \/ RequestAssignment(a)
       \/ \E i \in Items : TaskCompleted(a, i) \/ TaskFailed(a, i)
  \/ ClearAssignment \/ ClearRaises
  \/ Claim \/ NothingToClaim \/ RecordAssignment \/ RecordRaises
  \/ \E active \in SUBSET Agents : SweepStart(active)
  \/ SweepEnd \/ SweepTake \/ SweepWait \/ SweepMark \/ SweepClear \/ SweepRaises
  \/ Edit("edit") /\ UNCHANGED stateVars
  \/ \E t \in Tasks : WriteReturns(t) \/ WriteRaises(t)
  \/ Crash

Spec == Init /\ [][Next]_vars
-----------------------------------------------------------------------------
(* Properties.                                                             *)

Settled == pm = PmIdle /\ sweep = SweepIdle /\ lock = NoTask

\* "PM's state remains consistent": between operations, a stored assignment
\* names an item that the backlog assigns to that agent (it may have been
\* cancelled since), although the two are written by separate commits, as
\* long as no write has failed, reassign_stale() has not been called and
\* agents report only what they hold.
RecordsMatch ==
  Settled /\ faults = {} => \A a \in Agents : assign[a] # NoItem =>
    /\ owner[assign[a]] = a
    /\ status[assign[a]] \in {"assigned", "cancelled"}

\* Two agents never work on the same item, even across a crash of the PM
\* between the claim, its write and the record, after failed writes and
\* mistaken reports of completion, as long as neither reassign_stale() nor a
\* "[Task Failed]" from somebody else has taken an item away from its agent.
ExclusiveWork ==
  faults \cap {"sweep", "returned"} = {} =>
    \A a, b \in Agents : a # b => held[a] \cap held[b] = {}

\* Finished work is not done again: a completion that has been stored is not
\* undone, by a crash, a failed write, a late failure report or a new claim,
\* as long as agents report what they hold and no sweep runs.  (mark_pending
\* and reassign_stale do not look at the status they overwrite: with a sweep
\* that has waited for the lock, or a mistaken report, it is undone.)
CompletionStays ==
  [][faults' \subseteq {"crash"} =>
       \A i \in Items : disk.status[i] = "completed" =>
         disk'.status[i] \in {"completed", "cancelled"}]_vars
=============================================================================
