------------------------------ MODULE Company -------------------------------
(***************************************************************************)
(* CompanyRoot as the root of the system (supervisor/company_root.py): its *)
(* start and stop, its projects (project_supervisor.py, supervisor.py),    *)
(* the watch on the Claude API (resilience/degraded_mode.py) with its      *)
(* alerts (daemon/runtime_api.py), and the wake schedules (scheduler.py)   *)
(* in their SQLite store (shared/memory_store.py).  The channel to each    *)
(* agent is the subject of module CompanyRoot; here an agent is the state  *)
(* of its handle.                                                          *)
(*                                                                         *)
(* The health check and the data directory are optional arguments of       *)
(* CompanyRoot; conf is the choice made, and whether projects are added.   *)
(* A schedule is its next wake, a number of intervals, or 0 when there is  *)
(* none.                                                                   *)
(***************************************************************************)
EXTENDS Integers, Sequences, FiniteSets

CONSTANTS
  Agents,
  Sleepers,   \* those whose container may report that it sleeps
  Projects,
  Configs,    \* choices of conf
  MaxNow,     \* bound of the clock, in wake intervals
  MaxCalls    \* bound of the schedule calls under way

ASSUME CompanyAssumption ==
  /\ Configs \subseteq SUBSET {"health", "data", "projects"}
  /\ Sleepers \subseteq Agents
  /\ MaxNow \in Nat /\ MaxCalls \in Nat
  /\ "loop" \notin Agents

VARIABLES
  conf,
  phase,      \* CompanyRoot.start() and stop()
  handles,    \* _company_agents: handle.state, or "none"
  stopq,      \* the handles stop() still has to stop
  projects,   \* _projects
  api,        \* the Claude API is reachable
  loop,       \* where DegradedModeManager._check_loop is
  mode, fails, succs,
  results,    \* history: the last three results recorded, oldest first
  now,
  mem,        \* Scheduler._schedules
  sched,      \* Scheduler.run: where it is, due entries left, its `now`
  at,         \* where each user of the store is in MemoryStore.set
  queue,      \* calls queued for the SQLite thread
  open,       \* the store is open
  table,      \* the row as this connection sees it
  stored,     \* the row as committed
  acked,      \* history: agents whose add_schedule returned, not removed since
  rolled,     \* history: callers whose statement was rolled back with another's
  unsaved     \* history: a call failed after the last statement was executed

rootVars == <<conf, phase, handles, stopq, projects>>
healthVars == <<api, loop, mode, fails, succs, results>>
schedVars == <<mem, sched>>
history == <<acked, rolled, unsaved>>
dbVars == <<at, queue, open, table, stored, history>>
vars == <<rootVars, healthVars, now, schedVars, dbVars>>

FailureThreshold == 3
RecoveryThreshold == 2
Loop == "loop"
Users == Agents \cup {Loop}
Schedules == [Agents -> 0 .. MaxNow + 1]
NoSchedules == [a \in Agents |-> 0]
Idle == [u \in Users |-> "idle"]
NoResults == <<"none", "none", "none">>

\* CompanyRoot.__init__, on a machine where nothing has run yet.
NoWatch == fails = 0 /\ succs = 0 /\ results = NoResults

Init ==
  /\ conf \in Configs
  /\ phase = "off" /\ stopq = {} /\ projects = {}
  /\ handles = [a \in Agents |-> "none"]
  /\ api = TRUE /\ loop = "off" /\ mode = "normal" /\ NoWatch
  /\ now = 0
  /\ mem = NoSchedules /\ sched = [at |-> "off", todo |-> {}, now |-> 0]
  /\ at = Idle /\ queue = <<>> /\ open = FALSE
  /\ table = NoSchedules /\ stored = NoSchedules
  /\ acked = {} /\ rolled = {} /\ unsaved = FALSE

-----------------------------------------------------------------------------
(* start(): surviving workers are reconnected, or lost; the watch starts;  *)
(* the store is opened and the schedules are loaded.  No caller is served  *)
(* before it returns.                                                      *)

StartWatch ==
  /\ loop' = IF "health" \in conf THEN "check" ELSE "off"
  /\ mode' = "normal" /\ fails' = 0 /\ succs' = 0 /\ results' = NoResults
  /\ UNCHANGED api

Load ==
  IF "data" \in conf
  THEN /\ open' = TRUE
       /\ table' = stored
       /\ mem' = stored
       /\ sched' = [at |-> "sleep", todo |-> {}, now |-> 0]
       /\ unsaved' = FALSE
  ELSE UNCHANGED <<open, table, schedVars, unsaved>>

Start ==
  /\ phase = "off"
  /\ phase' = "running"
  /\ handles' \in [Agents -> {"none", "awake"}]
  /\ StartWatch
  /\ Load
  /\ UNCHANGED <<conf, stopq, projects, now, at, queue, stored, acked, rolled>>

-----------------------------------------------------------------------------
(* Agents and projects.  hire() and dismiss() are steps of CompanyRoot.    *)

Serving == phase \in {"running", "stop-sched", "stop-mem", "stop-agents"}

\* The socket server still listens while stop() runs; degraded mode is not
\* looked at.
Hire(a) ==
  /\ Serving /\ handles[a] = "none"
  /\ handles' = [handles EXCEPT ![a] = "awake"]
  /\ UNCHANGED <<conf, phase, stopq, projects, healthVars, now, schedVars, dbVars>>

\* A health report arrives; the worker's container slept or woke by itself.
Report(a, s) ==
  /\ Serving /\ handles[a] # "none"
  /\ s = "sleeping" => a \in Sleepers
  /\ handles' = [handles EXCEPT ![a] = s]
  /\ UNCHANGED <<conf, phase, stopq, projects, healthVars, now, schedVars, dbVars>>

Dismiss(a) ==
  /\ Serving /\ handles[a] # "none"
  /\ handles' = [handles EXCEPT ![a] = "none"]
  /\ UNCHANGED <<conf, phase, stopq, projects, healthVars, now, schedVars, dbVars>>

\* A raise leaves everything as it was: in degraded mode, and whenever the
\* project has agents, for _start_child always raises.
AddProject(p) ==
  /\ Serving /\ "projects" \in conf
  /\ ~("health" \in conf /\ mode = "degraded")
  /\ projects' = projects \cup {p}
  /\ UNCHANGED <<conf, phase, handles, stopq, healthVars, now, schedVars, dbVars>>

RemoveProject(p) ==
  /\ Serving /\ p \in projects
  /\ projects' = projects \ {p}
  /\ UNCHANGED <<conf, phase, handles, stopq, healthVars, now, schedVars, dbVars>>

-----------------------------------------------------------------------------
(* DegradedModeManager._check_loop.                                        *)

ApiChanges ==
  /\ "health" \in conf
  /\ api' = ~api
  /\ UNCHANGED <<rootVars, loop, mode, fails, succs, results, now, schedVars, dbVars>>

Remember(r) == <<results[2], results[3], r>>

\* Mutant: a success does not end a run of failures.
RecordSuccess_KeepsFailures ==
  /\ IF mode = "degraded" /\ succs + 1 >= RecoveryThreshold
     THEN mode' = "normal" /\ succs' = 0
     ELSE /\ succs' = IF succs < RecoveryThreshold THEN succs + 1 ELSE succs
          /\ UNCHANGED mode
  /\ UNCHANGED fails

\* Mutant: the counter of successes starts anew at every check.
RecordSuccess_CountsOne == fails' = 0 /\ succs' = 1 /\ UNCHANGED mode

\* _record_result(True).  The counter is unbounded in the code; above the
\* threshold its value makes no difference.
RecordSuccess ==
  /\ fails' = 0
  /\ IF mode = "degraded" /\ succs + 1 >= RecoveryThreshold
     THEN mode' = "normal" /\ succs' = 0
     ELSE /\ succs' = IF succs < RecoveryThreshold THEN succs + 1 ELSE succs
          /\ UNCHANGED mode

\* _record_result(False).  In degraded mode the failures are counted for
\* nothing: the success that starts a recovery clears them.
RecordFailure ==
  /\ succs' = 0
  /\ IF mode = "normal" /\ fails + 1 >= FailureThreshold
     THEN mode' = "degraded" /\ fails' = 0
     ELSE /\ fails' = IF mode = "normal" THEN fails + 1 ELSE fails
          /\ UNCHANGED mode

RecordResult ==
  /\ results' = Remember(IF api THEN "up" ELSE "down")
  /\ IF api THEN RecordSuccess ELSE RecordFailure

\* A change of mode is announced before the loop sleeps.
CheckDone ==
  /\ loop = "check"
  /\ RecordResult
  /\ loop' = IF mode' # mode THEN "alert" ELSE "sleep"
  /\ UNCHANGED <<rootVars, api, now, schedVars, dbVars>>

\* record_operational_failure and record_operational_success: somebody reports
\* what became of a call to the API, at any time.  The alert is sent, or
\* raises, in the coroutine of the caller.
Operational ==
  /\ Serving /\ "health" \in conf
  /\ RecordResult
  /\ UNCHANGED <<rootVars, loop, api, now, schedVars, dbVars>>

\* _on_degraded and _on_recovered: the message is sent, or there is no
\* channel to send it to.
AlertSent ==
  /\ loop = "alert"
  /\ loop' = "sleep"
  /\ UNCHANGED <<rootVars, api, mode, fails, succs, results, now, schedVars, dbVars>>

\* channel.send raises: nothing catches it, the task ends.
AlertRaises ==
  /\ loop = "alert"
  /\ loop' = "dead"
  /\ UNCHANGED <<rootVars, api, mode, fails, succs, results, now, schedVars, dbVars>>

CheckAgain ==
  /\ loop = "sleep"
  /\ loop' = "check"
  /\ UNCHANGED <<rootVars, api, mode, fails, succs, results, now, schedVars, dbVars>>

-----------------------------------------------------------------------------
(* MemoryStore.set: INSERT OR REPLACE, then commit, each queued for the    *)
(* thread of the connection and awaited by the caller.                     *)

Write(u, op, row) == [kind |-> "write", user |-> u, op |-> op, row |-> row]
CloseCall == [kind |-> "close", user |-> Loop, op |-> "close", row |-> NoSchedules]

\* _persist: the schedules as they are now.  A closed store raises, and what
\* was changed in memory stays.
Persist(u, op, schedules) ==
  IF open
  THEN /\ queue' = Append(queue, Write(u, op, schedules))
       /\ at' = [at EXCEPT ![u] = "write"]
  ELSE UNCHANGED <<queue, at>>

NextCall(kind) == queue # <<>> /\ Head(queue).kind = kind

\* What set() returns to: add_schedule, remove_schedule, or the pass.
Returned(call) ==
  /\ at' = [at EXCEPT ![call.user] = "idle"]
  /\ acked' = IF call.op = "add" /\ call.user \notin rolled
              THEN acked \cup {call.user} ELSE acked
  /\ rolled' = rolled \ {call.user}
  /\ sched' = IF at[call.user] # "idle" /\ call.user = Loop
              THEN [sched EXCEPT !.at = "pass"] ELSE sched

\* Mutant: set() returns when the statement has been executed.
WriteDone_NoCommit ==
  /\ NextCall("write")
  /\ table' = Head(queue).row
  /\ queue' = Tail(queue)
  /\ Returned(Head(queue))
  /\ UNCHANGED <<rootVars, healthVars, now, mem, open, stored, unsaved>>

\* The row is replaced; the caller, unless it was cancelled, asks for the
\* commit.
WriteDone ==
  /\ NextCall("write")
  /\ table' = Head(queue).row
  /\ LET u == Head(queue).user IN
     IF at[u] = "write"
     THEN /\ queue' = Append(Tail(queue), [Head(queue) EXCEPT !.kind = "commit"])
          /\ at' = [at EXCEPT ![u] = "commit"]
     ELSE queue' = Tail(queue) /\ UNCHANGED at
  /\ unsaved' = FALSE
  /\ UNCHANGED <<rootVars, healthVars, now, schedVars, open, stored, acked, rolled>>

CommitDone ==
  /\ NextCall("commit")
  /\ stored' = table
  /\ queue' = Tail(queue)
  /\ Returned(Head(queue))
  /\ UNCHANGED <<rootVars, healthVars, now, mem, open, table, unsaved>>

\* A statement or a commit raises: the disk is full, the file is locked.  With
\* some errors SQLite rolls the transaction back, and with it what statements
\* of other callers had written.  The error ends a pass, and is logged.
CallFails(rollback) ==
  LET u == Head(queue).user IN
  /\ NextCall("write") \/ NextCall("commit")
  /\ queue' = Tail(queue)
  /\ at' = [at EXCEPT ![u] = "idle"]
  /\ sched' = IF at[u] # "idle" /\ u = Loop
              THEN [sched EXCEPT !.at = "sleep", !.todo = {}] ELSE sched
  /\ IF rollback
     THEN /\ table' = stored
          /\ rolled' = (rolled \cup {v \in Users : at[v] = "commit"}) \ {u}
     ELSE rolled' = rolled \ {u} /\ UNCHANGED table
  /\ unsaved' = TRUE
  /\ UNCHANGED <<rootVars, healthVars, now, mem, open, stored, acked>>

-----------------------------------------------------------------------------
(* Scheduler.  add_schedule and remove_schedule are called through         *)
(* CompanyRoot, one call per agent at a time.                              *)

Tick ==
  /\ "data" \in conf /\ now < MaxNow
  /\ now' = now + 1
  /\ UNCHANGED <<rootVars, healthVars, schedVars, dbVars>>

Callable(a) ==
  /\ Serving /\ "data" \in conf
  /\ at[a] = "idle"
  /\ Cardinality({b \in Agents : at[b] # "idle"}) < MaxCalls

\* Mutant: what is persisted is taken before the entry is changed.
AddSchedule_PersistsFirst(a) ==
  /\ Callable(a)
  /\ mem' = [mem EXCEPT ![a] = now + 1]
  /\ Persist(a, "add", mem)
  /\ UNCHANGED <<rootVars, healthVars, now, sched, open, table, stored, history>>

AddSchedule(a) ==
  /\ Callable(a)
  /\ mem' = [mem EXCEPT ![a] = now + 1]
  /\ Persist(a, "add", mem')
  /\ UNCHANGED <<rootVars, healthVars, now, sched, open, table, stored, history>>

RemoveSchedule(a) ==
  /\ Callable(a)
  /\ mem' = [mem EXCEPT ![a] = 0]
  /\ Persist(a, "remove", mem')
  /\ acked' = acked \ {a}
  /\ UNCHANGED <<rootVars, healthVars, now, sched, open, table, stored, rolled, unsaved>>

\* _check_and_wake begins: the entries are listed, and the time is taken.
BeginPass ==
  /\ sched.at = "sleep"
  /\ sched' = [at |-> "pass", todo |-> {a \in Agents : mem[a] # 0 /\ mem[a] <= now},
               now |-> now]
  /\ UNCHANGED <<rootVars, healthVars, now, mem, dbVars>>

\* Mutant: the AttributeError of an agent that sleeps ends the task.
PassAgent_Uncaught ==
  /\ sched.at = "pass"
  /\ IF \E a \in sched.todo : handles[a] = "sleeping"
     THEN sched' = [sched EXCEPT !.at = "off"] /\ UNCHANGED <<mem, queue, at>>
     ELSE \E a \in sched.todo :
       /\ handles[a] = "awake"
       /\ mem' = [mem EXCEPT ![a] = sched.now + 1]
       /\ sched' = [sched EXCEPT !.at = "persist", !.todo = @ \ {a}]
       /\ Persist(Loop, "pass", mem')
  /\ UNCHANGED <<rootVars, healthVars, now, open, table, stored, history>>

\* The pass goes on to the next agent that is awake, whose wake is moved.
\* An agent without a handle is skipped; so is one that sleeps, for
\* AgentHandle has no wake(), and the AttributeError is logged.
PassAgent ==
  /\ sched.at = "pass"
  /\ \E a \in sched.todo :
       /\ handles[a] = "awake"
       /\ mem' = [mem EXCEPT ![a] = sched.now + 1]
       /\ sched' = [sched EXCEPT !.at = "persist", !.todo = @ \ {a}]
       /\ Persist(Loop, "pass", mem')
  /\ UNCHANGED <<rootVars, healthVars, now, open, table, stored, history>>

EndPass ==
  /\ sched.at = "pass"
  /\ \A a \in sched.todo : handles[a] # "awake"
  /\ sched' = [sched EXCEPT !.at = "sleep", !.todo = {}]
  /\ UNCHANGED <<rootVars, healthVars, now, mem, dbVars>>

-----------------------------------------------------------------------------
(* stop(): the watch, the scheduler, the store, the agents, the projects.  *)

\* Awaiting the cancelled task raises what ended it, and stop() with it.
StopWatch ==
  /\ phase = "running"
  /\ phase' = IF loop = "dead" THEN "failed" ELSE "stop-sched"
  /\ loop' = IF loop = "dead" THEN loop ELSE "off"
  /\ UNCHANGED <<conf, handles, stopq, projects, api, mode, fails, succs, results,
                 now, schedVars, dbVars>>

Handled == {a \in Agents : handles[a] # "none"}

\* The task is cancelled, in the middle of a pass too: a call it has queued
\* is made, and no commit follows.  The close of the store is queued.
StopScheduler ==
  /\ phase = "stop-sched"
  /\ sched' = [sched EXCEPT !.at = "off", !.todo = {}]
  /\ IF open
     THEN /\ phase' = "stop-mem"
          /\ queue' = Append(queue, CloseCall)
          /\ at' = [at EXCEPT ![Loop] = "idle"]
          /\ UNCHANGED stopq
     ELSE phase' = "stop-agents" /\ stopq' = Handled /\ UNCHANGED <<queue, at>>
  /\ UNCHANGED <<conf, handles, projects, healthVars, now, mem, open, table,
                 stored, history>>

\* What was not committed is rolled back; later calls raise.
CloseDone ==
  /\ NextCall("close")
  /\ open' = FALSE
  /\ table' = stored
  /\ queue' = <<>>
  /\ at' = Idle /\ rolled' = {} /\ unsaved' = FALSE
  /\ phase' = "stop-agents"
  /\ stopq' = Handled
  /\ UNCHANGED <<conf, handles, projects, healthVars, now, schedVars, stored, acked>>

\* Mutant: the agents that are left are looked up in the table, from which
\* none is removed.
StopAgent_LiveTable(a) ==
  /\ phase = "stop-agents" /\ a \in stopq
  /\ stopq' = Handled \ {a}
  /\ UNCHANGED <<conf, phase, handles, projects, healthVars, now, schedVars, dbVars>>

\* stop_process() ends the worker, or raises, which is logged.
StopAgent(a) ==
  /\ phase = "stop-agents" /\ a \in stopq
  /\ stopq' = stopq \ {a}
  /\ UNCHANGED <<conf, phase, handles, projects, healthVars, now, schedVars, dbVars>>

\* _company_agents.clear(), whoever was hired meanwhile; projects have no
\* children to stop.
StopEnds ==
  /\ phase = "stop-agents" /\ stopq = {}
  /\ handles' = [a \in Agents |-> "none"]
  /\ phase' = "stopped"
  /\ UNCHANGED <<conf, stopq, projects, healthVars, now, schedVars, dbVars>>

\* The process exits after stop(), or dies at any time.
ProcessEnds ==
  /\ phase # "off"
  /\ phase' = "off" /\ stopq' = {} /\ projects' = {}
  /\ handles' = [a \in Agents |-> "none"]
  /\ loop' = "off" /\ mode' = "normal" /\ fails' = 0 /\ succs' = 0 /\ results' = NoResults
  /\ mem' = NoSchedules /\ sched' = [at |-> "off", todo |-> {}, now |-> 0]
  /\ at' = Idle /\ queue' = <<>> /\ open' = FALSE /\ table' = stored
  /\ rolled' = {} /\ unsaved' = FALSE
  /\ UNCHANGED <<conf, api, now, stored, acked>>

-----------------------------------------------------------------------------
Watch == CheckDone \/ AlertSent \/ AlertRaises \/ CheckAgain
Db == WriteDone \/ CommitDone \/ CloseDone \/ \E r \in BOOLEAN : CallFails(r)
Scheduler == BeginPass \/ PassAgent \/ EndPass

Stop == StopScheduler \/ StopEnds \/ \E a \in Agents : StopAgent(a)

Next ==
  \/ Start \/ ProcessEnds \/ StopWatch \/ Stop
  \/ ApiChanges \/ Watch \/ Operational
  \/ Tick \/ Db \/ Scheduler
  \/ \E a \in Agents :
       \/ Hire(a) \/ Dismiss(a)
       \/ \E s \in {"awake", "sleeping"} : Report(a, s)
       \/ AddSchedule(a) \/ RemoveSchedule(a)
  \/ \E p \in Projects : RemoveProject(p) \/ AddProject(p)

\* The event loop and the thread of the connection run what is ready; sleep()
\* and stop_process() end.
Fairness ==
  /\ WF_vars(Watch) /\ WF_vars(Db) /\ WF_vars(Scheduler) /\ WF_vars(Stop)

Spec == Init /\ [][Next]_vars /\ Fairness
-----------------------------------------------------------------------------
(* Properties.                                                             *)

\* "Schedule entries are persisted [...] so they survive bot restarts": a
\* schedule whose add_schedule has returned, and that nobody has asked to
\* remove, is in the committed row, wherever the process dies, whatever calls
\* fail and however the passes of the scheduler and other calls overlap.  One
\* case is left out (rolled): the calls share a transaction, so that the failure
\* of another can take the statement back before its own commit succeeds.
AckedSurvives == \A a \in acked : stored[a] # 0

\* When no call is under way the committed row is what the scheduler holds:
\* the last of several overlapping writes is also the latest, and a call that
\* failed, which leaves memory ahead of the row, is made good by the next
\* statement of any caller.
StoredIsCurrent == (open /\ queue = <<>> /\ ~unsaved) => stored = mem

\* "Consecutive failures before entering degraded mode": only after three
\* results in a row that were failures, of the checks and of reported calls
\* together, and only after two that were successes does it end.
Consecutive ==
  [][/\ (mode = "normal" /\ mode' = "degraded") =>
          results' = <<"down", "down", "down">>
     /\ (mode = "degraded" /\ mode' = "normal" /\ phase' # "off") =>
          results'[2] = "up" /\ results'[3] = "up"]_vars

Overdue(a) == phase = "running" /\ handles[a] = "awake" /\ mem[a] # 0 /\ mem[a] <= now

\* A schedule that is due for an agent that is awake is moved on: neither a
\* sleeping agent, a missing one nor calls that change the schedules during a
\* pass keep the scheduler from it.
ScheduleMoves == \A a \in Agents : []<>~Overdue(a)

Unwell == phase = "running" /\ mode = "degraded" /\ api

\* While the watch is alive a system whose API is back leaves degraded mode.
RecoversWhileWatched == []<>~(Unwell /\ loop # "dead")

\* "Will auto-recover." (the alert of _on_degraded and the error of
\* add_project): a system whose API is back leaves degraded mode.
AutoRecovers == []<>~Unwell

\* stop() ends, with or without an error, and waits for no caller.
StopReturns == []<>(phase \notin {"stop-sched", "stop-mem", "stop-agents"})
=============================================================================
