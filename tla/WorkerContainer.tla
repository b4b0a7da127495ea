-------------------------- MODULE WorkerContainer --------------------------
(***************************************************************************)
(* The container inside one worker process: its lifecycle state machine,   *)
(* its three kinds of handler, its MemoryStore and, for a PM, the stuck    *)
(* detector.  Translated from vco_worker/container/container.py,           *)
(* state_machine.py, memory_store.py, agent/*_lifecycle.py and             *)
(* handler/{session,transient,conversation}.py.                            *)
(*                                                                         *)
(* Callers are the connection handlers of module WorkerServer: one after a *)
(* reconnection may run beside the one before it.  A caller's step ends    *)
(* where its coroutine suspends.  begin_stop and finish_stop follow each   *)
(* other without a suspension, so "stopping" is never seen.                *)
(*                                                                         *)
(* Left out: sleep, wake, block, unblock, error and recover, the GSD       *)
(* phases, _pending_review and handle_signal (no code of the worker calls  *)
(* or sets them), so the task queue only grows; the project state of a PM  *)
(* (module ProjectState); the conversation (module ConversationSession);   *)
(* the sub-state a continuous or task agent's session does not have.       *)
(***************************************************************************)
EXTENDS Naturals, Sequences

CONSTANTS
  Callers,     \* connection handlers that use the container
  NoCaller,    \* a free lock
  Watched,     \* agents whose progress a PM is told of
  Work,        \* assignments a GSD agent is told of
  NoWork       \* no assignment

ASSUME ContainerAssumption == NoCaller \notin Callers /\ NoWork \notin Work

VARIABLES
  kind,        \* config.handler_type
  life,        \* outer state of the lifecycle
  inner,       \* its sub-state
  memory,      \* the database connection
  jobs,        \* what its thread has to do, in order: [caller, what, value]
  stored,      \* the database: latest checkpoint and current_assignment
  assignment,  \* _current_assignment
  unsaved,     \* history: the last write of an assignment raised
  lock,        \* _checkpoint_lock
  at,          \* where each caller is
  age,         \* _agent_state_timestamps: against the stuck threshold
  flagged,     \* _stuck_detected_agents
  detector     \* _run_stuck_detector: [at, todo]

fsmVars == <<kind, life, inner>>
storeVars == <<memory, jobs, stored, assignment, unsaved, lock>>
watchVars == <<age, flagged, detector>>
vars == <<fsmVars, storeVars, at, watchVars>>

Kinds == {"session", "transient", "conversation"}
EventDriven == kind \in {"transient", "conversation"}

\* "failed": handle_inbound raised; "raised": stop() raised.
At == {"none", "handling", "saving", "locking", "checkpointing", "cancelling",
       "closing", "done", "failed", "raised"}

Job == [caller : Callers, what : {"assign", "checkpoint", "close"},
        value : Work \cup {NoWork, "running", "stopped"}]

NoDetector == [at |-> "none", todo |-> {}]

TypeOK ==
  /\ kind \in Kinds
  /\ life \in {"creating", "running", "stopped"}
  /\ inner \in {"none", "idle", "listening", "processing"}
  /\ memory \in {"closed", "open"}
  /\ jobs \in Seq(Job)
  /\ stored \in [checkpoint : {"none", "running", "stopped"}, work : Work \cup {NoWork}]
  /\ assignment \in Work \cup {NoWork}
  /\ unsaved \in BOOLEAN
  /\ lock \in Callers \cup {NoCaller}
  /\ at \in [Callers -> At]
  /\ age \in [Watched -> {"unknown", "fresh", "late"}]
  /\ flagged \in SUBSET Watched
  /\ detector \in [at : {"none", "asleep", "sending", "cancelled", "dead"}, todo : SUBSET Watched]

Init ==
  /\ kind \in Kinds
  /\ life = "creating" /\ inner = "none"
  /\ memory = "closed" /\ jobs = <<>>
  /\ stored = [checkpoint |-> "none", work |-> NoWork]
  /\ assignment = NoWork /\ unsaved = FALSE /\ lock = NoCaller
  /\ at = [c \in Callers |-> "none"]
  /\ age = [a \in Watched |-> "unknown"] /\ flagged = {}
  /\ detector = NoDetector

Goto(c, where) == at' = [at EXCEPT ![c] = where]

-----------------------------------------------------------------------------
(* bootstrap_container: nobody else has the container before it returns.   *)

FirstInner == IF kind = "session" THEN "idle" ELSE "listening"

\* start(): the lifecycle, memory.open() and the handler's on_start, which
\* for a session restores the configuration and the assignment.
Start ==
  /\ life = "creating"
  /\ memory' = "open"
  /\ IF kind = "session" /\ stored.checkpoint # "none"
       THEN /\ life' = stored.checkpoint
            /\ inner' = IF stored.checkpoint = "running" THEN "idle" ELSE "none"
       ELSE life' = "running" /\ inner' = FirstInner
  /\ assignment' = IF kind = "session" THEN stored.work ELSE NoWork
  /\ detector' = IF kind = "transient" THEN [NoDetector EXCEPT !.at = "asleep"]
                                       ELSE NoDetector
  /\ UNCHANGED <<kind, jobs, stored, unsaved, lock, at, age, flagged>>

\* The worker process dies, or exits after a stop; a later start frame
\* builds a new container on the same database.
Restart ==
  /\ life # "creating"
  /\ life' = "creating" /\ inner' = "none"
  /\ memory' = "closed" /\ jobs' = <<>>
  /\ assignment' = NoWork /\ unsaved' = FALSE /\ lock' = NoCaller
  /\ at' = [c \in Callers |-> "none"]
  /\ age' = [a \in Watched |-> "unknown"] /\ flagged' = {}
  /\ detector' = NoDetector
  /\ UNCHANGED <<kind, stored>>

-----------------------------------------------------------------------------
(* handle_inbound.  Event-driven handlers wrap it in start_processing and  *)
(* done_processing; a transition that is not allowed raises.               *)

Begin(c) ==
  /\ EventDriven /\ at[c] = "none" /\ life # "creating"
  /\ IF life = "running" /\ inner = "listening"
       THEN inner' = "processing" /\ Goto(c, "handling")
       ELSE UNCHANGED inner /\ Goto(c, "failed")
  /\ UNCHANGED <<kind, life, storeVars, watchVars>>

\* Mutant: done_processing is not in the finally clause.
Finish_NoFinally(c) ==
  /\ at[c] = "handling"
  /\ \/ /\ life = "running" /\ inner' = "listening" /\ Goto(c, "none")
     \/ UNCHANGED inner /\ Goto(c, "failed")
  /\ UNCHANGED <<kind, life, storeVars, watchVars>>

\* The body returns or raises; done_processing runs in both cases.
Finish(c) ==
  /\ at[c] = "handling"
  /\ IF life = "running"
       THEN inner' = "listening" /\ (Goto(c, "none") \/ Goto(c, "failed"))
       ELSE UNCHANGED inner /\ Goto(c, "failed")
  /\ UNCHANGED <<kind, life, storeVars, watchVars>>

Submit(c, what, value) ==
  jobs' = Append(jobs, [caller |-> c, what |-> what, value |-> value])

\* Mutant: the assignment is kept in memory only.
Assigned_NotStored(c, w) ==
  /\ kind = "session" /\ at[c] = "none" /\ life # "creating"
  /\ assignment' = w
  /\ UNCHANGED <<fsmVars, memory, jobs, stored, unsaved, lock, at, watchVars>>

\* A session's "[Task Assigned]": memory.set queues the write and waits.
Assigned(c, w) ==
  /\ kind = "session" /\ at[c] = "none" /\ life # "creating"
  /\ assignment' = w
  /\ IF memory = "open" THEN Submit(c, "assign", w) /\ Goto(c, "saving")
                        ELSE UNCHANGED jobs /\ Goto(c, "failed")
  /\ UNCHANGED <<fsmVars, memory, stored, unsaved, lock, watchVars>>

\* A PM's "[Phase Complete]" and "[Health Change]": nothing suspends between
\* start_processing and done_processing.
Noted(c, a) ==
  /\ kind = "transient" /\ at[c] = "none"
  /\ life = "running" /\ inner = "listening"
  /\ age' = [age EXCEPT ![a] = "fresh"]

PhaseComplete(c, a) ==
  /\ Noted(c, a)
  /\ flagged' = flagged \ {a}
  /\ UNCHANGED <<fsmVars, storeVars, at, detector>>

HealthChange(c, a) ==
  /\ Noted(c, a)
  /\ UNCHANGED <<fsmVars, storeVars, at, flagged, detector>>

-----------------------------------------------------------------------------
(* stop(): on_stop of the handler, the lifecycle, then memory.close().     *)

\* The part after on_stop.  A second stop() finds no transition and raises.
FinishStop(c, queue) ==
  IF life = "running"
    THEN /\ life' = "stopped" /\ inner' = "none"
         /\ jobs' = Append(queue, [caller |-> c, what |-> "close", value |-> NoWork])
         /\ Goto(c, "closing")
    ELSE jobs' = queue /\ Goto(c, "raised") /\ UNCHANGED <<life, inner>>

StopConversation(c) ==
  /\ kind = "conversation" /\ at[c] = "none" /\ life # "creating"
  /\ FinishStop(c, jobs)
  /\ UNCHANGED <<kind, memory, stored, assignment, unsaved, lock, watchVars>>

\* A PM cancels the detector and waits for its end.  A detector that died
\* of an error hands that error to stop().
StopTransient(c) ==
  /\ kind = "transient" /\ at[c] = "none" /\ life # "creating"
  /\ \/ detector.at = "none" /\ FinishStop(c, jobs) /\ UNCHANGED detector
     \/ /\ detector.at = "dead" /\ Goto(c, "raised")
        /\ UNCHANGED <<life, inner, jobs, detector>>
     \/ /\ detector.at \in {"asleep", "sending", "cancelled"}
        /\ detector' = [at |-> "cancelled", todo |-> {}]
        /\ Goto(c, "cancelling")
        /\ UNCHANGED <<life, inner, jobs>>
  /\ UNCHANGED <<kind, memory, stored, assignment, unsaved, lock, age, flagged>>

Cancelled(c) ==
  /\ at[c] = "cancelling"
  /\ detector' = NoDetector
  /\ FinishStop(c, jobs)
  /\ UNCHANGED <<kind, memory, stored, assignment, unsaved, lock, age, flagged>>

\* Mutant: the lifecycle stops before the handler's on_stop.
StopSession_FsmFirst(c) ==
  /\ kind = "session" /\ at[c] = "none" /\ life # "creating"
  /\ life' = "stopped"
  /\ Goto(c, "locking")
  /\ UNCHANGED <<kind, inner, storeVars, watchVars>>

\* A session writes a checkpoint under _checkpoint_lock.
StopSession(c) ==
  /\ kind = "session" /\ at[c] = "none" /\ life # "creating"
  /\ Goto(c, "locking")
  /\ UNCHANGED <<fsmVars, storeVars, watchVars>>

TakeLock(c) ==
  /\ at[c] = "locking"
  /\ lock = NoCaller
  /\ IF memory = "open"
       THEN lock' = c /\ Submit(c, "checkpoint", life) /\ Goto(c, "checkpointing")
       ELSE UNCHANGED <<lock, jobs>> /\ Goto(c, "raised")
  /\ UNCHANGED <<fsmVars, memory, stored, assignment, unsaved, watchVars>>

-----------------------------------------------------------------------------
(* The database thread: one job after the other, and the caller goes on.   *)

Job1 == Head(jobs)

NextJob(what) == jobs # <<>> /\ Job1.what = what

\* A write takes two jobs, the second one is the commit.  It needs the open
\* connection, and may raise all the same (database locked, disk full, or a
\* close() between the two): then nothing is stored.  That a commit which was
\* refused may be made good by the next one is left out.
Write(field) ==
  /\ memory = "open"
  /\ stored' = [stored EXCEPT ![field] = Job1.value]

AssignWritten ==
  /\ NextJob("assign")
  /\ \/ Write("work") /\ Goto(Job1.caller, "none") /\ unsaved' = FALSE
     \/ UNCHANGED stored /\ Goto(Job1.caller, "failed") /\ unsaved' = TRUE
  /\ jobs' = Tail(jobs)
  /\ UNCHANGED <<fsmVars, memory, assignment, lock, watchVars>>

\* Mutant: an error in the write leaves the lock taken.
CheckpointLost_KeepsLock ==
  /\ NextJob("checkpoint")
  /\ Goto(Job1.caller, "raised")
  /\ jobs' = Tail(jobs)
  /\ UNCHANGED <<fsmVars, memory, stored, assignment, unsaved, lock, watchVars>>

CheckpointLost ==
  /\ NextJob("checkpoint")
  /\ lock' = NoCaller
  /\ Goto(Job1.caller, "raised")
  /\ jobs' = Tail(jobs)
  /\ UNCHANGED <<fsmVars, memory, stored, assignment, unsaved, watchVars>>

\* on_stop returns, and stop() goes on.
CheckpointWritten ==
  /\ NextJob("checkpoint")
  /\ Write("checkpoint")
  /\ lock' = NoCaller
  /\ FinishStop(Job1.caller, Tail(jobs))
  /\ UNCHANGED <<kind, memory, assignment, unsaved, watchVars>>

Closed ==
  /\ NextJob("close")
  /\ memory' = "closed"
  /\ Goto(Job1.caller, "done")
  /\ jobs' = Tail(jobs)
  /\ UNCHANGED <<fsmVars, stored, assignment, unsaved, lock, watchVars>>

-----------------------------------------------------------------------------
(* _run_stuck_detector: a snapshot of the timestamps, then one report after *)
(* the other; each may have to wait for the head to read.                  *)

GrowOld(a) ==
  /\ age[a] = "fresh"
  /\ age' = [age EXCEPT ![a] = "late"]
  /\ UNCHANGED <<fsmVars, storeVars, at, flagged, detector>>

Late == {b \in Watched : age[b] = "late"}

Report(a, todo) ==
  /\ a \in todo \ flagged
  /\ flagged' = flagged \cup {a}
  /\ detector' = [at |-> "sending", todo |-> todo \ {a}]
  /\ UNCHANGED <<fsmVars, storeVars, at, age>>

Wake(a) == detector.at = "asleep" /\ Report(a, Late)

Continue(a) == detector.at = "sending" /\ Report(a, detector.todo)

Doze ==
  /\ detector.at = "sending" /\ detector.todo \subseteq flagged
  /\ detector' = [at |-> "asleep", todo |-> {}]
  /\ UNCHANGED <<fsmVars, storeVars, at, age, flagged>>

\* The connection is lost while send_report waits in drain(): nothing in the
\* loop catches the error, and the task is over.
DetectorDies ==
  /\ detector.at = "sending"
  /\ detector' = [at |-> "dead", todo |-> {}]
  /\ UNCHANGED <<fsmVars, storeVars, at, age, flagged>>

-----------------------------------------------------------------------------
CallerStep(c) ==
  \/ Begin(c) \/ Finish(c)
  \/ \E w \in Work : Assigned(c, w)
  \/ \E a \in Watched : PhaseComplete(c, a) \/ HealthChange(c, a)
  \/ StopConversation(c) \/ StopTransient(c) \/ Cancelled(c)
  \/ StopSession(c) \/ TakeLock(c)

JobStep == AssignWritten \/ CheckpointLost \/ CheckpointWritten \/ Closed

DetectorStep == Doze \/ DetectorDies \/ \E a \in Watched : Wake(a) \/ Continue(a)

Next ==
  \/ Start \/ Restart
  \/ \E c \in Callers : CallerStep(c)
  \/ JobStep
  \/ \E a \in Watched : GrowOld(a)
  \/ DetectorStep

\* The event loop resumes what can go on, and the database thread works.
Fairness ==
  /\ WF_vars(JobStep)
  /\ \A c \in Callers : WF_vars(TakeLock(c) \/ Cancelled(c))

Spec == Init /\ [][Next]_vars /\ Fairness
-----------------------------------------------------------------------------
(* Properties.                                                             *)

Handling == {c \in Callers : at[c] = "handling"}

\* "process them one at a time": the lifecycle says "processing" exactly
\* while one caller's message is being handled, however calls overlap and
\* whatever a handler raises (event_driven_lifecycle.py, handle_message).
OneAtATime ==
  /\ \A c, d \in Handling : c = d
  /\ life = "running" => (inner = "processing" <=> Handling # {})

\* A container never comes up stopped: what on_stop stores is a running
\* configuration, also when two stops overlap (session.py,
\* _checkpoint_phase against container.stop).
CheckpointRestartable == stored.checkpoint # "stopped"

\* Between database jobs, the assignment a restart would restore is the one
\* the running agent works on, however the writes of overlapping callers
\* fall out, unless the last one raised: _current_assignment is set before
\* memory.set, and nothing takes it back (session.py, "[Task Assigned]").
AssignmentStored ==
  kind = "session" /\ life = "running" /\ jobs = <<>> /\ ~unsaved
    => stored.work = assignment

\* A stop() that has begun comes to an end, one way or the other: nobody
\* waits for ever for _checkpoint_lock, the detector or the database.
StopEnds ==
  \A c \in Callers :
    at[c] \in {"locking", "checkpointing", "cancelling", "closing"}
      ~> at[c] \in {"done", "raised", "none"}
=============================================================================
