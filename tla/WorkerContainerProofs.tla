----------------------- MODULE WorkerContainerProofs -----------------------
(***************************************************************************)
(* One message at a time, checkpoints one can restart from, and an         *)
(* assignment that a restart restores, for any number of overlapping       *)
(* callers.                                                                *)
(***************************************************************************)
EXTENDS WorkerContainer, TLAPS

\* Nobody uses a container before bootstrap_container returns.
Unused == life = "creating" => jobs = <<>> /\ \A c \in Callers : at[c] = "none"

\* Only event-driven handlers process, only sessions write checkpoints.
HandlersProcess ==
  \A c \in Callers :
    /\ at[c] = "handling" => EventDriven
    /\ at[c] = "locking" => kind = "session"

\* An event-driven container has one job for the database: its close().
OnlyClose ==
  EventDriven /\ jobs # <<>> =>
    /\ life = "stopped" /\ Len(jobs) = 1
    /\ Job1.what = "close" /\ at[Job1.caller] = "closing"

\* A lifecycle that has stopped has its close() behind it or under way ...
StopCloses ==
  life = "stopped" =>
    memory = "closed" \/ \E i \in 1 .. Len(jobs) : jobs[i].what = "close"

\* ... so a checkpoint of a stopped lifecycle comes too late to be stored.
LateCheckpoint ==
  \A j \in 1 .. Len(jobs) : jobs[j].what = "checkpoint" /\ jobs[j].value = "stopped" =>
    memory = "closed" \/ \E i \in 1 .. j - 1 : jobs[i].what = "close"

\* What a job writes fits where it is written.
JobValues ==
  \A j \in 1 .. Len(jobs) :
    /\ jobs[j].what = "assign" => jobs[j].value \in Work
    /\ jobs[j].what = "checkpoint" => jobs[j].value \in {"running", "stopped"}

TypeInv == TypeOK /\ JobValues
ProcessInv == Unused /\ HandlersProcess /\ OnlyClose /\ OneAtATime
StoreInv == StopCloses /\ LateCheckpoint /\ CheckpointRestartable

ContainerInv == TypeInv /\ ProcessInv /\ StoreInv

\* A container that was not started satisfies the invariant.
LEMMA ContainerInitInv == Init => ContainerInv
<1> SUFFICES ASSUME Init
             PROVE  ContainerInv
  OBVIOUS
<1>1. TypeOK
  <2>1. detector \in [at : {"none", "asleep", "sending", "cancelled", "dead"}, todo : SUBSET Watched]
    BY DEF Init, NoDetector
  <2>2. unsaved \in BOOLEAN
    BY DEF Init
  <2>3. QED BY <2>1, <2>2 DEF Init, TypeOK, Kinds, At
<1>2. JobValues /\ ProcessInv
  BY DEF Init, JobValues, ProcessInv, Unused, HandlersProcess, OnlyClose, OneAtATime, Handling
<1>3. StoreInv
  BY DEF Init, StoreInv, StopCloses, LateCheckpoint, CheckpointRestartable
<1>4. QED BY <1>1, <1>2, <1>3 DEF ContainerInv, TypeInv

-----------------------------------------------------------------------------
(* The queue of database jobs.                                             *)

\* What Append does to the elements of a queue.
LEMMA AppendFacts ==
  ASSUME NEW S, NEW q \in Seq(S), NEW e \in S
  PROVE  /\ Append(q, e) \in Seq(S)
         /\ Len(Append(q, e)) = Len(q) + 1
         /\ \A i \in 1 .. Len(q) : Append(q, e)[i] = q[i]
         /\ Append(q, e)[Len(q) + 1] = e
OBVIOUS

\* What Tail leaves of a queue that is not empty.
LEMMA TailFacts ==
  ASSUME NEW S, NEW q \in Seq(S), q # <<>>
  PROVE  /\ Tail(q) \in Seq(S)
         /\ Len(Tail(q)) = Len(q) - 1
         /\ \A i \in 1 .. Len(q) - 1 : Tail(q)[i] = q[i + 1]
         /\ Head(q) = q[1] /\ Head(q) \in S
         /\ Len(q) \in Nat \ {0}
OBVIOUS

\* A checkpoint that joins the queue finds the close() of a stop before it.
LEMMA JoinQueue ==
  ASSUME StoreInv, TypeOK, NEW j \in Job, jobs' = Append(jobs, j),
         j.what = "checkpoint" => j.value = life,
         life' = life \/ (life' = "stopped" /\ j.what = "close"),
         UNCHANGED <<memory, stored>>
  PROVE  StoreInv'
<1>1. jobs \in Seq(Job) /\ Len(jobs) \in Nat
  BY DEF TypeOK
<1>2. /\ Len(jobs') = Len(jobs) + 1
      /\ \A i \in 1 .. Len(jobs) : jobs'[i] = jobs[i]
      /\ jobs'[Len(jobs) + 1] = j
  BY <1>1, AppendFacts
<1>3. StopCloses'
  BY <1>1, <1>2 DEF StoreInv, StopCloses
<1>4. ASSUME NEW k \in 1 .. Len(jobs'), jobs'[k].what = "checkpoint",
             jobs'[k].value = "stopped", memory' # "closed"
      PROVE  \E i \in 1 .. k - 1 : jobs'[i].what = "close"
  <2>1. CASE k \in 1 .. Len(jobs)
    BY <1>1, <1>2, <1>4, <2>1 DEF StoreInv, LateCheckpoint
  <2>2. CASE k = Len(jobs) + 1
    <3>1. life = "stopped"
      BY <1>2, <1>4, <2>2
    <3>2. QED BY <1>1, <1>2, <1>4, <2>2, <3>1 DEF StoreInv, StopCloses
  <2>3. QED BY <1>1, <1>2, <2>1, <2>2
<1>5. LateCheckpoint'
  BY <1>4 DEF LateCheckpoint
<1>6. QED BY <1>3, <1>5 DEF StoreInv, CheckpointRestartable

\* A job other than an effective close() leaves the queue.
LEMMA LeaveQueue ==
  ASSUME StoreInv, TypeOK, jobs # <<>>, jobs' = Tail(jobs),
         memory' = "closed" \/ (Head(jobs).what # "close" /\ UNCHANGED memory),
         UNCHANGED life, stored'.checkpoint = stored.checkpoint
  PROVE  StoreInv'
<1>1. jobs \in Seq(Job) /\ Len(jobs) \in Nat \ {0}
  BY TailFacts DEF TypeOK
<1>2. /\ Len(jobs') = Len(jobs) - 1
      /\ \A i \in 1 .. Len(jobs) - 1 : jobs'[i] = jobs[i + 1]
      /\ Head(jobs) = jobs[1]
  BY <1>1, TailFacts
<1>3. ASSUME NEW k \in 1 .. Len(jobs), memory' # "closed",
             \E i \in 1 .. k : jobs[i].what = "close"
      PROVE  \E i \in 1 .. k - 1 : jobs'[i].what = "close"
  <2>1. PICK i \in 1 .. k : jobs[i].what = "close"
    BY <1>3
  <2>2. i # 1
    BY <1>2, <1>3, <2>1
  <2>3. i - 1 \in 1 .. k - 1 /\ jobs'[i - 1].what = "close"
    BY <1>1, <1>2, <2>1, <2>2
  <2>4. QED BY <2>3
<1>4. StopCloses'
  BY <1>1, <1>2, <1>3 DEF StoreInv, StopCloses
<1>5. ASSUME NEW k \in 1 .. Len(jobs'), jobs'[k].what = "checkpoint",
             jobs'[k].value = "stopped", memory' # "closed"
      PROVE  \E i \in 1 .. k - 1 : jobs'[i].what = "close"
  <2>1. k + 1 \in 1 .. Len(jobs) /\ jobs[k + 1] = jobs'[k] /\ memory # "closed"
    BY <1>1, <1>2, <1>5
  <2>2. \E i \in 1 .. k : jobs[i].what = "close"
    BY <1>5, <2>1 DEF StoreInv, LateCheckpoint
  <2>3. k \in 1 .. Len(jobs)
    BY <1>1, <1>2
  <2>4. QED BY <1>3, <1>5, <2>2, <2>3
<1>6. LateCheckpoint'
  BY <1>5 DEF LateCheckpoint
<1>7. QED BY <1>4, <1>6 DEF StoreInv, CheckpointRestartable

\* Steps that touch neither the lifecycle nor the database.
LEMMA SameStore ==
  ASSUME StoreInv, UNCHANGED <<life, memory, jobs, stored>>
  PROVE  StoreInv'
BY DEF StoreInv, StopCloses, LateCheckpoint, CheckpointRestartable

-----------------------------------------------------------------------------
(* Types.                                                                  *)

\* A job that joins what is left of the queue.
LEMMA JoinTypes ==
  ASSUME TypeInv, NEW q \in {jobs, Tail(jobs)}, q = jobs \/ jobs # <<>>,
         NEW c \in Callers, NEW what \in {"assign", "checkpoint", "close"},
         NEW value \in Work \cup {NoWork, "running", "stopped"},
         what = "assign" => value \in Work,
         what = "checkpoint" => value \in {"running", "stopped"},
         jobs' = Append(q, [caller |-> c, what |-> what, value |-> value])
  PROVE  jobs' \in Seq(Job) /\ JobValues'
<1> DEFINE j == [caller |-> c, what |-> what, value |-> value]
<1>1. j \in Job /\ jobs \in Seq(Job)
  BY DEF TypeInv, TypeOK, Job
<1>2. q \in Seq(Job)
  BY <1>1, TailFacts
<1>3. \A i \in 1 .. Len(q) :
        /\ q[i].what = "assign" => q[i].value \in Work
        /\ q[i].what = "checkpoint" => q[i].value \in {"running", "stopped"}
  <2>1. CASE q = jobs
    BY <2>1 DEF TypeInv, JobValues
  <2>2. CASE q = Tail(jobs) /\ jobs # <<>>
    <3>1. /\ Len(q) = Len(jobs) - 1 /\ Len(jobs) \in Nat
          /\ \A i \in 1 .. Len(jobs) - 1 : q[i] = jobs[i + 1]
      BY <1>1, <2>2, TailFacts
    <3>2. QED BY <3>1 DEF TypeInv, JobValues
  <2>3. QED BY <2>1, <2>2
<1>4. /\ jobs' \in Seq(Job) /\ Len(jobs') = Len(q) + 1 /\ Len(q) \in Nat
      /\ \A i \in 1 .. Len(q) : jobs'[i] = q[i]
      /\ jobs'[Len(q) + 1] = j
  BY <1>1, <1>2, AppendFacts
<1>5. ASSUME NEW i \in 1 .. Len(jobs')
      PROVE  /\ jobs'[i].what = "assign" => jobs'[i].value \in Work
             /\ jobs'[i].what = "checkpoint" => jobs'[i].value \in {"running", "stopped"}
  <2>1. CASE i \in 1 .. Len(q)
    <3>1. jobs'[i] = q[i]
      BY <1>4, <2>1
    <3>2. QED BY <1>3, <2>1, <3>1
  <2>2. CASE i = Len(q) + 1
    <3>1. jobs'[i] = j
      BY <1>4, <2>2
    <3>2. jobs'[i].what = what /\ jobs'[i].value = value
      BY <3>1
    <3>3. QED BY <3>2
  <2>3. QED BY <1>4, <2>1, <2>2
<1>6. JobValues'
  BY <1>5 DEF JobValues
<1>7. QED BY <1>4, <1>6

\* The first job leaves the queue.
LEMMA LeaveTypes ==
  ASSUME TypeInv, jobs # <<>>, jobs' = Tail(jobs)
  PROVE  jobs' \in Seq(Job) /\ JobValues'
<1>1. jobs \in Seq(Job)
  BY DEF TypeInv, TypeOK
<1>2. /\ jobs' \in Seq(Job) /\ Len(jobs') = Len(jobs) - 1 /\ Len(jobs) \in Nat
      /\ \A i \in 1 .. Len(jobs) - 1 : jobs'[i] = jobs[i + 1]
  BY <1>1, TailFacts
<1>3. QED BY <1>2 DEF TypeInv, JobValues

\* Steps that leave the queue alone.
LEMMA SameJobTypes ==
  ASSUME TypeInv, UNCHANGED jobs
  PROVE  jobs' \in Seq(Job) /\ JobValues'
BY DEF TypeInv, TypeOK, JobValues

\* The job the database thread works on.
LEMMA FirstJob ==
  ASSUME TypeInv, jobs # <<>>
  PROVE  /\ Job1 = jobs[1] /\ Job1.caller \in Callers /\ 1 \in 1 .. Len(jobs)
         /\ Job1.what = "assign" => Job1.value \in Work
         /\ Job1.what = "checkpoint" => Job1.value \in {"running", "stopped"}
<1>1. jobs \in Seq(Job)
  BY DEF TypeInv, TypeOK
<1>2. Job1 = jobs[1] /\ Job1 \in Job /\ 1 \in 1 .. Len(jobs)
  BY <1>1, TailFacts DEF Job1
<1>3. QED BY <1>2 DEF TypeInv, JobValues, Job

\* The part of stop() after on_stop.
LEMMA FinishTypes ==
  ASSUME TypeInv, NEW c \in Callers, NEW q \in {jobs, Tail(jobs)}, q = jobs \/ jobs # <<>>,
         FinishStop(c, q)
  PROVE  /\ life' \in {"creating", "running", "stopped"}
         /\ inner' \in {"none", "idle", "listening", "processing"}
         /\ jobs' \in Seq(Job) /\ JobValues'
         /\ at' \in [Callers -> At]
<1>1. jobs' \in Seq(Job) /\ JobValues'
  <2>1. CASE life = "running"
    BY <2>1, JoinTypes DEF FinishStop
  <2>2. CASE life # "running"
    BY <2>2, LeaveTypes, SameJobTypes DEF FinishStop
  <2>3. QED BY <2>1, <2>2
<1>2. QED BY <1>1 DEF FinishStop, Goto, At, TypeInv, TypeOK

-----------------------------------------------------------------------------
\* Types: messages and stops.
LEMMA CallerTypes ==
  ASSUME TypeInv, Unused, NEW c \in Callers, CallerStep(c)
  PROVE  TypeInv'
<1>1. CASE Begin(c) \/ Finish(c)
  <2>1. UNCHANGED jobs
    BY <1>1 DEF Begin, Finish, storeVars
  <2>2. QED
    BY <1>1, <2>1, SameJobTypes DEF Begin, Finish, Goto, At, TypeInv, TypeOK, storeVars, watchVars
<1>2. ASSUME NEW w \in Work, Assigned(c, w)
      PROVE  TypeInv'
  <2>1. jobs' \in Seq(Job) /\ JobValues'
    BY <1>2, JoinTypes, SameJobTypes DEF Assigned, Submit
  <2>2. QED
    BY <1>2, <2>1 DEF Assigned, Goto, At, TypeInv, TypeOK, fsmVars, watchVars
<1>3. ASSUME NEW a \in Watched, PhaseComplete(c, a) \/ HealthChange(c, a)
      PROVE  TypeInv'
  <2>1. UNCHANGED jobs
    BY <1>3 DEF PhaseComplete, HealthChange, storeVars
  <2>2. QED
    BY <1>3, <2>1, SameJobTypes
    DEF PhaseComplete, HealthChange, Noted, TypeInv, TypeOK, fsmVars, storeVars
<1>4. CASE StopConversation(c)
  <2>1. FinishStop(c, jobs)
    BY <1>4 DEF StopConversation
  <2>2. QED
    BY <1>4, <2>1, FinishTypes DEF StopConversation, TypeInv, TypeOK, watchVars
<1>5. CASE StopTransient(c)
  <2>1. CASE detector.at = "none" /\ FinishStop(c, jobs) /\ UNCHANGED detector
    BY <1>5, <2>1, FinishTypes DEF StopTransient, TypeInv, TypeOK
  <2>2. CASE /\ UNCHANGED <<life, inner, jobs>>
             /\ Goto(c, "raised") \/ Goto(c, "cancelling")
             /\ UNCHANGED detector \/ detector' = [at |-> "cancelled", todo |-> {}]
    BY <1>5, <2>2, SameJobTypes DEF StopTransient, Goto, At, TypeInv, TypeOK
  <2>3. QED BY <1>5, <2>1, <2>2 DEF StopTransient
<1>6. CASE Cancelled(c)
  <2>1. FinishStop(c, jobs)
    BY <1>6 DEF Cancelled
  <2>2. QED
    BY <1>6, <2>1, FinishTypes DEF Cancelled, NoDetector, TypeInv, TypeOK
<1>7. CASE StopSession(c)
  <2>1. UNCHANGED jobs
    BY <1>7 DEF StopSession, storeVars
  <2>2. QED
    BY <1>7, <2>1, SameJobTypes
    DEF StopSession, Goto, At, TypeInv, TypeOK, fsmVars, storeVars, watchVars
<1>8. CASE TakeLock(c)
  <2>1. life \in {"running", "stopped"}
    BY <1>8 DEF TakeLock, Unused, TypeInv, TypeOK
  <2>2. jobs' \in Seq(Job) /\ JobValues'
    BY <1>8, <2>1, JoinTypes, SameJobTypes DEF TakeLock, Submit
  <2>3. lock' \in Callers \cup {NoCaller}
    BY <1>8 DEF TakeLock, TypeInv, TypeOK
  <2>4. \E w \in At : Goto(c, w)
    BY <1>8 DEF TakeLock, At
  <2>5. at' \in [Callers -> At]
    BY <2>4 DEF Goto, TypeInv, TypeOK
  <2>6. UNCHANGED <<fsmVars, memory, stored, assignment, unsaved, watchVars>>
    BY <1>8 DEF TakeLock
  <2>7. QED
    BY <2>2, <2>3, <2>5, <2>6 DEF TypeInv, TypeOK, fsmVars, watchVars
<1>9. QED
  BY <1>1, <1>2, <1>3, <1>4, <1>5, <1>6, <1>7, <1>8 DEF CallerStep

\* Types: the database thread.
LEMMA JobTypes ==
  ASSUME TypeInv, JobStep
  PROVE  TypeInv'
<1>1. jobs # <<>>
  BY DEF JobStep, AssignWritten, CheckpointLost, CheckpointWritten, Closed, NextJob
<1>2. /\ Job1.caller \in Callers
      /\ Job1.what = "assign" => Job1.value \in Work
      /\ Job1.what = "checkpoint" => Job1.value \in {"running", "stopped"}
  BY <1>1, FirstJob
<1>3. CASE AssignWritten
  <2>1. jobs' \in Seq(Job) /\ JobValues'
    BY <1>1, <1>3, LeaveTypes DEF AssignWritten
  <2>2. QED
    BY <1>2, <1>3, <2>1
    DEF AssignWritten, NextJob, Write, Goto, At, TypeInv, TypeOK, fsmVars, watchVars
<1>4. CASE CheckpointLost \/ Closed
  <2>1. jobs' \in Seq(Job) /\ JobValues'
    BY <1>1, <1>4, LeaveTypes DEF CheckpointLost, Closed
  <2>2. QED
    BY <1>2, <1>4, <2>1
    DEF CheckpointLost, Closed, Goto, At, TypeInv, TypeOK, fsmVars, watchVars
<1>5. CASE CheckpointWritten
  <2>1. FinishStop(Job1.caller, Tail(jobs))
    BY <1>5 DEF CheckpointWritten
  <2>2. QED
    BY <1>1, <1>2, <1>5, <2>1, FinishTypes
    DEF CheckpointWritten, NextJob, Write, TypeInv, TypeOK, watchVars
<1>6. QED BY <1>3, <1>4, <1>5 DEF JobStep

\* Types: start, restart and the stuck detector.
LEMMA OtherTypes ==
  ASSUME TypeInv,
         \/ Start \/ Restart \/ (\E a \in Watched : GrowOld(a)) \/ DetectorStep \/ UNCHANGED vars
  PROVE  TypeInv'
<1>1. CASE Start
  <2>1. UNCHANGED jobs
    BY <1>1 DEF Start
  <2>2. QED
    BY <1>1, <2>1, SameJobTypes DEF Start, FirstInner, NoDetector, TypeInv, TypeOK, Kinds
<1>2. CASE Restart
  <2>1. TypeOK'
    <3>1. detector' \in [at : {"none", "asleep", "sending", "cancelled", "dead"}, todo : SUBSET Watched]
      BY <1>2 DEF Restart, NoDetector
    <3>2. unsaved' \in BOOLEAN
      BY <1>2 DEF Restart
    <3>3. QED BY <1>2, <3>1, <3>2 DEF Restart, At, TypeInv, TypeOK
  <2>2. JobValues'
    BY <1>2 DEF Restart, JobValues
  <2>3. QED BY <2>1, <2>2 DEF TypeInv
<1>3. CASE \E a \in Watched : GrowOld(a)
  BY <1>3, SameJobTypes DEF GrowOld, TypeInv, TypeOK, fsmVars, storeVars
<1>4. CASE DetectorStep
  <2>1. UNCHANGED <<fsmVars, storeVars, at, age>> /\ flagged' \in SUBSET Watched
    BY <1>4 DEF DetectorStep, Doze, DetectorDies, Wake, Continue, Report, TypeInv, TypeOK
  <2>2. detector' \in [at : {"none", "asleep", "sending", "cancelled", "dead"}, todo : SUBSET Watched]
    BY <1>4 DEF DetectorStep, Doze, DetectorDies, Wake, Continue, Report, Late, TypeInv, TypeOK
  <2>3. QED
    BY <2>1, <2>2, SameJobTypes DEF TypeInv, TypeOK, fsmVars, storeVars
<1>5. CASE UNCHANGED vars
  BY <1>5, SameJobTypes DEF vars, fsmVars, storeVars, watchVars, TypeInv, TypeOK
<1>6. QED BY <1>1, <1>2, <1>3, <1>4, <1>5

-----------------------------------------------------------------------------
(* One message at a time.                                                  *)

\* A session does not process, whatever its callers and its database do.
LEMMA SessionProcess ==
  ASSUME TypeInv, ProcessInv, kind = "session", UNCHANGED kind,
         NEW c \in Callers, NEW w \in At \ {"handling"}, Goto(c, w),
         life # "creating", life' = "stopped" \/ UNCHANGED <<life, inner>>
  PROVE  ProcessInv'
<1>1. \A d \in Callers : at[d] # "handling" /\ at'[d] # "handling"
  BY DEF ProcessInv, HandlersProcess, EventDriven, Goto, TypeInv, TypeOK
<1>2. Handling = {} /\ Handling' = {}
  BY <1>1 DEF Handling
<1>3. Unused' /\ HandlersProcess' /\ OnlyClose'
  BY <1>1 DEF Unused, HandlersProcess, OnlyClose, EventDriven
<1>4. OneAtATime'
  BY <1>2 DEF OneAtATime, ProcessInv
<1>5. QED BY <1>3, <1>4 DEF ProcessInv

\* A caller that neither processes nor closes moves, and nothing else does.
LEMMA MoveProcess ==
  ASSUME TypeInv, ProcessInv, UNCHANGED <<kind, life, inner, jobs>>, life # "creating",
         NEW c \in Callers, NEW w \in At \ {"handling", "locking"}, Goto(c, w),
         at[c] \notin {"handling", "closing"}
  PROVE  ProcessInv'
<1>1. \A d \in Callers : (at'[d] = "handling") = (at[d] = "handling")
  BY DEF Goto, TypeInv, TypeOK
<1>2. Handling' = Handling
  BY <1>1 DEF Handling
<1>3. Unused' /\ HandlersProcess' /\ OneAtATime'
  BY <1>1, <1>2 DEF Unused, HandlersProcess, OneAtATime, EventDriven, ProcessInv, Goto, TypeInv, TypeOK
<1>4. ASSUME EventDriven, jobs # <<>>
      PROVE  at'[Job1.caller] = "closing"
  <2>1. at[Job1.caller] = "closing" /\ Job1.caller \in Callers
    BY <1>4, FirstJob DEF ProcessInv, OnlyClose
  <2>2. QED BY <2>1 DEF Goto, TypeInv, TypeOK
<1>5. OnlyClose'
  BY <1>4 DEF OnlyClose, ProcessInv, EventDriven, Job1
<1>6. QED BY <1>3, <1>5 DEF ProcessInv

\* The end of stop() of an event-driven container.
LEMMA StopProcess ==
  ASSUME TypeInv, ProcessInv, EventDriven, UNCHANGED kind, life # "creating",
         NEW c \in Callers, at[c] \notin {"handling", "closing"}, FinishStop(c, jobs)
  PROVE  ProcessInv'
<1>1. CASE life # "running"
  BY <1>1, MoveProcess DEF FinishStop, At
<1>2. CASE life = "running"
  <2>1. jobs = <<>>
    BY <1>2 DEF ProcessInv, OnlyClose
  <2>2. /\ life' = "stopped" /\ Goto(c, "closing")
        /\ jobs' = <<[caller |-> c, what |-> "close", value |-> NoWork]>>
    BY <1>2, <2>1 DEF FinishStop
  <2>3. Len(jobs') = 1 /\ Head(jobs').what = "close" /\ Head(jobs').caller = c
    BY <2>2
  <2>4. at'[c] = "closing" /\ \A d \in Callers : at'[d] = "handling" => at[d] = "handling"
    BY <2>2 DEF Goto, TypeInv, TypeOK
  <2>5. OnlyClose'
    BY <2>2, <2>3, <2>4 DEF OnlyClose, Job1
  <2>6. Unused' /\ HandlersProcess'
    BY <2>2 DEF Unused, HandlersProcess, ProcessInv, EventDriven, Goto, TypeInv, TypeOK
  <2>7. OneAtATime'
    BY <2>2, <2>4 DEF OneAtATime, Handling, ProcessInv
  <2>8. QED BY <2>5, <2>6, <2>7 DEF ProcessInv
<1>3. QED BY <1>1, <1>2

\* One message at a time: messages and stops.
LEMMA CallerProcess ==
  ASSUME TypeInv, ProcessInv, NEW c \in Callers, CallerStep(c)
  PROVE  ProcessInv'
<1>1. CASE Begin(c)
  <2>1. CASE life = "running" /\ inner = "listening"
    <3>1. /\ at'[c] = "handling" /\ \A d \in Callers \ {c} : at'[d] = at[d]
          /\ UNCHANGED <<kind, life, jobs>> /\ inner' = "processing" /\ EventDriven
      BY <1>1, <2>1 DEF Begin, Goto, TypeInv, TypeOK, storeVars
    <3>2. \A d \in Callers : at[d] # "handling"
      BY <2>1 DEF ProcessInv, OneAtATime, Handling
    <3>3. jobs = <<>>
      BY <2>1, <3>1 DEF ProcessInv, OnlyClose
    <3>4. Unused' /\ HandlersProcess' /\ OnlyClose'
      BY <2>1, <3>1, <3>3 DEF ProcessInv, Unused, HandlersProcess, OnlyClose, EventDriven
    <3>5. Handling' = {c}
      BY <3>1, <3>2 DEF Handling
    <3>6. QED BY <3>1, <3>4, <3>5 DEF ProcessInv, OneAtATime
  <2>2. CASE ~(life = "running" /\ inner = "listening")
    BY <1>1, <2>2, MoveProcess DEF Begin, At, storeVars
  <2>3. QED BY <2>1, <2>2
<1>2. CASE Finish(c)
  <2>1. /\ at'[c] # "handling" /\ at'[c] # "locking" /\ \A d \in Callers \ {c} : at'[d] = at[d]
        /\ UNCHANGED <<kind, life, jobs>> /\ (life = "running" => inner' = "listening")
        /\ at[c] = "handling" /\ EventDriven
    BY <1>2 DEF Finish, Goto, TypeInv, TypeOK, storeVars, ProcessInv, HandlersProcess
  <2>2. Handling' = {}
    BY <2>1 DEF Handling, ProcessInv, OneAtATime
  <2>3. Unused' /\ HandlersProcess'
    BY <2>1 DEF Unused, HandlersProcess, EventDriven, ProcessInv
  <2>4. OnlyClose'
    <3>1. CASE jobs = <<>>
      BY <2>1, <3>1 DEF OnlyClose
    <3>2. CASE jobs # <<>>
      <4>1. Job1.caller \in Callers /\ at[Job1.caller] = "closing"
        BY <2>1, <3>2, FirstJob DEF ProcessInv, OnlyClose
      <4>2. at'[Job1.caller] = "closing"
        BY <2>1, <4>1
      <4>3. QED BY <2>1, <4>2 DEF ProcessInv, OnlyClose, EventDriven, Job1
    <3>3. QED BY <3>1, <3>2
  <2>5. QED BY <2>1, <2>2, <2>3, <2>4 DEF ProcessInv, OneAtATime
<1>3. ASSUME NEW w \in Work, Assigned(c, w)
      PROVE  ProcessInv'
  <2>1. PICK v \in {"saving", "failed"} : Goto(c, v)
    BY <1>3 DEF Assigned
  <2>2. QED BY <1>3, <2>1, SessionProcess DEF Assigned, At, fsmVars
<1>4. ASSUME NEW a \in Watched, PhaseComplete(c, a) \/ HealthChange(c, a)
      PROVE  ProcessInv'
  <2>1. UNCHANGED <<kind, life, inner, jobs, at>>
    BY <1>4 DEF PhaseComplete, HealthChange, fsmVars, storeVars
  <2>2. QED
    BY <2>1 DEF ProcessInv, Unused, HandlersProcess, OnlyClose, OneAtATime, Handling, EventDriven, Job1
<1>5. CASE StopConversation(c)
  BY <1>5, StopProcess DEF StopConversation, EventDriven
<1>6. CASE StopTransient(c)
  <2>1. EventDriven /\ UNCHANGED kind /\ life # "creating" /\ at[c] = "none"
    BY <1>6 DEF StopTransient, EventDriven
  <2>2. CASE FinishStop(c, jobs)
    BY <2>1, <2>2, StopProcess
  <2>3. CASE UNCHANGED <<life, inner, jobs>> /\ \E v \in {"raised", "cancelling"} : Goto(c, v)
    BY <2>1, <2>3, MoveProcess DEF At
  <2>4. QED BY <1>6, <2>2, <2>3 DEF StopTransient
<1>7. CASE Cancelled(c)
  <2>1. UNCHANGED kind /\ life # "creating" /\ at[c] = "cancelling" /\ FinishStop(c, jobs)
    BY <1>7 DEF Cancelled, ProcessInv, Unused
  <2>2. CASE EventDriven
    BY <2>1, <2>2, StopProcess
  <2>3. CASE kind = "session"
    <3>1. PICK v \in {"closing", "raised"} : Goto(c, v)
      BY <2>1 DEF FinishStop
    <3>2. QED BY <2>1, <2>3, <3>1, SessionProcess DEF FinishStop, At
  <2>4. QED BY <2>2, <2>3 DEF EventDriven, TypeInv, TypeOK, Kinds
<1>8. CASE StopSession(c)
  BY <1>8, SessionProcess DEF StopSession, At, fsmVars
<1>9. CASE TakeLock(c)
  <2>1. PICK v \in {"checkpointing", "raised"} : Goto(c, v)
    BY <1>9 DEF TakeLock
  <2>2. kind = "session" /\ life # "creating" /\ UNCHANGED <<kind, life, inner>>
    BY <1>9 DEF TakeLock, ProcessInv, HandlersProcess, Unused, fsmVars
  <2>3. QED BY <2>1, <2>2, SessionProcess DEF At
<1>10. QED
  BY <1>1, <1>2, <1>3, <1>4, <1>5, <1>6, <1>7, <1>8, <1>9 DEF CallerStep

\* One message at a time: the database thread.
LEMMA JobProcess ==
  ASSUME TypeInv, ProcessInv, JobStep
  PROVE  ProcessInv'
<1>1. jobs # <<>> /\ UNCHANGED kind
  BY DEF JobStep, AssignWritten, CheckpointLost, CheckpointWritten, Closed, NextJob, fsmVars
<1>2. Job1.caller \in Callers /\ life # "creating"
  BY <1>1, FirstJob DEF ProcessInv, Unused
<1>3. CASE kind = "session"
  <2>1. life' = "stopped" \/ UNCHANGED <<life, inner>>
    BY DEF JobStep, AssignWritten, CheckpointLost, CheckpointWritten, Closed, FinishStop, fsmVars
  <2>2. PICK v \in {"none", "failed", "raised", "closing", "done"} : Goto(Job1.caller, v)
    BY DEF JobStep, AssignWritten, CheckpointLost, CheckpointWritten, Closed, FinishStop
  <2>3. QED BY <1>1, <1>2, <1>3, <2>1, <2>2, SessionProcess DEF At
<1>4. CASE EventDriven
  <2>1. life = "stopped" /\ Len(jobs) = 1 /\ Job1.what = "close" /\ at[Job1.caller] = "closing"
    BY <1>1, <1>4 DEF ProcessInv, OnlyClose
  <2>2. Closed
    BY <2>1 DEF JobStep, AssignWritten, CheckpointLost, CheckpointWritten, NextJob
  <2>3. UNCHANGED <<life, inner>> /\ jobs' = Tail(jobs) /\ Goto(Job1.caller, "done")
    BY <2>2 DEF Closed, fsmVars
  <2>4. jobs' = <<>>
    BY <1>1, <2>1, <2>3 DEF TypeInv, TypeOK
  <2>5. \A d \in Callers :
          /\ at'[d] = "handling" => at[d] = "handling"
          /\ at'[d] = "locking" => at[d] = "locking"
    BY <2>3 DEF Goto, TypeInv, TypeOK
  <2>6. Unused' /\ HandlersProcess' /\ OnlyClose' /\ OneAtATime'
    BY <1>1, <1>4, <2>1, <2>3, <2>4, <2>5
    DEF Unused, HandlersProcess, OnlyClose, OneAtATime, Handling, EventDriven, ProcessInv
  <2>7. QED BY <2>6 DEF ProcessInv
<1>5. QED BY <1>3, <1>4 DEF EventDriven, TypeInv, TypeOK, Kinds

\* One message at a time: start, restart and the stuck detector.
LEMMA OtherProcess ==
  ASSUME TypeInv, ProcessInv, CheckpointRestartable,
         \/ Start \/ Restart \/ (\E a \in Watched : GrowOld(a)) \/ DetectorStep \/ UNCHANGED vars
  PROVE  ProcessInv'
<1>1. CASE Start
  <2>1. /\ UNCHANGED <<kind, jobs, at>> /\ jobs = <<>> /\ \A d \in Callers : at[d] = "none"
        /\ life' = "running" /\ inner' # "processing"
    BY <1>1 DEF Start, FirstInner, ProcessInv, Unused, CheckpointRestartable, TypeInv, TypeOK
  <2>2. QED
    BY <2>1 DEF ProcessInv, Unused, HandlersProcess, OnlyClose, OneAtATime, Handling, EventDriven
<1>2. CASE Restart
  BY <1>2 DEF Restart, ProcessInv, Unused, HandlersProcess, OnlyClose, OneAtATime, Handling, EventDriven
<1>3. CASE UNCHANGED <<kind, life, inner, jobs, at>>
  BY <1>3
  DEF ProcessInv, Unused, HandlersProcess, OnlyClose, OneAtATime, Handling, EventDriven, Job1
<1>4. QED
  BY <1>1, <1>2, <1>3
  DEF GrowOld, DetectorStep, Doze, DetectorDies, Wake, Continue, Report, vars, fsmVars, storeVars

-----------------------------------------------------------------------------
(* Checkpoints.                                                            *)

\* The end of stop() queues the close().
LEMMA FinishStore ==
  ASSUME TypeInv, StoreInv, NEW c \in Callers, FinishStop(c, jobs), UNCHANGED <<memory, stored>>
  PROVE  StoreInv'
<1>1. CASE life # "running"
  BY <1>1, SameStore DEF FinishStop
<1>2. CASE life = "running"
  <2> DEFINE j == [caller |-> c, what |-> "close", value |-> NoWork]
  <2>1. j \in Job /\ j.what = "close"
    BY DEF Job
  <2>2. jobs' = Append(jobs, j) /\ life' = "stopped"
    BY <1>2 DEF FinishStop
  <2> HIDE DEF j
  <2>3. QED BY <2>1, <2>2, JoinQueue DEF TypeInv
<1>3. QED BY <1>1, <1>2

\* Checkpoints: messages and stops.
LEMMA CallerStore ==
  ASSUME TypeInv, Unused, StoreInv, NEW c \in Callers, CallerStep(c)
  PROVE  StoreInv'
<1>1. CASE UNCHANGED <<life, memory, jobs, stored>>
  BY <1>1, SameStore
<1>2. CASE FinishStop(c, jobs) /\ UNCHANGED <<memory, stored>>
  BY <1>2, FinishStore
<1>3. ASSUME NEW w \in Work, Submit(c, "assign", w), UNCHANGED <<life, memory, stored>>
      PROVE  StoreInv'
  <2> DEFINE j == [caller |-> c, what |-> "assign", value |-> w]
  <2>1. j \in Job /\ j.what = "assign"
    BY DEF Job
  <2>2. jobs' = Append(jobs, j)
    BY <1>3 DEF Submit
  <2> HIDE DEF j
  <2>3. QED BY <1>3, <2>1, <2>2, JoinQueue DEF TypeInv
<1>4. CASE at[c] = "locking" /\ Submit(c, "checkpoint", life) /\ UNCHANGED <<life, memory, stored>>
  <2> DEFINE j == [caller |-> c, what |-> "checkpoint", value |-> life]
  <2>1. life \in {"running", "stopped"}
    BY <1>4 DEF Unused, TypeInv, TypeOK
  <2>2. j \in Job /\ j.what = "checkpoint" /\ j.value = life
    BY <2>1 DEF Job
  <2>3. jobs' = Append(jobs, j)
    BY <1>4 DEF Submit
  <2> HIDE DEF j
  <2>4. QED BY <1>4, <2>2, <2>3, JoinQueue DEF TypeInv
<1>5. CASE \/ Begin(c) \/ Finish(c) \/ StopSession(c)
           \/ \E a \in Watched : PhaseComplete(c, a) \/ HealthChange(c, a)
  BY <1>1, <1>5 DEF Begin, Finish, StopSession, PhaseComplete, HealthChange, fsmVars, storeVars
<1>6. CASE \E w \in Work : Assigned(c, w)
  BY <1>1, <1>3, <1>6 DEF Assigned, fsmVars
<1>7. CASE StopConversation(c) \/ StopTransient(c) \/ Cancelled(c)
  BY <1>1, <1>2, <1>7 DEF StopConversation, StopTransient, Cancelled
<1>8. CASE TakeLock(c)
  BY <1>1, <1>4, <1>8 DEF TakeLock, fsmVars
<1>9. QED BY <1>5, <1>6, <1>7, <1>8 DEF CallerStep

\* Checkpoints: the database thread.
LEMMA JobStore ==
  ASSUME TypeInv, StoreInv, JobStep
  PROVE  StoreInv'
<1>1. jobs # <<>> /\ jobs \in Seq(Job) /\ TypeOK
  BY DEF JobStep, AssignWritten, CheckpointLost, CheckpointWritten, Closed, NextJob, TypeInv, TypeOK
<1>2. CASE AssignWritten \/ CheckpointLost \/ Closed
  <2>1. stored'.checkpoint = stored.checkpoint
    BY <1>1, <1>2 DEF AssignWritten, CheckpointLost, Closed, Write, TypeOK
  <2>2. memory' = "closed" \/ (Head(jobs).what # "close" /\ UNCHANGED memory)
    BY <1>2 DEF AssignWritten, CheckpointLost, Closed, NextJob, Job1
  <2>3. jobs' = Tail(jobs) /\ UNCHANGED life
    BY <1>2 DEF AssignWritten, CheckpointLost, Closed, fsmVars
  <2>4. QED BY <1>1, <2>1, <2>2, <2>3, LeaveQueue
<1>3. CASE CheckpointWritten
  <2>1. /\ memory = "open" /\ UNCHANGED memory /\ Job1.what = "checkpoint"
        /\ stored' = [stored EXCEPT !["checkpoint"] = Job1.value]
        /\ FinishStop(Job1.caller, Tail(jobs))
    BY <1>3 DEF CheckpointWritten, NextJob, Write
  <2>2. /\ Job1 = jobs[1] /\ 1 \in 1 .. Len(jobs) /\ Job1.caller \in Callers
        /\ Job1.value \in {"running", "stopped"}
    BY <1>1, <2>1, FirstJob
  \* no close() is before the first job, so its checkpoint is not a late one
  <2>3. Job1.value = "running"
    BY <2>1, <2>2 DEF StoreInv, LateCheckpoint
  <2>4. CheckpointRestartable'
    BY <1>1, <2>1, <2>3 DEF CheckpointRestartable, TypeOK
  <2>5. /\ Tail(jobs) \in Seq(Job) /\ Len(Tail(jobs)) = Len(jobs) - 1 /\ Len(jobs) \in Nat \ {0}
        /\ \A i \in 1 .. Len(jobs) - 1 : Tail(jobs)[i] = jobs[i + 1]
    BY <1>1, TailFacts
  \* what the queue lost is no close()
  <2>6. ASSUME NEW k \in 1 .. Len(jobs), \E i \in 1 .. k : jobs[i].what = "close"
        PROVE  \E i \in 1 .. k - 1 : Tail(jobs)[i].what = "close"
    <3>1. PICK i \in 1 .. k : jobs[i].what = "close"
      BY <2>6
    <3>2. i # 1
      BY <2>1, <2>2, <3>1
    <3>3. i - 1 \in 1 .. k - 1 /\ Tail(jobs)[i - 1].what = "close"
      BY <2>5, <3>1, <3>2
    <3>4. QED BY <3>3
  <2>7. ASSUME NEW k \in 1 .. Len(Tail(jobs)), Tail(jobs)[k].what = "checkpoint",
               Tail(jobs)[k].value = "stopped"
        PROVE  \E i \in 1 .. k - 1 : Tail(jobs)[i].what = "close"
    <3>1. k + 1 \in 1 .. Len(jobs) /\ jobs[k + 1] = Tail(jobs)[k] /\ k \in 1 .. Len(jobs)
      BY <2>5
    <3>2. \E i \in 1 .. k : jobs[i].what = "close"
      BY <2>1, <2>7, <3>1 DEF StoreInv, LateCheckpoint
    <3>3. QED BY <2>6, <3>1, <3>2
  <2>8. CASE life # "running"
    <3>1. jobs' = Tail(jobs) /\ UNCHANGED life
      BY <2>1, <2>8 DEF FinishStop
    <3>2. StopCloses'
      BY <2>1, <2>5, <2>6, <3>1 DEF StoreInv, StopCloses
    <3>3. LateCheckpoint'
      BY <2>7, <3>1 DEF LateCheckpoint
    <3>4. QED BY <2>4, <3>2, <3>3 DEF StoreInv
  <2>9. CASE life = "running"
    <3> DEFINE j == [caller |-> Job1.caller, what |-> "close", value |-> NoWork]
    <3>1. j \in Job /\ j.what = "close"
      BY <2>2 DEF Job
    <3>2. jobs' = Append(Tail(jobs), j)
      BY <2>1, <2>9 DEF FinishStop
    <3> HIDE DEF j
    <3>3. /\ Len(jobs') = Len(Tail(jobs)) + 1 /\ Len(Tail(jobs)) \in Nat
          /\ \A i \in 1 .. Len(Tail(jobs)) : jobs'[i] = Tail(jobs)[i]
          /\ jobs'[Len(Tail(jobs)) + 1] = j
      BY <2>5, <3>1, <3>2, AppendFacts
    <3>4. StopCloses'
      BY <3>1, <3>3 DEF StopCloses
    <3>5. ASSUME NEW k \in 1 .. Len(jobs'), jobs'[k].what = "checkpoint",
                 jobs'[k].value = "stopped"
          PROVE  \E i \in 1 .. k - 1 : jobs'[i].what = "close"
      <4>1. k \in 1 .. Len(Tail(jobs))
        BY <3>1, <3>3, <3>5
      <4>2. \E i \in 1 .. k - 1 : Tail(jobs)[i].what = "close"
        BY <2>7, <3>3, <3>5, <4>1
      <4>3. PICK i \in 1 .. k - 1 : Tail(jobs)[i].what = "close"
        BY <4>2
      <4>4. i \in 1 .. Len(Tail(jobs)) /\ jobs'[i] = Tail(jobs)[i]
        BY <3>3, <4>1, <4>3
      <4>5. QED BY <4>3, <4>4
    <3>6. LateCheckpoint'
      BY <3>5 DEF LateCheckpoint
    <3>7. QED BY <2>4, <3>4, <3>6 DEF StoreInv
  <2>10. QED BY <2>8, <2>9
<1>4. QED BY <1>2, <1>3 DEF JobStep

\* Checkpoints: start, restart and the stuck detector.
LEMMA OtherStore ==
  ASSUME TypeInv, Unused, StoreInv,
         \/ Start \/ Restart \/ (\E a \in Watched : GrowOld(a)) \/ DetectorStep \/ UNCHANGED vars
  PROVE  StoreInv'
<1>1. CASE Start
  <2>1. jobs' = <<>> /\ stored' = stored /\ life' = "running"
    BY <1>1 DEF Start, Unused, StoreInv, CheckpointRestartable, TypeInv, TypeOK
  <2>2. QED BY <2>1 DEF StoreInv, StopCloses, LateCheckpoint, CheckpointRestartable
<1>2. CASE Restart
  BY <1>2 DEF Restart, StoreInv, StopCloses, LateCheckpoint, CheckpointRestartable
<1>3. CASE UNCHANGED <<life, memory, jobs, stored>>
  BY <1>3, SameStore
<1>4. QED
  BY <1>1, <1>2, <1>3
  DEF GrowOld, DetectorStep, Doze, DetectorDies, Wake, Continue, Report, vars, fsmVars, storeVars

-----------------------------------------------------------------------------
\* Every step preserves the invariant.
LEMMA ContainerStep ==
  ASSUME ContainerInv, [Next]_vars
  PROVE  ContainerInv'
<1>1. TypeInv /\ ProcessInv /\ StoreInv /\ Unused /\ CheckpointRestartable
  BY DEF ContainerInv, ProcessInv, StoreInv
<1>2. ASSUME NEW c \in Callers, CallerStep(c)
      PROVE  ContainerInv'
  BY <1>1, <1>2, CallerTypes, CallerProcess, CallerStore DEF ContainerInv
<1>3. CASE JobStep
  BY <1>1, <1>3, JobTypes, JobProcess, JobStore DEF ContainerInv
<1>4. CASE \/ Start \/ Restart \/ (\E a \in Watched : GrowOld(a)) \/ DetectorStep \/ UNCHANGED vars
  BY <1>1, <1>4, OtherTypes, OtherProcess, OtherStore DEF ContainerInv
<1>5. QED BY <1>2, <1>3, <1>4 DEF Next

\* The inductive invariant of the container (container.py, session.py,
\* event_driven_lifecycle.py): types, processing and the order of database jobs.
THEOREM ContainerInvAlways == Spec => []ContainerInv
BY ContainerInitInv, ContainerStep, PTL DEF Spec

\* Whatever the number of connection handlers that use the container, and
\* however their calls overlap, fail or stop it, the lifecycle says
\* "processing" exactly while one message is handled
\* (event_driven_lifecycle.py, handle_message).
THEOREM OneAtATimeAlways == Spec => []OneAtATime
<1>1. ContainerInv => OneAtATime
  BY DEF ContainerInv, ProcessInv
<1>2. QED BY <1>1, ContainerInvAlways, PTL

\* However many stop() calls overlap, no "stopped" configuration reaches the
\* database, so a container never comes up stopped: a checkpoint taken after
\* the lifecycle has stopped is queued behind the close() of that stop
\* (session.py, _checkpoint_phase; container.py, stop).
THEOREM CheckpointAlwaysRestartable == Spec => []CheckpointRestartable
<1>1. ContainerInv => CheckpointRestartable
  BY DEF ContainerInv, StoreInv
<1>2. QED BY <1>1, ContainerInvAlways, PTL
-----------------------------------------------------------------------------
(* Assignments.                                                            *)

\* While the lifecycle runs, no close() has been asked for.
RunningOpen ==
  life = "running" =>
    memory = "open" /\ \A j \in 1 .. Len(jobs) : jobs[j].what # "close"

\* The last assignment among the database jobs, or else the one in the
\* database, is the one the agent works on; the latter unless the last write
\* raised.
LastWrite ==
  kind = "session" /\ life = "running" =>
    /\ (\A j \in 1 .. Len(jobs) : jobs[j].what # "assign")
         => unsaved \/ stored.work = assignment
    /\ \A j \in 1 .. Len(jobs) :
         jobs[j].what = "assign" /\ (\A i \in j + 1 .. Len(jobs) : jobs[i].what # "assign")
           => jobs[j].value = assignment

AssignInv == RunningOpen /\ LastWrite

\* Steps that leave the database, its jobs and the assignment alone.
LEMMA SameAssign ==
  ASSUME AssignInv, life' = life \/ life' # "running",
         UNCHANGED <<kind, memory, jobs, stored, assignment, unsaved>>
  PROVE  AssignInv'
BY DEF AssignInv, RunningOpen, LastWrite

\* A job that is no close() joins the queue: an assignment is the last one.
LEMMA JoinAssign ==
  ASSUME AssignInv, TypeOK, NEW j \in Job, jobs' = Append(jobs, j),
         \/ j.what = "assign" /\ assignment' = j.value
         \/ j.what = "checkpoint" /\ UNCHANGED assignment,
         UNCHANGED <<kind, life, memory, stored, unsaved>>
  PROVE  AssignInv'
<1>1. jobs \in Seq(Job) /\ Len(jobs) \in Nat
  BY DEF TypeOK
<1>2. /\ Len(jobs') = Len(jobs) + 1
      /\ \A i \in 1 .. Len(jobs) : jobs'[i] = jobs[i]
      /\ jobs'[Len(jobs) + 1] = j
  BY <1>1, AppendFacts
<1>3. RunningOpen'
  BY <1>1, <1>2 DEF AssignInv, RunningOpen
<1>4. CASE j.what = "assign"
  <2>1. ASSUME NEW i \in 1 .. Len(jobs'),
               \A m \in i + 1 .. Len(jobs') : jobs'[m].what # "assign"
        PROVE  i = Len(jobs) + 1
    BY <1>1, <1>2, <1>4, <2>1
  <2>2. QED BY <1>1, <1>2, <1>3, <1>4, <2>1 DEF AssignInv, LastWrite
<1>5. CASE j.what = "checkpoint"
  <2>1. SUFFICES ASSUME kind = "session", life = "running"
                 PROVE  LastWrite'
    BY <1>3 DEF AssignInv, LastWrite
  <2>2. (\A i \in 1 .. Len(jobs') : jobs'[i].what # "assign")
           => unsaved \/ stored.work = assignment
    BY <1>1, <1>2, <2>1 DEF AssignInv, LastWrite
  <2>3. ASSUME NEW i \in 1 .. Len(jobs'), jobs'[i].what = "assign",
               \A m \in i + 1 .. Len(jobs') : jobs'[m].what # "assign"
        PROVE  jobs'[i].value = assignment
    <3>1. i \in 1 .. Len(jobs) /\ jobs'[i] = jobs[i]
      BY <1>1, <1>2, <1>5, <2>3
    <3>2. \A m \in i + 1 .. Len(jobs) : jobs[m].what # "assign"
      BY <1>1, <1>2, <2>3, <3>1
    <3>3. QED BY <2>1, <2>3, <3>1, <3>2 DEF AssignInv, LastWrite
  <2>4. QED BY <1>5, <2>2, <2>3 DEF LastWrite
<1>6. QED BY <1>4, <1>5

\* The first job is done; an assignment was written, or its write raised.
LEMMA LeaveAssign ==
  ASSUME AssignInv, TypeOK, jobs # <<>>, jobs' = Tail(jobs), life = "running",
         \/ Job1.what = "assign" /\ stored'.work = Job1.value
         \/ unsaved'
         \/ Job1.what # "assign" /\ stored'.work = stored.work /\ UNCHANGED unsaved,
         UNCHANGED <<kind, life, memory, assignment>>
  PROVE  AssignInv'
<1>1. jobs \in Seq(Job) /\ Len(jobs) \in Nat \ {0}
  BY TailFacts DEF TypeOK
<1>2. /\ Len(jobs') = Len(jobs) - 1
      /\ \A i \in 1 .. Len(jobs) - 1 : jobs'[i] = jobs[i + 1]
      /\ Job1 = jobs[1]
  BY <1>1, TailFacts DEF Job1
<1>3. RunningOpen'
  BY <1>1, <1>2 DEF AssignInv, RunningOpen
<1>4. SUFFICES ASSUME kind = "session"
               PROVE  LastWrite'
  BY <1>3 DEF AssignInv, LastWrite
<1>5. ASSUME \A i \in 1 .. Len(jobs') : jobs'[i].what # "assign"
      PROVE  unsaved' \/ stored'.work = assignment
  <2>1. ASSUME NEW m \in 2 .. Len(jobs)
        PROVE  jobs[m].what # "assign"
    <3>1. m - 1 \in 1 .. Len(jobs') /\ jobs'[m - 1] = jobs[m]
      BY <1>1, <1>2
    <3>2. QED BY <1>5, <3>1
  <2>2. CASE Job1.what = "assign"
    BY <1>1, <1>2, <1>4, <2>1, <2>2 DEF AssignInv, LastWrite
  <2>3. CASE Job1.what # "assign"
    <3>1. \A m \in 1 .. Len(jobs) : jobs[m].what # "assign"
      BY <1>1, <1>2, <2>1, <2>3
    <3>2. QED BY <1>4, <2>3, <3>1 DEF AssignInv, LastWrite
  <2>4. QED BY <2>2, <2>3
<1>6. ASSUME NEW i \in 1 .. Len(jobs'), jobs'[i].what = "assign",
             \A m \in i + 1 .. Len(jobs') : jobs'[m].what # "assign"
      PROVE  jobs'[i].value = assignment
  <2>1. i + 1 \in 1 .. Len(jobs) /\ jobs'[i] = jobs[i + 1]
    BY <1>1, <1>2
  <2>2. ASSUME NEW m \in i + 2 .. Len(jobs)
        PROVE  jobs[m].what # "assign"
    <3>1. m - 1 \in i + 1 .. Len(jobs') /\ m - 1 \in 1 .. Len(jobs) - 1
      BY <1>1, <1>2
    <3>2. jobs'[m - 1].what # "assign" /\ jobs'[m - 1] = jobs[(m - 1) + 1]
      BY <1>2, <1>6, <3>1
    <3>3. (m - 1) + 1 = m
      BY <1>1, <1>2
    <3>4. QED BY <3>2, <3>3
  <2>3. \A m \in (i + 1) + 1 .. Len(jobs) : jobs[m].what # "assign"
    BY <1>1, <2>2
  <2>4. QED BY <1>4, <1>6, <2>1, <2>3 DEF AssignInv, LastWrite
<1>7. QED BY <1>5, <1>6 DEF LastWrite

\* Assignments: messages and stops.
LEMMA CallerAssign ==
  ASSUME TypeInv, Unused, AssignInv, NEW c \in Callers, CallerStep(c)
  PROVE  AssignInv'
<1>1. CASE UNCHANGED <<kind, life, memory, jobs, stored, assignment, unsaved>>
  BY <1>1, SameAssign
<1>2. CASE FinishStop(c, jobs) /\ UNCHANGED <<kind, memory, stored, assignment, unsaved>>
  <2>1. CASE life = "running"
    BY <1>2, <2>1 DEF FinishStop, AssignInv, RunningOpen, LastWrite
  <2>2. CASE life # "running"
    BY <1>2, <2>2, SameAssign DEF FinishStop
  <2>3. QED BY <2>1, <2>2
<1>3. ASSUME NEW w \in Work, Assigned(c, w)
      PROVE  AssignInv'
  <2>1. CASE memory = "open"
    <3> DEFINE j == [caller |-> c, what |-> "assign", value |-> w]
    <3>1. j \in Job /\ j.what = "assign" /\ j.value = w
      BY DEF Job
    <3>2. jobs' = Append(jobs, j) /\ assignment' = w
         /\ UNCHANGED <<kind, life, memory, stored, unsaved>>
      BY <1>3, <2>1 DEF Assigned, Submit, fsmVars
    <3> HIDE DEF j
    <3>3. \/ j.what = "assign" /\ assignment' = j.value
          \/ j.what = "checkpoint" /\ UNCHANGED assignment
      BY <3>1, <3>2
    <3>4. QED BY <3>1, <3>2, <3>3, JoinAssign DEF TypeInv
  <2>2. CASE memory # "open"
    <3>1. life # "running" /\ life' # "running"
      BY <1>3, <2>2 DEF Assigned, AssignInv, RunningOpen, fsmVars
    <3>2. QED BY <3>1 DEF AssignInv, RunningOpen, LastWrite
  <2>3. QED BY <2>1, <2>2
<1>4. CASE at[c] = "locking" /\ Submit(c, "checkpoint", life)
           /\ UNCHANGED <<kind, life, memory, stored, assignment, unsaved>>
  <2> DEFINE j == [caller |-> c, what |-> "checkpoint", value |-> life]
  <2>1. life \in {"running", "stopped"}
    BY <1>4 DEF Unused, TypeInv, TypeOK
  <2>2. j \in Job /\ j.what = "checkpoint"
    BY <2>1 DEF Job
  <2>3. jobs' = Append(jobs, j)
    BY <1>4 DEF Submit
  <2> HIDE DEF j
  <2>4. QED BY <1>4, <2>2, <2>3, JoinAssign DEF TypeInv
<1>5. CASE \/ Begin(c) \/ Finish(c) \/ StopSession(c)
           \/ \E a \in Watched : PhaseComplete(c, a) \/ HealthChange(c, a)
  BY <1>1, <1>5 DEF Begin, Finish, StopSession, PhaseComplete, HealthChange, fsmVars, storeVars
<1>6. CASE StopConversation(c) \/ StopTransient(c) \/ Cancelled(c)
  BY <1>1, <1>2, <1>6 DEF StopConversation, StopTransient, Cancelled
<1>7. CASE TakeLock(c)
  BY <1>1, <1>4, <1>7 DEF TakeLock, fsmVars
<1>8. QED BY <1>3, <1>5, <1>6, <1>7 DEF CallerStep

\* Assignments: the database thread.
LEMMA JobAssign ==
  ASSUME TypeInv, AssignInv, JobStep
  PROVE  AssignInv'
<1>1. jobs # <<>> /\ jobs \in Seq(Job) /\ TypeOK
  BY DEF JobStep, AssignWritten, CheckpointLost, CheckpointWritten, Closed, NextJob, TypeInv, TypeOK
<1>2. CASE life # "running"
  <2>1. life' # "running"
    BY <1>2 DEF JobStep, AssignWritten, CheckpointLost, CheckpointWritten, Closed, FinishStop, fsmVars
  <2>2. QED BY <2>1 DEF AssignInv, RunningOpen, LastWrite
<1>3. CASE life = "running"
  <2>2. ~Closed
    BY <1>1, <1>3, TailFacts DEF Closed, NextJob, Job1, AssignInv, RunningOpen
  <2>3. CASE AssignWritten
    <3>1. jobs' = Tail(jobs) /\ UNCHANGED <<kind, life, memory, assignment>>
      BY <2>3 DEF AssignWritten, fsmVars
    <3>2. CASE unsaved'
      BY <1>1, <1>3, <3>1, <3>2, LeaveAssign
    <3>3. CASE ~unsaved'
      <4>1. Job1.what = "assign" /\ stored' = [stored EXCEPT !["work"] = Job1.value]
        BY <2>3, <3>3 DEF AssignWritten, Write, NextJob
      <4>2. stored'.work = Job1.value
        BY <1>1, <4>1 DEF TypeOK
      <4>3. QED BY <1>1, <1>3, <3>1, <4>1, <4>2, LeaveAssign
    <3>4. QED BY <3>2, <3>3
  <2>4. CASE CheckpointWritten
    <3>1. life' # "running"
      BY <1>3, <2>4 DEF CheckpointWritten, FinishStop
    <3>2. QED BY <3>1 DEF AssignInv, RunningOpen, LastWrite
  <2>5. CASE CheckpointLost
    <3>1. /\ Job1.what # "assign" /\ stored'.work = stored.work /\ UNCHANGED unsaved
          /\ jobs' = Tail(jobs) /\ UNCHANGED <<kind, life, memory, assignment>>
      BY <2>5 DEF CheckpointLost, NextJob, fsmVars
    <3>2. QED BY <1>1, <1>3, <3>1, LeaveAssign
  <2>6. QED BY <2>2, <2>3, <2>4, <2>5 DEF JobStep
<1>4. QED BY <1>2, <1>3

\* Every step preserves the invariant of assignments.
LEMMA AssignStep ==
  ASSUME ContainerInv, AssignInv, [Next]_vars
  PROVE  AssignInv'
<1>1. TypeInv /\ Unused /\ CheckpointRestartable
  BY DEF ContainerInv, ProcessInv, StoreInv
<1>2. CASE \E c \in Callers : CallerStep(c)
  BY <1>1, <1>2, CallerAssign
<1>3. CASE JobStep
  BY <1>1, <1>3, JobAssign
\* what a session restores is what the database has
<1>4. CASE Start
  <2>1. /\ jobs' = <<>> /\ memory' = "open" /\ UNCHANGED <<kind, stored>>
        /\ kind = "session" => assignment' = stored.work
    BY <1>1, <1>4 DEF Start, Unused
  <2>2. QED BY <2>1 DEF AssignInv, RunningOpen, LastWrite
<1>5. CASE Restart
  BY <1>5 DEF Restart, AssignInv, RunningOpen, LastWrite
<1>6. CASE (\E a \in Watched : GrowOld(a)) \/ DetectorStep \/ UNCHANGED vars
  BY <1>6, SameAssign
  DEF GrowOld, DetectorStep, Doze, DetectorDies, Wake, Continue, Report, vars, fsmVars, storeVars
<1>7. QED BY <1>2, <1>3, <1>4, <1>5, <1>6 DEF Next

\* Whatever calls overlap and whenever the worker dies, between database jobs
\* the assignment that a restart would restore is the one the running agent
\* works on, unless the last write raised: no "[Task Assigned]" is overtaken
\* by an earlier one, an error of an earlier write is made good by a later
\* one, and none is dropped in silence while the lifecycle runs (session.py,
\* handle_inbound; memory_store.py, set).
THEOREM AssignmentAlwaysStored == Spec => []AssignmentStored
<1>1. Init => AssignInv
  BY DEF Init, AssignInv, RunningOpen, LastWrite
<1>2. ContainerInv /\ AssignInv /\ [Next]_vars => AssignInv'
  BY AssignStep
<1>3. AssignInv => AssignmentStored
  BY DEF AssignInv, LastWrite, AssignmentStored
<1>4. QED BY <1>1, <1>2, <1>3, ContainerInvAlways, PTL DEF Spec
=============================================================================
