# vcompany in TLA+

vcompany ("vco") runs a company of coding agents. A **daemon** (the *head*,
`src/vcompany/`) owns the registry of agents, talks to Discord and decides who
does what. Each agent is a **worker** process (`packages/vco-worker/`) that
hosts one container and talks to the head over a unix socket with one JSON
frame per line. Workers survive the daemon: a restarted head reads
`routing.json` and reconnects.

This directory holds TLA+ models of the parts of that system where order,
failure and restarts matter, TLC configurations that check them on small
instances, and TLAPS proofs of the central safety properties for every
instance. Line numbers below are those of the modelled commit; `PROJECT.json`
gives, for every definition, the lines it stands for.

## 1. Inventory

| Component | State | Operations | Talks to | What is hard |
|---|---|---|---|---|
| Worker socket server (`vco_worker/main.py`, `channel/`) | socket file, container holder, one shared writer proxy, a task per connection | start, reconnect, message, give-task, health-check, stop; outbox forwarding; exit | head, by frames; container, by calls | overlapping connections, `drain()` that waits or raises, bind race of two processes, exit that waits for handlers |
| Worker container (`container/`, `agent/`, `handler/`) | lifecycle state machine, sub-state, task queue, memory store, stuck detector | start, stop, handle_inbound, give_task | server, SQLite | overlapping handlers, two stops, a background task that dies |
| Conversation session (`conversation.py`, `workflow_master.py`) | `_initialized`, a lock; the cog's conversation | send, relay, on_ready | Claude CLI | time-outs, half-done creation, a relay before on_ready, a conversation replaced while it is used |
| Agent head (`company_root.py`, `agent_handle.py`, `routing_state.py`) | `_company_agents`, handles, `routing.json`, last health | hire, dismiss, reconnect, health poll, channel reader, start, stop | workers, runtime API, Discord | crash between steps, a dismissal that awaits between registry and file, late answers, handle held across a wait |
| Runtime API (`runtime_api.py`) | channel ids | hire, dispatch, kill, relaunch, projects, alerts, forwards | CompanyRoot, CLI, bot | handle used after the registry has changed |
| Transports (`transport/`) | connection or container per agent | spawn, wait for socket, connect | workers | time-out that leaves the process behind |
| Backlog (`backlog.py`) | queue of items, lock, stored copy | append, insert, reorder, cancel, claim, complete, put back | memory store, PM | write after mutation, crash in between |
| Project state (`project_state.py`) | assignment records | assign, completed, failed, reassign_stale | backlog, PM handler | two commits per operation, a sweep without the lock |
| PM message handler (`handler/transient.py`) | timestamps, flagged agents | message prefixes, stuck detector | project state, reports | snapshot used across an await |
| Daemon (`daemon.py`, `server.py`, `bot/client.py`) | pid file, control socket, handshakes, readiness of the bot | up, down, restart, requests, signals, shutdown | CLI, bot, CompanyRoot | two daemons starting at once, a step of the start-up that raises, idle clients at shutdown |
| Scheduler (`scheduler.py`, `memory_store.py`) | wake times, stored row | add, remove, pass | store thread, agents | an entry written across an await, commit apart from write |
| Degraded mode (`degraded_mode.py`) | mode, two counters | check, reported results, alert, stop | Discord, `add_project` | hysteresis, an alert that raises inside the watch |
| Supervision tree (`supervisor.py`, `project_supervisor.py`, `restart_tracker.py`) | children, restart budget | restart strategies, escalation | parents, children | restart windows (no child can be started in this version) |
| Message queue, bulk failures, delegation | priority queue, window, counters | enqueue, detect, delegate | Discord, CompanyRoot | not reachable in this version |
| Plan review and workflow gates (`plan_review.py`, `views/`, `workflow_orchestrator_cog.py`) | reviews under way, plan gate, stage | detect, review, approve, reject, time out, execute | Discord, PM, agent | button against time-out, versions that overtake each other |
| Discord gateway (`commands.py`, `mention_router.py`, `comm_adapter.py`, `task_relay.py`) | channels, router tables | slash commands, mentions, reports | runtime API, agents | tables that outlive what they name |
| Strategist, PM tier, confidence (`strategist/`, `question_handler.py`) | decision log | answer, escalate, review | agent channel | errors after an answer, two listeners on one channel |
| Integration (`integration/`, `git/ops.py`) | clone with branches and an index, remote | merge, test, attribute, resolve, push | git, pytest | state left in the clone by a failed step |
| Monitoring, CLI, tmux, docker build, research tools | files | scripts | external tools | nothing with state |

What makes the modelled ones correct:

- **server**: output goes to a live connection; a worker that was told to stop
  exits.
- **head**: what a restart will look for is what the daemon manages, but for
  what the await inside a dismissal makes differ; what the head believes of an
  agent stands for something that happened.
- **company**: an acknowledged schedule survives; what is stored is what memory
  holds unless the last write failed; degraded mode begins and ends after as many
  results in a row as configured; `stop()` returns.
- **container**: messages one at a time; a checkpoint one can restart from; a
  stored assignment; a stop that ends.
- **backlog and project state**: nothing is lost or duplicated, memory and
  store agree, an item has one owner, records agree with the queue, what was
  completed stays completed.
- **conversation**: one command at a time in each conversation, and every call
  comes back.
- **daemon**: no request is served before its own connection's handshake;
  files do not outlive the processes; a shutdown ends.
- **gateway**: a mention reaches the worker that `CompanyRoot` knows, however
  the calls overlap; a report does not come back to its author.
- **plan gate and agent channel**: no plan is executed while people have still to
  decide on one they were asked about; a pending plan has somebody who was asked;
  one execute command per review; the bot does not talk to itself for ever.
- **integration**: what is published is what was tested; no failed test is left
  without an owner.

## 2. Modules

| Module | Models | Uses |
|---|---|---|
| `WorkerServer` | processes, socket file, connections, writer proxy and every branch of `handle_connection` | |
| `CompanyRoot` | the head's side of one agent id, composed with its workers | extends `WorkerServer` |
| `WorkLedger` | abstract specification: what may become of a work item | |
| `Backlog` | `BacklogQueue`; also what the PM may do to the queue | implements `WorkLedger` (`KeepsLedger`) |
| `ProjectState` | the PM's handler, `ProjectStateManager` and `reassign_stale` | extends `Backlog`, implements `BacklogSpec` and, through it, `WorkLedger` |
| `WorkerContainer` | the container inside a worker: lifecycle, three kinds of handler, memory store, stuck detector | |
| `ConversationSession` | `ConversationSession.send` around the Claude CLI, and the workflow-master cog that shares one | |
| `Daemon` | processes of the daemon, PID and socket files, socket server, on_ready, the commands `up`, `down` and `restart` | |
| `Company` | `CompanyRoot.start` and `stop`, projects, the watch of the API, the scheduler and its store | |
| `Gateway` | slash commands, RuntimeAPI calls on agents and projects, mention router, channels | |
| `PlanChecks` | the checks of `PlanReviewer`, as operators | |
| `PlanReview` | detection, review, buttons and gate of one agent's plans | `PlanChecks` |
| `AgentChannel` | the cogs that listen to one agent channel, and the ask hook | `PlanChecks` |
| `Integration` | pipeline, attribution, conflict resolver, git clone | |
| `*Proofs` | the theorems about the modules they extend (section 4) | |
| `MC*` | TLC instances | |

**Granularity.** Head and workers are single-threaded asyncio programs, so an
action is what a coroutine does between two suspension points; different
coroutines and different processes interleave. A definition whose name has an
underscore (`EndTask_KeepsProxy`) is a faulty variant of the definition that
follows it: it stands for a plausible bug and shows that a property can fail.

**Parts nobody calls.** Some pieces of this version are complete and have no
caller, or are injected by a caller that does not exist yet (`set_plan_reviewer`,
`set_pm`, the monitor loop behind `on_plan_detected`, `add_schedule`,
`reassign_stale`, `record_operational_failure` and `record_operational_success`). They are modelled through their public interface, called by
the environment, and where a piece is injected the model has both cases.

**WorkerServer.** `task[c]` is where the `handle_connection` coroutine of
connection `c` is; `proxy[p]` is `writer_proxy._writer`; `container[p]` is the
content of `container_holder`; `sockPath` is the process the socket file leads
to. A write never waits; the `await drain()` after it makes the task wait while
more than `MaxOut` frames are unread, and raises when that connection is lost.
`Listening`, `Connect` and `CloseEffect` are the operating system's part.
`AnyClient` lets clients do whatever the protocol allows, so what is proved of
`WorkerSpec` does not depend on the head.

**CompanyRoot.** `registered`, `sock`, `mine` and `health` are the `AgentHandle`
under one id in `_company_agents`; `routing` is the entry in `routing.json`;
`pending[p]` is a `spawn()` that still waits for its socket, by whom. A
`dispatch()` whose handle was dropped meanwhile is "detached": it still connects
and sends, into a handle nobody looks up. `dismiss()` is two steps: the handle
leaves the registry, and after the await of `stop_process` the entry leaves the
file; `leaving` are the connections of dismissals in between, and `overtaken`
marks a handle that was hired while one of them was there. Crash and shutdown
close the daemon's connections; a restart probes the entry's socket, reconnects
when it answers and drops the entry otherwise. Probe and drop are separate steps
(the daemon is "stale" in between, and the worker may have come up meanwhile),
and a reconnection that raises drops the entry of a worker that lives. Agents of different ids share only the event loop and the file,
so one id is modelled.

**Backlog, ProjectState, WorkLedger.** A mutation changes memory, then suspends
inside the write with the lock held; the write returns, raises, or never returns
because the process dies. `disk` is the stored queue. `assign` are the records
under `assignment:<agent>`, which are separate commits. `held` is what agents
work on. `reassign_stale` scans the live list without the lock and takes it only
inside `mark_pending`. The handler does not look who holds an item, so reports
may be about any item: "misreport" is a completion, "returned" a failure of an
item the reporter does not hold. Writes of records raise like those of the queue.
`faults` remembers which kinds of failure a behaviour has had, so that
`RecordsMatch`, `ExclusiveWork` and `CompletionStays` can say what holds until
which failure. `WorkLedger.Return` lets finished work go back to pending because
`mark_pending` does (`backlog.py` asks for no status); that this happens only
through a sweep or a mistaken report is what `CompletionStays` says. The ledger forgets order, lock and writes; the refinement mapping reads
its entries from queue, status and owner (`Entries`), once in memory and once in
the store.

**WorkerContainer.** `jobs` is the queue of the database connection's thread:
`set`, `checkpoint` and `close` are served in order, and a caller goes on when
its job is done, or raises when the job does. A write that raises leaves
`_current_assignment` ahead of the database: `unsaved` says so until a write
succeeds. `at[c]` is where the call of connection handler `c` is.
`age` abstracts timestamps to unknown, fresh or older than the threshold.

**ConversationSession.** A command of the CLI succeeds, fails or is given up
after 600 s; what was given up may still end, because nobody kills it. The cog
makes its conversation in `on_ready` and relays messages of its channel to it.
`on_ready` may be fired again; `_initialized` of the bot stops a call that comes
after the first has ended, so a conversation is replaced by calls that overlap.
`current` is the cog's conversation and `of[c]` the one caller `c` is in, each
with its own lock.

**Daemon.** `phase[d]` is where `_run` of process `d` is suspended; `pidFile` and
`sockFile` say to whom the two files lead. `setup`, `port` and `ready` are the
progress of the bot's `on_ready`. A connection is a slot that is used again,
because the server remembers handshakes by `id(writer)`. `vco down` signals the
process the PID file names; a process may also be killed.

**Company.** The channel to each agent is the subject of `CompanyRoot`; here an
agent is the state of its handle. `conf` says which optional arguments were
given, and whether projects are added. `Sleepers` are the agents whose container
may report that it sleeps. Results of the API are those of the watch and those
that callers report (`Operational`). `MemoryStore.set` is two calls queued for the SQLite thread, the statement
and the commit: `table` is the row as the connection sees it, `stored` as it
would be found after a crash. A cancelled pass leaves its queued statement
behind, without a commit. Each call may fail, and a failure may roll back the
transaction that all callers share: `unsaved` says that the last statement was
lost, so that memory is ahead of the row; `rolled` are the callers whose
statement was taken back by the failure of somebody else's call.

**Gateway.** A handle stands for an `AgentHandle` with its connection; `talk[n]`
is the one on which worker `n` answers. The three tables of the router are kept
as they are in the code, with what they say of agents that are gone. Calls
overlap freely, on one agent too; each await of a call is the end of a step, the
confirmation of `/kill` and the spawn inside a dispatch included. Two history
variables mark handles: `raised`, whose hire raised after the worker had started,
and `overtaken`, whose hire was not over when a later one had its worker.

**PlanReview, PlanChecks.** A review `<<p, v>>` is the coroutine for version `v`
of plan `p`, and each button that is pressed is one more coroutine. `verdict` is
a history variable: the last decision since the plan was posted. A scan may fail
and forget what it has seen, so every plan is detected again. `Asked(r)` says that
people were asked about a version and their answer has not been taken up.

**AgentChannel.** Each message starts a job. `wired` says which of the injected
parts there are. A text is what `_handle_review_response` finds in it, so the
bot's own messages are read as review responses exactly when the code would. A
job that waits for the `claude` process of the PM is at "claude": `pm.py:147-154`
awaits it without a time-out, so nothing says that it ever leaves.

**Integration.** A branch's content is the set of agents whose work it holds.
Which merges conflict (`clash`) and which tests fail on which contents
(`broken`) is chosen at the start, so git and pytest are functions and the same
question gets the same answer. A re-run whose output names none of the candidates
counts for all of them, as the condition of `_parse_failed_tests` has it
(`RerunOther`). Runs follow one another in the clone; see section 5.

## 3. Runs

| Run | Expected | Checks |
|---|---|---|
| `worker` | pass | `ProxyIsLive`, `StoppedWorkerExits`: two workers, two connections, arbitrary clients |
| `company_root` | pass | `TypeOK`, `RegistryPersisted`, `HealthIsGrounded`: two processes, two connections, overlapping hires, dismissals and dispatches, crashes, shutdowns |
| `pm` | pass | `RecordsMatch`, `ExclusiveWork`, `OncePerItem`, `Saved`, `NothingLost`, `KeepsLedger`, `CompletionStays`: two items, two agents; failing writes and crashes, mistaken reports, or a sweep |
| `container` | pass | `OneAtATime`, `CheckpointRestartable`, `AssignmentStored`, `StopEnds`: three overlapping callers, all three kinds, writes that raise |
| `conversation` | pass | `OneCommand`, `EverySendReturns`: three callers, two conversations, the cog, restarts |
| `daemon` | pass | `Handshaken`, `FilesCleaned`, `ShutdownEnds`: two daemons, a connection slot, two lines per client |
| `gateway` | pass | `RouterCurrent`, `NoEcho`: a task agent and the Strategist, two calls that overlap in every way |
| `integration` | pass | `PublishedIsTested`, `FailuresOwned`: two agents, two tests, three runs in one clone |
| `plan_review` | pass | `PendingHasReview`, `PostedPlansWait`, `ReviewEnds`: two plans, one of them written twice, failing scans |
| `agent_channel` | pass | `ExecutedOnce`, `ChannelSettles`, `AskEnds`: two jobs, one question, every choice of injected parts |
| `company` | pass | `AckedSurvives`, `StoredIsCurrent`, `Consecutive`, `ScheduleMoves`, `RecoversWhileWatched`, `StopReturns`: two agents, a project, watch or scheduler, failing calls of the store |
| `auto_recover` | violation | `AutoRecovers` |

### What the violation shows

**auto_recover** (`degraded_mode.py:120`). `_record_result` awaits the
`on_degraded` callback, which sends a message to the alerts channel. If Discord
raises, nothing catches it: the exception ends `_check_loop`. The API comes back,
nobody looks, and every later `add_project` is refused, although the module says
"The system auto-recovers when service returns." (`degraded_mode.py:5`) and the
alert "Will auto-recover." (`runtime_api.py:206`). `RecoversWhileWatched` says
what is left of the promise: it holds while the watch is alive.

### Seen while modelling, without a run

Behaviours the models have, or that were met while reading. Worker and head:

- a head that reconnects before the handler of its old connection has seen the
  end of the stream is muted by the old handler's `finally` (`main.py:277`);
- two start frames on two connections pass the check of `container_holder`
  before the first bootstrap fills it (`main.py:220`): two containers, one of
  them never stopped; `drain()` behind the "stopped" signal raises when the head
  hangs up with unread frames (`main.py:265`): the container is stopped, the
  server is not; a health report goes to the proxy's connection and not to the
  one that asked (`main.py:254`);
- two workers that start together both find the socket path free
  (`socket_server.py:42`): the second binds over the first;
- a dismissal writes its stop frame to a connection the worker no longer reads
  (`company_root.py:394`, `agent_handle.py:75`): the worker stays; the reader of
  a connection ends at the first frame it cannot handle (`company_root.py:326`);
- `dismiss()` awaits between the registry and the file (`company_root.py:408`): a
  crash there leaves the entry of an agent that was dismissed, and a hire that
  overlaps it loses its own entry when the dismissal ends; a reconnection that
  raises drops the entry of a worker that answers (`company_root.py:562`);
- a crash inside `write_text` leaves a torn `routing.json` (`routing_state.py:49`);
- an agent hired while `stop()` stops the others is dropped by `clear()`
  unstopped (`company_root.py:704`); an exception that ended the watch is raised
  again by its `stop()`, before any agent is stopped (`degraded_mode.py:75`).

Container, conversation, PM:

- a stuck detector that died inside `send_report` raises its error in every
  `stop()` (`transient.py:137`), and it reports an agent whose phase changed
  while the report before was being sent (`transient.py:163`);
- `_exec_claude` returns an apology instead of `None`, so a failed creation
  counts as done (`conversation.py:83`, `conversation.py:86`);
- the assignment of a session is set before the write that may raise
  (`session.py:94-95`), so that what the agent works on is not what a restart
  would restore; the scheduler does the same (`scheduler.py:88`);
- reports of agents are taken as they come (`transient.py:84-97`): the failure
  report of an agent that does not hold an item puts it back, even when it was
  completed, although the docstring speaks of items that are assigned
  (`project_state.py:85-86`);
- `reassign_stale` puts back an item that was completed while it waited for the
  lock (`project_state.py:101`), and names the record to delete by `assigned_to`
  after `mark_pending` has cleared it (`project_state.py:103`).

Daemon, gateway, scheduler:

- two daemons started at once both find no PID file (`daemon.py:579`), and the
  one that ends first removes the other's files; a signal is not looked at while
  the daemon waits for the bot (`daemon.py:132`), for ever when the guild is
  missing (`client.py:113`); `wait_closed` waits for clients whose writers are
  closed only afterwards (`server.py:55`), which is why shutdown takes up to the
  read time-out;
- two overlapping hires of one agent make two channels and two workers
  (`comm_adapter.py:128`), and the one that ends last tells the router, which may
  be the one whose handle the registry has lost (`runtime_api.py`, `hire`); routes of task agents are
  not built again after a restart (`daemon.py:208`); a message in a task channel
  is delivered by the router and by the relay (`task_relay.py:74`); a Docker
  container's name is never free again (`docker_channel.py:62`);
- a schedule that is removed during a pass is put back by it
  (`scheduler.py:113`); all calls of the store share one transaction
  (`memory_store.py:82-86`), so the failure of one takes back the statement of
  another, whose own commit then succeeds with nothing in it.

Plan gate, channel, integration:

- the gate says "All plans approved" (`plan_review.py:371`, `plan_review.py:422`),
  which is not what it checks: a rejected plan leaves `pending_plans`, so the approval
  of the others fires the execution of all (`plan_review.py:369-372`); a plan that
  is still being read or not yet posted does not hold the gate, and the decision
  on an older version frees the newer one. What is left is `PostedPlansWait`; any error after a review of low
  confidence ends in the automatic approval (`plan_review.py:211`); the
  escalation of a LOW answer raises `AttributeError` (`question_handler.py:183`),
  and so does the report of a finished workflow
  (`workflow_orchestrator_cog.py:425`);
- the `claude` process of the PM is awaited without a time-out (`pm.py:147-154`);
  one that does not end keeps its coroutine for ever;
- a conflict while one branch is tested alone is left unfinished in the clone
  (`attribution.py:61`), and the branches `_attr_<agent>` of one run are met by
  the next, which then tests old work and blames the wrong agent; the comment in
  `_parse_failed_tests` says "If no FAILED lines parsed", its condition is true
  only when there are some that name no candidate (`attribution.py:131-133`);
  conflicts are looked for in stderr, where git does not write them
  (`pipeline.py:197`); of several conflict blocks in a file the first is
  replaced by the answer to the last, and the others stay
  (`conflict_resolver.py:79`);
- `RuntimeAPI` builds `IntegrationPipeline` with keyword arguments it does not
  have (`runtime_api.py:456-459`), so this caller gets a `TypeError`; the
  pipeline is modelled through its own `run()`.

### Bounds

- `worker`, `company_root`: two connections are the least with an old and a new
  handler, and with a head whose connection the worker no longer serves; two
  processes the least with a spawn that timed out and its successor. A
  connection and a process are used once. `MaxIn = 1` frame in flight per client
  keeps runs small: a second frame is read only after the first one's handler,
  so it adds no new order inside one connection. `MaxOut = 1` makes `drain()`
  wait and not wait. In `worker` the two processes race for the path,
  and at most one client connects while both are there, to either
  (`OneClientOfTwo`); more clients of two workers are in `company_root`.
- `pm`: two items are enough to have a queue while one is claimed, two agents
  are needed where ownership may be contested. `Bounded` takes failing writes and
  crashes, or mistaken reports, or one sweep with one active agent, not several
  of these at once; the properties are also proved, for any numbers and all
  failures together.
- `container`, `conversation`: three callers, one that handles, one that stops
  and one that stops again; one that holds the lock and two that queue. Two
  conversations, one of which replaces the other.
- `daemon`: two processes race; one slot is enough to be used again, by the
  same and by another daemon; two lines are a hello and a request.
- `gateway`: one task agent and one channel are enough, since calls about
  different agents share no entry of a table; two calls overlap on it. With
  `MaxHandles = 3` there is the Strategist's handle and those of two hires. What
  is recorded of a handle that nobody refers to is never read again, so states
  that differ only in that are one (`VIEW Referred`).
- `integration`: two agents are the least with an interaction of two branches;
  the second run finds the clone the first one left, the third what the second
  made of it; files have up to two blocks.
- `plan_review`: two plans, so that the last decision is about one of them only,
  one with two versions, so that a version overtakes the other.
- `agent_channel`: with `Grain = 2` coverage and an earlier decision give all
  three levels of confidence; two messages and two polls show an answer before,
  at and after the last poll.
- `company`: one call of the scheduler's interface at a time beside the pass;
  the clock has two values, before and after a wake; one agent may sleep. The
  watch and the scheduler share no state and are checked one at a time; projects
  depend on the watch alone (`MCConfigs`).
- Items, agents, processes and connections are symmetric where no liveness
  property is checked (`pm`, `company_root`, `gateway`).
- Deadlock is not checked where the system may really stop: when the processes
  and connections of an instance are used up (`worker`, `company_root`,
  `daemon`), or nobody calls (`gateway`, `plan_review`, `agent_channel`,
  `company`, `auto_recover`).

### Fairness

The event loop of a live process resumes what can go on, so a coroutine that can
step eventually does: `WorkerFairness`; `TakeLock`, `Cancelled` and the database
thread in `WorkerContainer`; `Run` and `Handle` in `Daemon`; each review in
`PlanReview`; each job, the bot's own messages and the ask handler in
`AgentChannel`; the watch, the scheduler, the database thread and `stop()` in
`Company`. A view ends by its time-out. Commands of the CLI in a conversation end
within `wait_for(..., 600)`; `asyncio.Lock` wakes its waiters in order, which is
strong fairness of `TakeLock` in `ConversationSession`. The `claude` process of
the PM has no time-out (`pm.py:147-154`): `Answered` has no fairness, and
`ChannelSettles` exempts the jobs that wait for it. Clients, operators, people
at the buttons, crashes and restarts owe nothing. `Integration` has no fairness
and no liveness property.

Two waits are taken to end although the code does not bound them: the `drain()`
calls of the daemon's answers (`server.py:110`, `126`, `132`), which a client
that never reads can block, and the `wait_closed` of the outbox server when a
worker exits (`main.py:316-317`). `ShutdownEnds` and `StoppedWorkerExits` are
about everything else that keeps a process.

## 4. Proofs

Every theorem holds for all values of the constants that satisfy the `ASSUME`
of the module (markers are not members of the sets they mark, bounds are
positive, the coroutines on a channel finite in number). Where a theorem needs
more, the hypothesis stands in its statement and is explained below.

- **`CompanyRootProofs`**, workers — `WorkerSafety`, `ProxyAlwaysLive`. `ProxyIsLive`
  is not inductive: that an accepted connection may become the proxy needs that
  the handlers of a dead process are over. `WorkerInv` adds `BusyServed` (a
  running handler belongs to a process that still runs) and `FreshConn` (a
  connection that was not opened has no handler and is in no queue). One lemma
  for each group of actions; `HandlerEnds` and `StayBusy` carry the two ways a
  handler's step can end.
- **`CompanyRootProofs`**, head — `RootTypes`, `RegistryAlwaysPersisted`,
  `HealthAlwaysGrounded`. `RootInv` joins `WorkerInv`, the types,
  `RegistryPersisted`, `DownIsEmpty` (a daemon that is down has no handle, no
  spawn and no dismissal under way), `OvertakenMarked` (the end of a dismissal
  meets only handles that were hired during it, and knows them), and, for the health reports, a chain from the worker
  to the head: a container that exists was booted (`Booted`), a "running" frame
  in a connection was written by a process that booted one (`ReportsTrue`), and
  what the head believes came from one of its own connections (`Believed`). The
  chain holds although the proxy may name another connection than the one that
  asked, because reports never leave the process.
- **`ProjectStateProofs`**, backlog — `BacklogSaved`, `BacklogOnce`, `BacklogUnowned`,
  `BacklogKeeps`, `BacklogImplementsLedger`. `BacklogInv` adds the shape of the
  stored queue, that it obeys the same ownership and uniqueness rules (a restart
  makes it the queue), and that what is stored is listed (`StoredListed`),
  without which a write could lose an item. Lemmas say what `InsertAt` and
  `RemoveAt` do to the elements of a sequence without repetitions. The refinement
  needs besides that items that are not listed are untouched (`LedgerInv`), so
  that adding one starts from the ledger's `Absent`.
- **`ProjectStateProofs`**, PM — `PmImplementsBacklog`: with the identity mapping,
  each step of the PM, of the sweep and of a crash is a step of `BacklogNext` or
  leaves the backlog alone; `PmSaved` and `PmKeepsLedger` carry the backlog's
  results over. `PmExclusiveWork` speaks of behaviours without a sweep and without
  the failure report of an agent that does not hold the item, `PmRecordsMatch` of
  those without any failure: `ExclusiveInv` (`Closed`) says what agents hold while
  a claim is not yet written, `RecordsInv` (`Matched`) what the handler has still
  to store or delete. `PmCompletionStays` allows crashes and failing writes:
  `DoneInv` (`Done`) says that nobody holds and no claim names an item that is
  completed, in memory or in the store, and that memory is not behind the store,
  so that no report and no write puts it back.
- **`WorkerContainerProofs`** — `OneAtATimeAlways`,
  `CheckpointAlwaysRestartable`, `AssignmentAlwaysStored`. None is inductive. The first needs that only
  event-driven handlers process (`HandlersProcess`), that their database has no
  other job than the `close()` of a stop (`OnlyClose`), and that nobody uses a
  container before it is started (`Unused`). The second rests on the order of
  database jobs: after a stop the `close()` is done or queued (`StopCloses`), so
  a checkpoint that reads "stopped" is queued behind it and cannot be stored
  (`LateCheckpoint`). `JoinQueue` and `LeaveQueue` say how the two facts survive
  a job that comes or goes. The third needs the same order: while the container
  runs no `close()` is queued (`RunningOpen`), and the last assignment among the
  queued jobs is the agent's (`LastWrite`) unless a write has raised (`unsaved`).
- **`ConversationProofs`**, session — `OneCommandAlways`. `SessionInv` adds to the
  types and to `OneCommand` that a call inside `send()` is in a conversation
  (`InSend`); each way out of `send()` frees the lock of the conversation its
  caller is in, also when the cog has another by then (`ReplaceInv`).
- **`ConversationProofs`**, channel — `AlwaysExecutedOnce`. With the types of the
  jobs (`JobTypeOK`) the invariant is inductive, but the step is about a
  cardinality: `PlanCount` says how the number of plan reviews changes when one
  job does. Every step of a job keeps its kind or ends it (`OtherSteps`), and the
  one that commands the execution ends it in the same step (`ExecuteStep`), so a
  review that falls through to the automatic approval cannot command twice;
  `AnsweredStep` is the late answer of the `claude` process.
- **`DeliveryProofs`**, plan gate — `GateSafety`, `PendingAlwaysHasReview`,
  `PostedPlansAlwaysWait`. `GateInv` adds that a scan never starts a review over
  unless it forgot everything (`Detected`), that a view that has stopped has a
  result (`Pressed`), that a gate without a state stays empty (`Unmonitored`) and
  that a plan people were asked about is pending unless another review of it has
  decided (`OpenPending`).
- **`DeliveryProofs`**, integration — `PublishedAlwaysTested`,
  `FailuresAlwaysOwned`. The lemmas `CheckoutFacts`, `NewBranchFacts`, `MergeFacts`
  and `AbortFacts` say what each git command leaves behind, failed ones
  included. `MergeInv` says that what `run()` merges goes into the branch it will
  push; that needs that the branch of a later run does not exist yet (`CloneInv`)
  and that a merge left over by an earlier run is met by the first merge of the
  next, which fails. `BlameInv` says that until the end only agents are blamed,
  for tests that failed. `FailuresAlwaysOwned` has the hypothesis `NotAgents`: no
  agent is called `_interaction` or `_flaky`, the keys under which
  `attribute_failures` files what is nobody's. The validator of agent ids
  (`models/config.py:25`) would accept both names, so this is not an assumption
  about the constants of the module; with such an agent the two meanings of the
  key would be mixed up.
- **`DaemonProofs`** — `DaemonSafety`, `AlwaysHandshaken`, `FilesAlwaysCleaned`.
  `Handshaken` speaks of live daemons only and is strengthened to all
  (`OwnHandshake`); that a connection leaves the table of the right process
  when it ends needs that a slot without a server is free (`FreeSlots`).
  `FilesCleaned` says nothing while a process runs: `FilesOwned` says that until
  a process is killed each file names one that has still to remove it. With two
  daemons at once it names the one that wrote it last, and whichever ends first
  removes it.
- **`GatewayProofs`** — `GatewaySafety`, `RouterAlwaysCurrent`, `NeverEchoes`.
  `CallInv` says what a call under way works with: a channel of its own agent
  (`CallsNameTheirs`), which belongs to no other agent (`ChannelsApart`).
  `RouteInv` joins router and registry: a hire that has still to tell the router
  holds the registry's handle or was overtaken (`ConfirmsOwn`); the router's
  handle is the registry's, or the hire of that one is not over or raised, or the
  router was told by a hire that was overtaken (`RouterFollows`); the channel of
  the registry's handle leads back to the agent (`OwnerKnown`), and the
  Strategist's is always the same (`StrategistAtHome`). Nothing is assumed of how
  calls overlap.
- **`CompanyProofs`** — `AckedAlwaysSurvives`, `StoredAlwaysCurrent`,
  `AlwaysConsecutive`. The first two rest on the order in which the thread of the
  connection serves its queue (`StoreInv`): once the statement of an add has been
  executed, neither the row nor a statement that is still queued can lack the
  entry (`Kept`, `CommitSafe`, `Coming`), which in turn needs that an agent has
  at most one call in the queue, the one it waits for (`Awaited`); the last
  statement queued is what the scheduler holds (`Newest`), and a row that is not
  committed has a commit or a close behind it (`Uncommitted`), also when the pass
  that wrote it was cancelled; both but for a call that failed (`unsaved`), and
  the first but for a statement that went with somebody else's (`rolled`).
  `Enqueued`, `Shifted`, `StatementDone`, `Committed`, `Failed` and `CloseQueued`
  say how each survives a call that comes, goes or fails.
  The third follows from what the counters count (`Counted`).

Only model-checked: the liveness properties, which are beyond the prover
(`StoppedWorkerExits`, `StopEnds`, `EverySendReturns`, `ShutdownEnds`,
`ReviewEnds`, `ChannelSettles`, `AskEnds`, `ScheduleMoves`,
`RecoversWhileWatched`, `StopReturns`). Every invariant and every action property
of the passing runs is also proved.

## 5. Not modelled

- The stdio mode of the worker (`run_worker`): the same branches with one
  connection that is never replaced. Docker: the same control as the native
  transport. The network transport raises `NotImplementedError`.
- Two runs of the integration pipeline at once: `run()` awaits with no lock
  (`pipeline.py:74`), so two callers could share one clone. The only caller in this
  version fails before it (`runtime_api.py:456-459`).
- The `drain()` and `wait_closed` waits named under Fairness.
- Text of frames, prompts, embeds, logs and titles; frames always decode.
- A crash inside `write_text` of `routing.json`: a torn file makes
  `RoutingState.load` raise.
- Sleep, wake, block, unblock, error, recover, GSD phases, `_pending_review` and
  `handle_signal` of the container: nothing in the worker calls or sets them.
- Restart strategies of `Supervisor` and what only they feed (restart tracker,
  bulk failures): `_start_child` raises `NotImplementedError`, so no child ever
  exists. Delegation: the policy does not reach the supervisor. `MessageQueue`:
  nothing creates one.
- `StrategistCog`: not loaded in this version. Read-only commands, embeds, the
  alert buffer, context building for prompts.
- Monitoring and preflight, the command line apart from `up`, `down`, `restart`
  and `ask`, tmux, docker build, research tools: they read files, format text or
  run external programs, and keep no state the runtime depends on.

## 6. Plan

Done: all modules of the table in section 2, and proofs of every invariant and
every action property that a run checks.

Next:

1. Proofs: what `PlanChecks` computes, and the abstract specification of one
   agent's life that `Gateway` and `CompanyRoot` share.
2. The alert buffer of `alerts.py` across Discord disconnects, beside
   `Gateway`.
3. `Supervision`, once children can be started: restart budget, escalation and
   bulk failures, with the abstract specification "at most N restarts in a
   window".
