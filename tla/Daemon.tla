------------------------------- MODULE Daemon -------------------------------
(***************************************************************************)
(* The daemon (daemon/daemon.py), its socket server (daemon/server.py),    *)
(* the bot's on_ready (bot/client.py) and the commands that start, stop    *)
(* and call it (cli/up_cmd.py, down_cmd.py, restart_cmd.py, helpers.py     *)
(* with daemon/client.py).                                                 *)
(*                                                                         *)
(* A member of Daemons is one process started by `vco up`; it runs once.   *)
(* phase[d] is where _run is suspended.  A connection is a slot: the       *)
(* server keys its handshakes by id(writer), an address that is used again *)
(* once the writer is gone, so a slot is used again too.                   *)
(***************************************************************************)
EXTENDS Integers, FiniteSets

CONSTANTS
  Daemons,    \* processes started by `vco up`
  Conns,      \* connection slots
  NoDaemon,
  MaxLines    \* lines one client sends before it closes (DaemonClient: 2)

ASSUME DaemonAssumption == NoDaemon \notin Daemons /\ MaxLines \in Nat

VARIABLES
  phase,      \* where Daemon._run is
  stopping,   \* _shutdown_event
  pidFile,    \* the process named by the PID file
  sockFile,   \* the process whose listening socket the path leads to
  killed,     \* some process has died without running its finally block
  setup,      \* on_ready handlers between their guard and their end
  initialized,\* VcoBot._initialized
  port,       \* CommunicationPort registered with the daemon
  ready,      \* _bot_ready_event
  botDone,    \* bot.start() has returned or raised
  root,       \* CompanyRoot: "none", "noop" (holds the no-op port), "up", "stopped"
  endpoints,  \* RuntimeAPI methods are registered with the server
  conn,       \* connections
  handshake   \* SocketServer._handshake_done

runVars == <<phase, stopping, pidFile, sockFile, killed>>
botVars == <<setup, initialized, port, ready, botDone>>
apiVars == <<root, endpoints>>
connVars == <<conn, handshake>>
vars == <<runVars, botVars, apiVars, connVars>>

\* "other": a line that cannot be parsed, a hello with another version, an
\* unknown method, ping and subscribe, which change nothing here.
Requests == {"other", "hello", "shutdown", "api"}

Phases == {"off", "checked", "bot", "create", "project", "boot",
           "wait", "stop-root", "stop-server", "unlink", "gone"}

FreeConn == [srv |-> NoDaemon, at |-> "free", line |-> "none",
             open |-> FALSE, left |-> 0, greeted |-> FALSE]

No == [d \in Daemons |-> FALSE]

Init ==
  /\ phase = [d \in Daemons |-> "off"]
  /\ stopping = No
  /\ pidFile = NoDaemon /\ sockFile = NoDaemon
  /\ killed = FALSE
  /\ setup = [d \in Daemons |-> 0]
  /\ initialized = No /\ port = No /\ ready = No /\ botDone = No
  /\ root = [d \in Daemons |-> "none"]
  /\ endpoints = No
  /\ conn = [c \in Conns |-> FreeConn]
  /\ handshake = [d \in Daemons |-> {}]

Alive(d) == phase[d] \notin {"off", "gone"}
PidAlive == \E d \in Daemons : d = pidFile /\ Alive(d)
Goto(d, p) == phase' = [phase EXCEPT ![d] = p]

\* The end of a process: its memory and its connections are gone.
Reset(f, d, v) == [f EXCEPT ![d] = v]

Exit(d) ==
  /\ Goto(d, "gone")
  /\ stopping' = Reset(stopping, d, FALSE)
  /\ setup' = Reset(setup, d, 0)
  /\ initialized' = Reset(initialized, d, FALSE)
  /\ port' = Reset(port, d, FALSE)
  /\ ready' = Reset(ready, d, FALSE)
  /\ botDone' = Reset(botDone, d, FALSE)
  /\ root' = Reset(root, d, "none")
  /\ endpoints' = Reset(endpoints, d, FALSE)
  /\ handshake' = Reset(handshake, d, {})
  /\ conn' = [c \in Conns |-> IF conn[c].srv = d THEN FreeConn ELSE conn[c]]

-----------------------------------------------------------------------------
(* Start: _check_already_running, _write_pid_file, SocketServer.start.     *)

\* `vco up` raises before the daemon is made: no tmux, no bot token, a bad
\* agents.yaml.  A worktree that cannot be made is passed over.
LaunchFails(d) ==
  /\ phase[d] = "off"
  /\ Goto(d, "gone")
  /\ UNCHANGED <<stopping, pidFile, sockFile, killed, botVars, apiVars, connVars>>

\* The PID file names a live process.
Refuse(d) ==
  /\ phase[d] = "off"
  /\ PidAlive
  /\ Goto(d, "gone")
  /\ UNCHANGED <<stopping, pidFile, sockFile, killed, botVars, apiVars, connVars>>

\* There is no PID file, or a stale one: it and the socket file are removed.
CheckAlreadyRunning(d) ==
  /\ phase[d] = "off"
  /\ ~PidAlive
  /\ sockFile' = IF pidFile = NoDaemon THEN sockFile ELSE NoDaemon
  /\ pidFile' = NoDaemon
  /\ Goto(d, "checked")
  /\ UNCHANGED <<stopping, killed, botVars, apiVars, connVars>>

WritePidFile(d) == pidFile' = d

\* The PID file is written, the signal handlers are installed, the server and
\* the one for the agents' signals listen, and the bot's task is started.  A
\* socket file that is already there is replaced.
StartServer(d) ==
  /\ phase[d] = "checked"
  /\ WritePidFile(d)
  /\ sockFile' = d
  /\ Goto(d, "bot")
  /\ UNCHANGED <<stopping, killed, botVars, apiVars, connVars>>

\* A socket cannot be bound: the finally block runs.
StartSignalServerRaises(d) ==
  /\ phase[d] = "checked"
  /\ pidFile' = NoDaemon
  /\ Goto(d, "unlink")
  /\ UNCHANGED <<stopping, sockFile, killed, botVars, apiVars, connVars>>

-----------------------------------------------------------------------------
(* The bot.  on_ready fires again on every reconnect.                      *)

\* Once the daemon has stopped waiting for it, nothing that the bot's start
\* still does is looked at again: on_ready returns at its guard, and a
\* handler that had passed it repeats what is done.
BotRuns(d) == phase[d] = "bot" /\ ~botDone[d]

\* on_ready up to its first await: the guard is still open until the end.
OnReady(d) ==
  /\ BotRuns(d) /\ ~initialized[d] /\ setup[d] < 2
  /\ setup' = [setup EXCEPT ![d] = @ + 1]
  /\ UNCHANGED <<runVars, initialized, port, ready, botDone, apiVars, connVars>>

\* The guild is not found: the bot counts as ready, the daemon is not told.
GuildMissing(d) ==
  /\ BotRuns(d) /\ ~initialized[d]
  /\ initialized' = [initialized EXCEPT ![d] = TRUE]
  /\ UNCHANGED <<runVars, setup, port, ready, botDone, apiVars, connVars>>

SetCommPort(d) == port' = [port EXCEPT ![d] = TRUE]

\* Roles and channels are set up: the port is registered, the daemon told.
SetupDone(d) ==
  /\ BotRuns(d) /\ setup[d] > 0
  /\ setup' = [setup EXCEPT ![d] = @ - 1]
  /\ SetCommPort(d)
  /\ initialized' = [initialized EXCEPT ![d] = TRUE]
  /\ ready' = [ready EXCEPT ![d] = TRUE]
  /\ UNCHANGED <<runVars, botDone, apiVars, connVars>>

\* create_role raises: discord.py logs it, and nothing is registered.
SetupRaises(d) ==
  /\ BotRuns(d) /\ setup[d] > 0
  /\ setup' = [setup EXCEPT ![d] = @ - 1]
  /\ UNCHANGED <<runVars, initialized, port, ready, botDone, apiVars, connVars>>

BotEnds(d) ==
  /\ BotRuns(d)
  /\ botDone' = [botDone EXCEPT ![d] = TRUE]
  /\ setup' = [setup EXCEPT ![d] = 0]
  /\ UNCHANGED <<runVars, initialized, port, ready, apiVars, connVars>>

-----------------------------------------------------------------------------
(* _run after the bot's start.                                             *)

\* asyncio.wait(FIRST_COMPLETED) on the ready event and the bot's task; the
\* shutdown event is not among them.
WaitForBot(d) ==
  /\ phase[d] = "bot"
  /\ ready[d] \/ botDone[d]
  /\ Goto(d, IF botDone[d] THEN "wait" ELSE "create")
  /\ setup' = [setup EXCEPT ![d] = 0]
  /\ UNCHANGED <<stopping, pidFile, sockFile, killed, initialized, port, ready, botDone,
                 apiVars, connVars>>

\* CompanyRoot takes the port that is registered now, and starts; then the
\* endpoints are registered.
CreateRuntimeApi(d) ==
  /\ phase[d] = "create"
  /\ root' = [root EXCEPT ![d] = IF port[d] THEN "up" ELSE "noop"]
  /\ endpoints' = [endpoints EXCEPT ![d] = TRUE]
  /\ Goto(d, "project")
  /\ UNCHANGED <<stopping, pidFile, sockFile, killed, botVars, connVars>>

\* The Strategist is hired.
InitProject(d) ==
  /\ phase[d] = "project"
  /\ Goto(d, "boot")
  /\ UNCHANGED <<stopping, pidFile, sockFile, killed, botVars, apiVars, connVars>>

\* _send_boot_notifications: the marker of `vco restart` is removed, and two
\* messages are sent, if their channels are known.
BootNotified(d) ==
  /\ phase[d] = "boot"
  /\ Goto(d, "wait")
  /\ UNCHANGED <<stopping, pidFile, sockFile, killed, botVars, apiVars, connVars>>

\* Mutant: the files are only removed after an orderly shutdown.
InitFails_NoFinally(d) ==
  /\ phase[d] \in {"create", "project", "boot"}
  /\ Exit(d)
  /\ UNCHANGED <<pidFile, sockFile, killed>>

\* CompanyRoot.start, new_project (which raises for every project that has
\* agents) or a message raises: the finally block runs, nothing is stopped.
InitFails(d) ==
  /\ phase[d] \in {"create", "project", "boot"}
  /\ Goto(d, "unlink")
  /\ pidFile' = NoDaemon
  /\ UNCHANGED <<stopping, sockFile, killed, botVars, apiVars, connVars>>

\* _shutdown: CompanyRoot, then the server, then the bot, then the files.
ShutdownSeen(d) ==
  /\ phase[d] = "wait"
  /\ stopping[d]
  /\ Goto(d, "stop-root")
  /\ UNCHANGED <<stopping, pidFile, sockFile, killed, botVars, apiVars, connVars>>

StopRoot(d) ==
  /\ phase[d] = "stop-root"
  /\ root' = [root EXCEPT ![d] = IF @ = "none" THEN @ ELSE "stopped"]
  /\ Goto(d, "stop-server")
  /\ UNCHANGED <<stopping, pidFile, sockFile, killed, botVars, endpoints, connVars>>

\* CompanyRoot.stop raises, as it does once an alert could not be sent
\* (module Company): the server and the bot are not stopped, the finally
\* block removes the files.
StopRootRaises(d) ==
  /\ phase[d] = "stop-root" /\ root[d] # "none"
  /\ Goto(d, "unlink")
  /\ pidFile' = NoDaemon
  /\ UNCHANGED <<stopping, sockFile, killed, botVars, apiVars, connVars>>

\* Server.wait_closed returns when the last connection has ended.  Then the
\* bot is closed, within 10 s, and the PID file removed.
StopServer(d) ==
  /\ phase[d] = "stop-server"
  /\ \A c \in Conns : conn[c].srv # d
  /\ handshake' = [handshake EXCEPT ![d] = {}]
  /\ botDone' = [botDone EXCEPT ![d] = TRUE]
  /\ setup' = [setup EXCEPT ![d] = 0]
  /\ Goto(d, "unlink")
  /\ pidFile' = NoDaemon
  /\ UNCHANGED <<stopping, sockFile, killed, initialized, port, ready, apiVars, conn>>

\* The socket files are removed and the process exits.
CleanupSocket(d) ==
  /\ phase[d] = "unlink"
  /\ sockFile' = NoDaemon
  /\ Exit(d)
  /\ UNCHANGED <<pidFile, killed>>

-----------------------------------------------------------------------------
(* Signals and the commands.                                               *)

\* kill -9, the OOM killer, power.
Kill(d) ==
  /\ Alive(d)
  /\ Exit(d)
  /\ killed' = TRUE
  /\ UNCHANGED <<pidFile, sockFile>>

\* SIGTERM, handled once the handlers are installed.
Sigterm(d) ==
  /\ phase[d] \notin {"off", "checked", "gone"}
  /\ stopping' = [stopping EXCEPT ![d] = TRUE]
  /\ UNCHANGED <<phase, pidFile, sockFile, killed, botVars, apiVars, connVars>>

\* `vco down` signals the process the PID file names, or removes a stale
\* file; `vco restart` signals a process it finds by name.
Down ==
  /\ pidFile # NoDaemon
  /\ IF PidAlive
     THEN Sigterm(pidFile)
     ELSE pidFile' = NoDaemon
          /\ UNCHANGED <<phase, stopping, sockFile, killed, botVars, apiVars, connVars>>

Restart(d) == Sigterm(d)

-----------------------------------------------------------------------------
(* Clients and the server's handler of each connection.                    *)

Listening(d) == phase[d] \in {"bot", "create", "project", "boot", "wait", "stop-root"}

Connect(c) ==
  /\ conn[c] = FreeConn
  /\ sockFile # NoDaemon /\ Listening(sockFile)
  /\ conn' = [conn EXCEPT ![c] = [srv |-> sockFile, at |-> "reading", line |-> "none",
                                  open |-> TRUE, left |-> MaxLines, greeted |-> FALSE]]
  /\ UNCHANGED <<runVars, botVars, apiVars, handshake>>

SendLine(c, r) ==
  /\ conn[c].open /\ conn[c].left > 0 /\ conn[c].line = "none"
  /\ conn' = [conn EXCEPT ![c].line = r, ![c].left = @ - 1]
  /\ UNCHANGED <<runVars, botVars, apiVars, handshake>>

\* The client closes, or its socket time-out expires.
ClientClose(c) ==
  /\ conn[c].open
  /\ conn' = [conn EXCEPT ![c].open = FALSE, ![c].left = 0]
  /\ UNCHANGED <<runVars, botVars, apiVars, handshake>>

\* What is left after one line; a request before the handshake and a method
\* that is not registered are answered with an error.
Answered(c) == [conn EXCEPT ![c].line = "none"]

Rejected(c, r) ==
  LET d == conn[c].srv IN
  \/ r = "other"
  \/ r # "hello" /\ c \notin handshake[d]
  \/ r = "api" /\ ~endpoints[d]

Reading(c) == conn[c].at = "reading" /\ conn[c].line # "none"

RejectLine(c) ==
  /\ Reading(c)
  /\ Rejected(c, conn[c].line)
  /\ conn' = Answered(c)
  /\ UNCHANGED <<runVars, botVars, apiVars, handshake>>

HandleHello(c) ==
  /\ Reading(c) /\ conn[c].line = "hello"
  /\ conn' = [Answered(c) EXCEPT ![c].greeted = TRUE]
  /\ handshake' = [handshake EXCEPT ![conn[c].srv] = @ \cup {c}]
  /\ UNCHANGED <<runVars, botVars, apiVars>>

HandleShutdown(c) ==
  /\ Reading(c) /\ conn[c].line = "shutdown"
  /\ ~Rejected(c, "shutdown")
  /\ stopping' = [stopping EXCEPT ![conn[c].srv] = TRUE]
  /\ conn' = Answered(c)
  /\ UNCHANGED <<phase, pidFile, sockFile, killed, botVars, apiVars, handshake>>

\* hire, give_task, dismiss, status, health_tree, new_project, send_message,
\* send_file and ask: the handler awaits; an exception is answered too, and
\* the wait of ask for a reply is bounded by its number of polls.
DispatchApi(c) ==
  /\ Reading(c) /\ conn[c].line = "api"
  /\ ~Rejected(c, "api")
  /\ conn' = [Answered(c) EXCEPT ![c].at = "busy"]
  /\ UNCHANGED <<runVars, botVars, apiVars, handshake>>

HandlerDone(c) ==
  /\ conn[c].at = "busy"
  /\ conn' = [conn EXCEPT ![c].at = "reading"]
  /\ UNCHANGED <<runVars, botVars, apiVars, handshake>>

\* Mutant: the handshake of a connection outlives it.
RemoveClient_KeepsHandshake(c) ==
  /\ conn' = [conn EXCEPT ![c] = FreeConn]
  /\ UNCHANGED <<runVars, botVars, apiVars, handshake>>

RemoveClient(c) ==
  /\ conn' = [conn EXCEPT ![c] = FreeConn]
  /\ handshake' = [handshake EXCEPT ![conn[c].srv] = @ \ {c}]
  /\ UNCHANGED <<runVars, botVars, apiVars>>

\* End of stream, or a reset connection.
Eof(c) ==
  /\ conn[c].at = "reading" /\ ~conn[c].open
  /\ RemoveClient(c)

\* Mutant: readline() without a time-out.
ReadTimeout_Never(c) == FALSE /\ RemoveClient(c)

\* No line for 300 s.
ReadTimeout(c) ==
  /\ conn[c].at = "reading" /\ conn[c].line = "none"
  /\ RemoveClient(c)

-----------------------------------------------------------------------------
Run(d) ==
  \/ StartServer(d) \/ StartSignalServerRaises(d) \/ WaitForBot(d)
  \/ CreateRuntimeApi(d) \/ InitProject(d) \/ BootNotified(d) \/ InitFails(d)
  \/ ShutdownSeen(d) \/ StopRoot(d) \/ StopRootRaises(d)
  \/ StopServer(d) \/ CleanupSocket(d)

Bot(d) == OnReady(d) \/ GuildMissing(d) \/ SetupDone(d) \/ SetupRaises(d) \/ BotEnds(d)

\* Each drain of the answer ends: it waits, without a limit, only for a client
\* that leaves more than the transport's high-water mark unread, and the
\* clients (daemon/client.py) read every answer before they send again.
Handle(c) ==
  \/ RejectLine(c) \/ HandleHello(c) \/ HandleShutdown(c)
  \/ DispatchApi(c) \/ HandlerDone(c) \/ Eof(c) \/ ReadTimeout(c)

Next ==
  \/ \E d \in Daemons : \/ LaunchFails(d) \/ Refuse(d) \/ CheckAlreadyRunning(d) \/ Run(d) \/ Bot(d)
                        \/ Kill(d) \/ Restart(d)
  \/ Down
  \/ \E c \in Conns : \/ Connect(c) \/ ClientClose(c) \/ Handle(c)
                      \/ \E r \in Requests : SendLine(c, r)

\* The event loop runs what is ready, and the time-outs expire.  Nothing is
\* assumed of the bot or of the clients.
Fairness ==
  /\ \A d \in Daemons : WF_vars(Run(d))
  /\ \A c \in Conns : WF_vars(Handle(c))

Spec == Init /\ [][Next]_vars /\ Fairness
-----------------------------------------------------------------------------
(* Properties.                                                             *)

\* "Enforce hello-first handshake": a connection that the server counts as
\* greeted has itself sent a hello of the right version, although the table
\* is keyed by an address that is used again for later connections.
Handshaken ==
  \A d \in Daemons : Alive(d) => \A c \in handshake[d] :
    conn[c].srv = d /\ conn[c].greeted

\* When every daemon is gone and none was killed, no PID file and no socket
\* file is left, whatever failed on the way and even if two were started
\* at once.
FilesCleaned ==
  (~killed /\ \A d \in Daemons : ~Alive(d))
    => pidFile = NoDaemon /\ sockFile = NoDaemon

\* A daemon asked to stop exits, once its bot is connected or has ended:
\* clients that hold a connection open delay it, and do not stop it, as long
\* as they read their answers (see Handle).
ShutdownEnds ==
  \A d \in Daemons :
    (stopping[d] /\ (ready[d] \/ botDone[d])) ~> ~Alive(d)
=============================================================================
