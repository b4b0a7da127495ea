---------------------------- MODULE DaemonProofs ----------------------------
(***************************************************************************)
(* Proofs about Daemon, for any number of processes, connections and lines *)
(* per client: the handshake table speaks of the connections that are      *)
(* there, and no file outlives the last process that was not killed.       *)
(***************************************************************************)
EXTENDS Daemon, TLAPS

Connections == [srv : Daemons \cup {NoDaemon}, at : {"free", "reading", "busy"},
                line : Requests \cup {"none"}, open : BOOLEAN, left : Nat,
                greeted : BOOLEAN]

RunTypeOK ==
  /\ phase \in [Daemons -> Phases]
  /\ stopping \in [Daemons -> BOOLEAN]
  /\ pidFile \in Daemons \cup {NoDaemon} /\ sockFile \in Daemons \cup {NoDaemon}
  /\ killed \in BOOLEAN

BotTypeOK ==
  /\ setup \in [Daemons -> 0 .. 2]
  /\ initialized \in [Daemons -> BOOLEAN] /\ port \in [Daemons -> BOOLEAN]
  /\ ready \in [Daemons -> BOOLEAN] /\ botDone \in [Daemons -> BOOLEAN]
  /\ root \in [Daemons -> {"none", "noop", "up", "stopped"}]
  /\ endpoints \in [Daemons -> BOOLEAN]

ConnTypeOK ==
  /\ conn \in [Conns -> Connections]
  /\ handshake \in [Daemons -> SUBSET Conns]

DaemonTypeOK == RunTypeOK /\ BotTypeOK /\ ConnTypeOK

\* A slot without a server is free.
FreeSlots == \A c \in Conns : conn[c].srv = NoDaemon => conn[c] = FreeConn

\* Handshaken for every process, the ones that are gone too.
OwnHandshake ==
  \A d \in Daemons : \A c \in handshake[d] : conn[c].srv = d /\ conn[c].greeted

\* A handler that reads or works belongs to a process, which is why its slot
\* leaves the right table when the connection ends.
ConnInv == FreeSlots /\ OwnHandshake

Served == {"bot", "create", "project", "boot", "wait", "stop-root", "stop-server"}

\* As long as nobody was killed, each file names a process that has still to
\* remove it.  FilesCleaned alone is not inductive: it says nothing while a
\* process runs.
FilesOwned ==
  ~killed =>
    /\ pidFile # NoDaemon => phase[pidFile] \in Served
    /\ sockFile # NoDaemon => phase[sockFile] \in Served \cup {"unlink"}

DaemonInv == DaemonTypeOK /\ ConnInv /\ FilesOwned

\* Nothing has been started yet.
LEMMA DaemonInitInv == Init => DaemonInv
<1> SUFFICES ASSUME Init PROVE DaemonInv
  OBVIOUS
<1> USE DEF Init, No
<1>1. RunTypeOK
  BY DEF RunTypeOK, Phases
<1>2. BotTypeOK
  BY DEF BotTypeOK
<1>3. ConnTypeOK
  BY DEF ConnTypeOK, Connections, FreeConn
<1>4. ConnInv /\ FilesOwned
  BY DEF ConnInv, FreeSlots, OwnHandshake, FilesOwned
<1>5. QED BY <1>1, <1>2, <1>3, <1>4 DEF DaemonInv, DaemonTypeOK

-----------------------------------------------------------------------------
(* Types.                                                                  *)

\* An assignment to one entry of a table keeps its type.
LEMMA Updated ==
  ASSUME NEW S, NEW T, NEW f \in [S -> T], NEW x, NEW v \in T
  PROVE  [f EXCEPT ![x] = v] \in [S -> T]
OBVIOUS

\* The end of a process keeps the types.
LEMMA ExitTypes ==
  ASSUME DaemonTypeOK, NEW d \in Daemons, Exit(d)
  PROVE  /\ phase' \in [Daemons -> Phases] /\ stopping' \in [Daemons -> BOOLEAN]
         /\ BotTypeOK' /\ ConnTypeOK'
<1> USE DEF DaemonTypeOK, Exit, Reset
<1>1. phase' \in [Daemons -> Phases]
  BY Updated DEF RunTypeOK, Goto, Phases
<1>2. stopping' \in [Daemons -> BOOLEAN]
  BY Updated DEF RunTypeOK
<1>3. setup' \in [Daemons -> 0 .. 2] /\ root' \in [Daemons -> {"none", "noop", "up", "stopped"}]
  BY DEF BotTypeOK
<1>4. /\ initialized' \in [Daemons -> BOOLEAN] /\ port' \in [Daemons -> BOOLEAN]
      /\ ready' \in [Daemons -> BOOLEAN] /\ botDone' \in [Daemons -> BOOLEAN]
      /\ endpoints' \in [Daemons -> BOOLEAN]
  BY Updated DEF BotTypeOK
<1>5. handshake' \in [Daemons -> SUBSET Conns]
  BY DEF ConnTypeOK
<1>6. FreeConn \in Connections
  BY DEF FreeConn, Connections
<1>7. conn' \in [Conns -> Connections]
  BY <1>6 DEF ConnTypeOK
<1>8. QED BY <1>1, <1>2, <1>3, <1>4, <1>5, <1>7 DEF BotTypeOK, ConnTypeOK

\* Types: start-up and the life of a process.
LEMMA StartTypes ==
  ASSUME DaemonTypeOK, NEW d \in Daemons,
         LaunchFails(d) \/ Refuse(d) \/ CheckAlreadyRunning(d) \/ Kill(d) \/ Restart(d)
  PROVE  DaemonTypeOK'
<1> USE DEF DaemonTypeOK
<1>1. CASE UNCHANGED <<stopping, pidFile, sockFile, killed, botVars, apiVars, connVars>>
           /\ Goto(d, "gone")
  <2>1. phase' \in [Daemons -> Phases]
    BY <1>1 DEF Goto, RunTypeOK, Phases
  <2>2. RunTypeOK'
    BY <1>1, <2>1 DEF RunTypeOK
  <2>3. BotTypeOK' /\ ConnTypeOK'
    BY <1>1 DEF BotTypeOK, ConnTypeOK, botVars, apiVars, connVars
  <2>4. QED BY <2>2, <2>3
<1>2. CASE CheckAlreadyRunning(d)
  <2>1. phase' \in [Daemons -> Phases]
    BY <1>2 DEF CheckAlreadyRunning, Goto, RunTypeOK, Phases
  <2>2. /\ pidFile' \in Daemons \cup {NoDaemon} /\ sockFile' \in Daemons \cup {NoDaemon}
        /\ UNCHANGED <<stopping, killed>>
    BY <1>2 DEF CheckAlreadyRunning, RunTypeOK
  <2>3. RunTypeOK'
    BY <2>1, <2>2 DEF RunTypeOK
  <2>4. BotTypeOK' /\ ConnTypeOK'
    BY <1>2 DEF CheckAlreadyRunning, BotTypeOK, ConnTypeOK, botVars, apiVars, connVars
  <2>5. QED BY <2>3, <2>4
<1>3. CASE Kill(d)
  BY <1>3, ExitTypes DEF Kill, RunTypeOK
<1>4. CASE Restart(d)
  <2>1. stopping' \in [Daemons -> BOOLEAN]
    BY <1>4, Updated DEF Restart, Sigterm, RunTypeOK
  <2>2. QED
    BY <1>4, <2>1
    DEF Restart, Sigterm, RunTypeOK, BotTypeOK, ConnTypeOK, botVars, apiVars, connVars
<1>5. QED BY <1>1, <1>2, <1>3, <1>4 DEF LaunchFails, Refuse

\* Types: _run.
LEMMA RunTypes ==
  ASSUME DaemonTypeOK, NEW d \in Daemons, Run(d)
  PROVE  DaemonTypeOK'
<1> USE DEF DaemonTypeOK
<1>1. CASE CleanupSocket(d)
  BY <1>1, ExitTypes DEF CleanupSocket, RunTypeOK
<1>2. CASE ~CleanupSocket(d)
  <2>1. PICK p \in Phases : Goto(d, p)
    BY <1>2
    DEF Run, StartServer, StartSignalServerRaises, WaitForBot, CreateRuntimeApi, InitProject,
        BootNotified, InitFails, ShutdownSeen, StopRoot, StopRootRaises, StopServer, Phases
  <2>2. phase' \in [Daemons -> Phases]
    BY <2>1, Updated DEF Goto, RunTypeOK
  <2>3. /\ UNCHANGED <<stopping, killed, conn>>
        /\ pidFile' \in Daemons \cup {NoDaemon} /\ sockFile' \in Daemons \cup {NoDaemon}
    BY <1>2
    DEF Run, StartServer, StartSignalServerRaises, WaitForBot, CreateRuntimeApi, InitProject,
        BootNotified, InitFails, ShutdownSeen, StopRoot, StopRootRaises, StopServer,
        WritePidFile, RunTypeOK, connVars
  <2>4. RunTypeOK'
    BY <2>2, <2>3 DEF RunTypeOK
  <2>5. handshake' = handshake \/ handshake' = [handshake EXCEPT ![d] = {}]
    BY <1>2
    DEF Run, StartServer, StartSignalServerRaises, WaitForBot, CreateRuntimeApi, InitProject,
        BootNotified, InitFails, ShutdownSeen, StopRoot, StopRootRaises, StopServer, connVars
  <2>6. ConnTypeOK'
    BY <2>3, <2>5 DEF ConnTypeOK
  <2>7. BotTypeOK'
    <3>1. CASE UNCHANGED <<botVars, apiVars>>
      BY <3>1 DEF BotTypeOK, botVars, apiVars
    <3>2. CASE WaitForBot(d)
      BY <3>2 DEF WaitForBot, BotTypeOK, apiVars
    <3>3. CASE CreateRuntimeApi(d)
      <4>1. root' \in [Daemons -> {"none", "noop", "up", "stopped"}]
        BY <3>3 DEF CreateRuntimeApi, BotTypeOK
      <4>2. endpoints' \in [Daemons -> BOOLEAN]
        BY <3>3, Updated DEF CreateRuntimeApi, BotTypeOK
      <4>3. QED BY <3>3, <4>1, <4>2 DEF CreateRuntimeApi, BotTypeOK, botVars
    <3>4. CASE StopRoot(d)
      BY <3>4 DEF StopRoot, BotTypeOK, botVars
    <3>5. CASE StopServer(d)
      <4>1. setup' \in [Daemons -> 0 .. 2]
        BY <3>5 DEF StopServer, BotTypeOK
      <4>2. botDone' \in [Daemons -> BOOLEAN]
        BY <3>5, Updated DEF StopServer, BotTypeOK
      <4>3. QED BY <3>5, <4>1, <4>2 DEF StopServer, BotTypeOK, apiVars
    <3>6. QED
      BY <1>2, <3>1, <3>2, <3>3, <3>4, <3>5
      DEF Run, StartServer, StartSignalServerRaises, InitProject,
          BootNotified, InitFails, ShutdownSeen, StopRootRaises
  <2>8. QED BY <2>4, <2>6, <2>7
<1>3. QED BY <1>1, <1>2

\* Types: the bot.
LEMMA BotTypes ==
  ASSUME DaemonTypeOK, NEW d \in Daemons, Bot(d)
  PROVE  DaemonTypeOK'
<1> USE DEF DaemonTypeOK
<1>1. UNCHANGED <<runVars, apiVars, connVars>>
  BY DEF Bot, OnReady, GuildMissing, SetupDone, SetupRaises, BotEnds
<1>2. setup' \in [Daemons -> 0 .. 2]
  <2>1. setup[d] \in 0 .. 2 /\ setup \in [Daemons -> 0 .. 2]
    BY DEF BotTypeOK
  <2>2. \/ setup' = setup
        \/ setup[d] < 2 /\ setup' = [setup EXCEPT ![d] = setup[d] + 1]
        \/ setup[d] > 0 /\ setup' = [setup EXCEPT ![d] = setup[d] - 1]
        \/ setup' = [setup EXCEPT ![d] = 0]
    BY DEF Bot, OnReady, GuildMissing, SetupDone, SetupRaises, BotEnds
  <2>3. QED BY <2>1, <2>2
<1>3. /\ initialized' = initialized \/ initialized' = [initialized EXCEPT ![d] = TRUE]
      /\ port' = port \/ port' = [port EXCEPT ![d] = TRUE]
      /\ ready' = ready \/ ready' = [ready EXCEPT ![d] = TRUE]
      /\ botDone' = botDone \/ botDone' = [botDone EXCEPT ![d] = TRUE]
  BY DEF Bot, OnReady, GuildMissing, SetupDone, SetCommPort, SetupRaises, BotEnds
<1>4. /\ initialized' \in [Daemons -> BOOLEAN] /\ port' \in [Daemons -> BOOLEAN]
      /\ ready' \in [Daemons -> BOOLEAN] /\ botDone' \in [Daemons -> BOOLEAN]
  BY <1>3, Updated DEF BotTypeOK
<1>5. QED
  BY <1>1, <1>2, <1>4
  DEF RunTypeOK, BotTypeOK, ConnTypeOK, runVars, apiVars, connVars

-----------------------------------------------------------------------------
(* The steps of clients and of the server: what becomes of one slot.       *)

\* A client's step, or an answer: the slot c changes, keeps its server, and
\* was not free.
Edited(c) ==
  /\ \E r \in Connections : /\ conn' = [conn EXCEPT ![c] = r]
                            /\ r.srv = conn[c].srv
                            /\ conn[c].greeted => r.greeted
  /\ conn[c].srv # NoDaemon
  /\ UNCHANGED handshake

\* A slot that is not free has a server.
LEMMA InUse ==
  ASSUME ConnTypeOK, ConnInv, NEW c \in Conns, conn[c].at # "free" \/ conn[c].open
  PROVE  conn[c].srv \in Daemons
BY DaemonAssumption DEF ConnTypeOK, ConnInv, FreeSlots, FreeConn, Connections

\* Every step of a client or a handler that leaves the handshakes alone.
LEMMA EditSteps ==
  ASSUME ConnTypeOK, ConnInv, NEW c \in Conns,
         \/ \E r \in Requests : SendLine(c, r)
         \/ ClientClose(c) \/ RejectLine(c) \/ HandleShutdown(c)
         \/ DispatchApi(c) \/ HandlerDone(c)
  PROVE  Edited(c)
<1> DEFINE old == conn[c]
<1>1. /\ conn \in [Conns -> Connections] /\ old \in Connections
      /\ old.at # "free" \/ old.open => old.srv # NoDaemon
  BY InUse, DaemonAssumption DEF ConnTypeOK
<1>2. ASSUME NEW r \in Connections, conn' = [conn EXCEPT ![c] = r], r.srv = old.srv,
             r.greeted = old.greeted, UNCHANGED handshake, old.at # "free" \/ old.open
      PROVE  Edited(c)
  BY <1>1, <1>2 DEF Edited
<1>3. ASSUME NEW r \in Requests, SendLine(c, r)
      PROVE  Edited(c)
  <2> DEFINE new == [old EXCEPT !.line = r, !.left = old.left - 1]
  <2>1. new \in Connections /\ new.srv = old.srv /\ new.greeted = old.greeted
    <3>1. old.left > 0 /\ old.left \in Nat
      BY <1>1, <1>3 DEF SendLine, Connections
    <3>2. old.left - 1 \in Nat
      BY <3>1
    <3>3. QED BY <1>1, <3>2 DEF Connections
  <2>2. conn' = [conn EXCEPT ![c] = new] /\ old.open /\ UNCHANGED handshake
    BY <1>1, <1>3 DEF SendLine
  <2> HIDE DEF new
  <2>3. QED BY <1>2, <2>1, <2>2
<1>4. CASE ClientClose(c)
  <2> DEFINE new == [old EXCEPT !.open = FALSE, !.left = 0]
  <2>1. new \in Connections /\ new.srv = old.srv /\ new.greeted = old.greeted
    BY <1>1 DEF Connections
  <2>2. conn' = [conn EXCEPT ![c] = new] /\ old.open /\ UNCHANGED handshake
    BY <1>1, <1>4 DEF ClientClose
  <2> HIDE DEF new
  <2>3. QED BY <1>2, <2>1, <2>2
<1>5. CASE RejectLine(c) \/ HandleShutdown(c)
  <2> DEFINE new == [old EXCEPT !.line = "none"]
  <2>1. new \in Connections /\ new.srv = old.srv /\ new.greeted = old.greeted
    BY <1>1 DEF Connections
  <2>2. conn' = [conn EXCEPT ![c] = new] /\ old.at # "free" /\ UNCHANGED handshake
    BY <1>1, <1>5 DEF RejectLine, HandleShutdown, Reading, Answered
  <2> HIDE DEF new
  <2>3. QED BY <1>2, <2>1, <2>2
<1>6. CASE DispatchApi(c)
  <2> DEFINE new == [old EXCEPT !.line = "none", !.at = "busy"]
  <2>1. new \in Connections /\ new.srv = old.srv /\ new.greeted = old.greeted
    BY <1>1 DEF Connections
  <2>2. conn' = [conn EXCEPT ![c] = new] /\ old.at # "free" /\ UNCHANGED handshake
    BY <1>1, <1>6 DEF DispatchApi, Reading, Answered
  <2> HIDE DEF new
  <2>3. QED BY <1>2, <2>1, <2>2
<1>7. CASE HandlerDone(c)
  <2> DEFINE new == [old EXCEPT !.at = "reading"]
  <2>1. new \in Connections /\ new.srv = old.srv /\ new.greeted = old.greeted
    BY <1>1 DEF Connections
  <2>2. conn' = [conn EXCEPT ![c] = new] /\ old.at # "free" /\ UNCHANGED handshake
    BY <1>1, <1>7 DEF HandlerDone
  <2> HIDE DEF new
  <2>3. QED BY <1>2, <2>1, <2>2
<1>8. QED BY <1>3, <1>4, <1>5, <1>6, <1>7

\* An edited slot keeps the invariant.
LEMMA EditConn ==
  ASSUME ConnTypeOK, ConnInv, NEW c \in Conns, Edited(c)
  PROVE  ConnTypeOK' /\ ConnInv'
<1>1. PICK r \in Connections : conn' = [conn EXCEPT ![c] = r] /\ r.srv = conn[c].srv
                               /\ (conn[c].greeted => r.greeted)
  BY DEF Edited
<1>2. conn' \in [Conns -> Connections] /\ conn[c].srv # NoDaemon /\ handshake' = handshake
  BY <1>1 DEF Edited, ConnTypeOK
<1>3. \A b \in Conns : conn'[b] = IF b = c THEN r ELSE conn[b]
  BY <1>1 DEF ConnTypeOK
<1>4. FreeSlots'
  BY <1>1, <1>2, <1>3 DEF ConnInv, FreeSlots
<1>5. OwnHandshake'
  BY <1>1, <1>2, <1>3 DEF ConnInv, OwnHandshake, ConnTypeOK
<1>6. QED BY <1>2, <1>4, <1>5 DEF ConnInv, ConnTypeOK

\* The steps that begin, greet and end a connection.
LEMMA HandshakeSteps ==
  ASSUME RunTypeOK, ConnTypeOK, ConnInv, NEW c \in Conns,
         Connect(c) \/ HandleHello(c) \/ Eof(c) \/ ReadTimeout(c)
  PROVE  ConnTypeOK' /\ ConnInv'
<1> USE DEF ConnTypeOK
<1>1. CASE Connect(c)
  <2> DEFINE new == [srv |-> sockFile, at |-> "reading", line |-> "none",
                     open |-> TRUE, left |-> MaxLines, greeted |-> FALSE]
  <2>1. new \in Connections /\ new.srv # NoDaemon
    BY <1>1, DaemonAssumption DEF Connect, Connections, RunTypeOK
  <2>2. conn' = [conn EXCEPT ![c] = new] /\ handshake' = handshake
    BY <1>1 DEF Connect
  <2>3. \A d \in Daemons : c \notin handshake[d]
    BY <1>1, DaemonAssumption DEF Connect, FreeConn, ConnInv, OwnHandshake
  <2> HIDE DEF new
  <2>4. \A b \in Conns : conn'[b] = IF b = c THEN new ELSE conn[b]
    BY <2>2
  <2>5. conn' \in [Conns -> Connections]
    BY <2>1, <2>2
  <2>6. FreeSlots'
    BY <2>1, <2>4 DEF ConnInv, FreeSlots
  <2>7. OwnHandshake'
    BY <2>2, <2>3, <2>4 DEF ConnInv, OwnHandshake
  <2>8. QED BY <2>2, <2>5, <2>6, <2>7 DEF ConnInv
<1>2. CASE HandleHello(c)
  <2> DEFINE d == conn[c].srv
             new == [conn[c] EXCEPT !.line = "none", !.greeted = TRUE]
  <2>1. d \in Daemons
    BY <1>2, InUse DEF HandleHello, Reading
  <2>2. new \in Connections /\ new.srv = d /\ new.greeted
    BY DEF Connections
  <2>3. conn' = [conn EXCEPT ![c] = new]
    BY <1>2 DEF HandleHello, Answered
  <2>4. handshake' = [handshake EXCEPT ![d] = handshake[d] \cup {c}]
    BY <1>2 DEF HandleHello
  <2>5. d # NoDaemon /\ conn[c].srv = d
    BY <2>1, DaemonAssumption
  <2> HIDE DEF new, d
  <2>6. \A b \in Conns : conn'[b] = IF b = c THEN new ELSE conn[b]
    BY <2>3
  <2>7. conn' \in [Conns -> Connections] /\ handshake' \in [Daemons -> SUBSET Conns]
    BY <2>2, <2>3, <2>4, <2>1
  <2>8. FreeSlots'
    BY <2>2, <2>5, <2>6 DEF ConnInv, FreeSlots
  <2>9. OwnHandshake'
    <3> SUFFICES ASSUME NEW e \in Daemons, NEW b \in handshake'[e]
                 PROVE  conn'[b].srv = e /\ conn'[b].greeted
      BY DEF OwnHandshake
    <3>1. CASE b = c /\ e = d
      BY <2>2, <2>6, <3>1
    <3>2. CASE b \in handshake[e]
      BY <2>2, <2>5, <2>6, <3>2 DEF ConnInv, OwnHandshake
    <3>3. QED BY <2>1, <2>4, <3>1, <3>2
  <2>10. QED BY <2>7, <2>8, <2>9 DEF ConnInv
<1>3. CASE Eof(c) \/ ReadTimeout(c)
  <2> DEFINE d == conn[c].srv
  <2>1. d \in Daemons
    BY <1>3, InUse DEF Eof, ReadTimeout
  <2>2. conn' = [conn EXCEPT ![c] = FreeConn]
        /\ handshake' = [handshake EXCEPT ![d] = handshake[d] \ {c}]
    BY <1>3 DEF Eof, ReadTimeout, RemoveClient
  <2>3. FreeConn \in Connections
    BY DEF FreeConn, Connections
  <2>4. d = conn[c].srv
    OBVIOUS
  <2> HIDE DEF d
  <2>5. conn' \in [Conns -> Connections] /\ handshake' \in [Daemons -> SUBSET Conns]
    BY <2>1, <2>2, <2>3
  <2>6. FreeSlots'
    BY <2>2 DEF ConnInv, FreeSlots
  <2>7. OwnHandshake'
    <3> SUFFICES ASSUME NEW e \in Daemons, NEW b \in handshake'[e]
                 PROVE  conn'[b].srv = e /\ conn'[b].greeted
      BY DEF OwnHandshake
    <3>1. b \in handshake[e] /\ b \in Conns /\ conn[b].srv = e /\ conn[b].greeted
      BY <2>1, <2>2 DEF ConnInv, OwnHandshake
    \* a slot is in the table of its own server only
    <3>2. b # c
      BY <2>1, <2>2, <2>4, <3>1
    <3>3. QED BY <2>2, <3>1, <3>2
  <2>8. QED BY <2>5, <2>6, <2>7 DEF ConnInv
<1>4. QED BY <1>1, <1>2, <1>3

\* A process that ends takes its handshakes and its connections with it.
LEMMA ExitConn ==
  ASSUME ConnTypeOK, ConnInv, NEW d \in Daemons, Exit(d)
  PROVE  ConnInv'
<1>1. /\ handshake' = [handshake EXCEPT ![d] = {}]
      /\ \A c \in Conns : conn'[c] = IF conn[c].srv = d THEN FreeConn ELSE conn[c]
  BY DEF Exit, Reset
<1>2. FreeSlots'
  BY <1>1 DEF ConnInv, FreeSlots
<1>3. OwnHandshake'
  BY <1>1 DEF ConnInv, OwnHandshake, ConnTypeOK
<1>4. QED BY <1>2, <1>3 DEF ConnInv

\* Slots and handshakes: every step.
LEMMA ConnStep ==
  ASSUME DaemonTypeOK, ConnInv, [Next]_vars
  PROVE  ConnInv'
<1>1. RunTypeOK /\ ConnTypeOK
  BY DEF DaemonTypeOK
<1>2. CASE UNCHANGED connVars
  BY <1>2 DEF connVars, ConnInv, FreeSlots, OwnHandshake
<1>3. ASSUME NEW d \in Daemons, Exit(d)
      PROVE  ConnInv'
  BY <1>1, <1>3, ExitConn
<1>4. ASSUME NEW d \in Daemons, StopServer(d)
      PROVE  ConnInv'
  <2>1. UNCHANGED conn /\ handshake' = [handshake EXCEPT ![d] = {}]
    BY <1>4 DEF StopServer
  <2>2. QED BY <1>1, <2>1 DEF ConnInv, FreeSlots, OwnHandshake, ConnTypeOK
<1>5. ASSUME NEW c \in Conns, \/ Connect(c) \/ ClientClose(c) \/ Handle(c)
                              \/ \E r \in Requests : SendLine(c, r)
      PROVE  ConnInv'
  BY <1>1, <1>5, EditSteps, EditConn, HandshakeSteps DEF Handle
<1>6. ASSUME NEW d \in Daemons, \/ LaunchFails(d) \/ Refuse(d) \/ CheckAlreadyRunning(d)
                                \/ Run(d) \/ Bot(d) \/ Kill(d) \/ Restart(d)
      PROVE  ConnInv'
  <2>1. Exit(d) \/ StopServer(d) \/ UNCHANGED connVars
    BY <1>6
    DEF LaunchFails, Refuse, CheckAlreadyRunning, Kill, Restart, Sigterm, Run, StartServer,
        StartSignalServerRaises, WaitForBot, CreateRuntimeApi, InitProject, BootNotified,
        InitFails, ShutdownSeen, StopRoot, StopRootRaises, CleanupSocket, Bot, OnReady,
        GuildMissing, SetupDone, SetupRaises, BotEnds
  <2>2. QED BY <1>2, <1>3, <1>4, <2>1
<1>7. CASE Down
  BY <1>2, <1>7 DEF Down, Sigterm
<1>8. CASE UNCHANGED vars
  BY <1>2, <1>8 DEF vars
<1>9. QED BY <1>5, <1>6, <1>7, <1>8 DEF Next

\* Types: every step.
LEMMA TypeStep ==
  ASSUME DaemonTypeOK, ConnInv, [Next]_vars
  PROVE  DaemonTypeOK'
<1>1. RunTypeOK /\ BotTypeOK /\ ConnTypeOK
  BY DEF DaemonTypeOK
<1>2. ASSUME NEW d \in Daemons, \/ LaunchFails(d) \/ Refuse(d) \/ CheckAlreadyRunning(d)
                                \/ Run(d) \/ Bot(d) \/ Kill(d) \/ Restart(d)
      PROVE  DaemonTypeOK'
  BY <1>2, StartTypes, RunTypes, BotTypes
<1>3. CASE Down
  <2>1. CASE PidAlive
    BY <1>3, <2>1, StartTypes DEF Down, PidAlive, Restart
  <2>2. CASE ~PidAlive
    BY <1>1, <1>3, <2>2
    DEF Down, DaemonTypeOK, RunTypeOK, BotTypeOK, ConnTypeOK, botVars, apiVars, connVars
  <2>3. QED BY <2>1, <2>2
<1>4. ASSUME NEW c \in Conns, \/ Connect(c) \/ ClientClose(c) \/ Handle(c)
                              \/ \E r \in Requests : SendLine(c, r)
      PROVE  DaemonTypeOK'
  <2>1. ConnTypeOK'
    BY <1>1, <1>4, EditSteps, EditConn, HandshakeSteps DEF Handle
  <2>2. UNCHANGED <<phase, pidFile, sockFile, killed, botVars, apiVars>>
    BY <1>4
    DEF Connect, ClientClose, Handle, SendLine, RejectLine, HandleHello, HandleShutdown,
        DispatchApi, HandlerDone, Eof, ReadTimeout, RemoveClient, runVars
  <2>3. stopping' = stopping \/ stopping' = [stopping EXCEPT ![conn[c].srv] = TRUE]
    BY <1>4
    DEF Connect, ClientClose, Handle, SendLine, RejectLine, HandleHello, HandleShutdown,
        DispatchApi, HandlerDone, Eof, ReadTimeout, RemoveClient, runVars
  <2>4. stopping' \in [Daemons -> BOOLEAN]
    BY <1>1, <2>3, Updated DEF RunTypeOK
  <2>5. QED
    BY <1>1, <2>1, <2>2, <2>4 DEF DaemonTypeOK, RunTypeOK, BotTypeOK, botVars, apiVars
<1>5. CASE UNCHANGED vars
  BY <1>1, <1>5
  DEF DaemonTypeOK, RunTypeOK, BotTypeOK, ConnTypeOK, vars, runVars, botVars, apiVars, connVars
<1>6. QED BY <1>2, <1>3, <1>4, <1>5 DEF Next

-----------------------------------------------------------------------------
(* Files.                                                                  *)

\* Who owns the files: every step.
LEMMA FilesStep ==
  ASSUME RunTypeOK, FilesOwned, [Next]_vars
  PROVE  FilesOwned'
<1> USE DaemonAssumption DEF RunTypeOK
<1>1. CASE UNCHANGED <<phase, killed>> /\ UNCHANGED sockFile
           /\ (UNCHANGED pidFile \/ pidFile' = NoDaemon)
  BY <1>1 DEF FilesOwned
\* a process that has written nothing yet, or that goes on
<1>2. ASSUME NEW d \in Daemons, NEW p \in Phases, Goto(d, p), UNCHANGED killed,
             UNCHANGED <<pidFile, sockFile>>,
             phase[d] \in Served => p \in Served,
             phase[d] = "unlink" => p = "unlink"
      PROVE  FilesOwned'
  BY <1>2 DEF FilesOwned, Goto, Served, Phases
\* the finally block, its first part and its second
<1>3. ASSUME NEW d \in Daemons, Goto(d, "unlink"), pidFile' = NoDaemon,
             UNCHANGED <<sockFile, killed>>
      PROVE  FilesOwned'
  BY <1>3 DEF FilesOwned, Goto, Served
<1>4. ASSUME NEW d \in Daemons, CleanupSocket(d)
      PROVE  FilesOwned'
  BY <1>4 DEF CleanupSocket, Exit, FilesOwned, Goto, Served
<1>5. ASSUME NEW d \in Daemons, Kill(d)
      PROVE  FilesOwned'
  BY <1>5 DEF Kill, FilesOwned
<1>6. ASSUME NEW d \in Daemons, CheckAlreadyRunning(d)
      PROVE  FilesOwned'
  BY <1>6 DEF CheckAlreadyRunning, FilesOwned, Goto, Served
<1>7. ASSUME NEW d \in Daemons, StartServer(d)
      PROVE  FilesOwned'
  BY <1>7 DEF StartServer, WritePidFile, FilesOwned, Goto, Served
<1>8. ASSUME NEW d \in Daemons, LaunchFails(d) \/ Refuse(d)
      PROVE  FilesOwned'
  BY <1>2, <1>8 DEF LaunchFails, Refuse, Served, Phases
<1>9. ASSUME NEW d \in Daemons, \/ WaitForBot(d) \/ CreateRuntimeApi(d) \/ InitProject(d)
                                \/ BootNotified(d) \/ ShutdownSeen(d) \/ StopRoot(d)
      PROVE  FilesOwned'
  BY <1>2, <1>9
  DEF WaitForBot, CreateRuntimeApi, InitProject, BootNotified, ShutdownSeen, StopRoot,
      Served, Phases
<1>10. ASSUME NEW d \in Daemons, \/ StartSignalServerRaises(d) \/ InitFails(d)
                                 \/ StopRootRaises(d) \/ StopServer(d)
       PROVE  FilesOwned'
  BY <1>3, <1>10 DEF StartSignalServerRaises, InitFails, StopRootRaises, StopServer
<1>11. ASSUME NEW d \in Daemons, Bot(d) \/ Restart(d)
       PROVE  FilesOwned'
  BY <1>1, <1>11
  DEF Bot, OnReady, GuildMissing, SetupDone, SetupRaises, BotEnds, Restart, Sigterm, runVars
<1>12. ASSUME NEW c \in Conns, \/ Connect(c) \/ ClientClose(c) \/ Handle(c)
                               \/ \E r \in Requests : SendLine(c, r)
       PROVE  FilesOwned'
  BY <1>1, <1>12
  DEF Connect, ClientClose, Handle, SendLine, RejectLine, HandleHello, HandleShutdown,
      DispatchApi, HandlerDone, Eof, ReadTimeout, RemoveClient, runVars
<1>13. CASE Down \/ UNCHANGED vars
  BY <1>1, <1>13 DEF Down, Sigterm, vars, runVars
<1>14. QED
  BY <1>4, <1>5, <1>6, <1>7, <1>8, <1>9, <1>10, <1>11, <1>12, <1>13 DEF Next, Run

-----------------------------------------------------------------------------
\* The inductive invariant of the daemon (daemon.py, server.py): types, the
\* slots and their handshakes, and who has still to remove which file.
THEOREM DaemonSafety == Spec => []DaemonInv
<1>1. DaemonInv /\ [Next]_vars => DaemonInv'
  BY TypeStep, ConnStep, FilesStep DEF DaemonInv, DaemonTypeOK
<1>2. QED BY DaemonInitInv, <1>1, PTL DEF Spec

\* However many daemons and clients there are, and however connections end,
\* the server counts a connection as greeted only when it has sent a hello
\* itself: no entry of _handshake_done is left for the next writer with the
\* same id (server.py, _handle_client and its finally clause).
THEOREM AlwaysHandshaken == Spec => []Handshaken
<1>1. DaemonInv => Handshaken
  BY DEF DaemonInv, ConnInv, OwnHandshake, Handshaken
<1>2. QED BY <1>1, DaemonSafety, PTL

\* However many daemons were started at once and whatever raised on the way,
\* when they are all gone and none was killed, neither a PID file nor a
\* socket file is left (daemon.py, _run, _cleanup_pid_file, _cleanup_socket).
THEOREM FilesAlwaysCleaned == Spec => []FilesCleaned
<1>1. DaemonInv => FilesCleaned
  BY DEF DaemonInv, DaemonTypeOK, RunTypeOK, FilesOwned, FilesCleaned, Alive, Served
<1>2. QED BY <1>1, DaemonSafety, PTL
=============================================================================
