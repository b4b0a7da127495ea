---------------------------- MODULE CompanyRoot ----------------------------
(***************************************************************************)
(* The head's side of one company agent, composed with its workers         *)
(* (module WorkerServer): hire, dismiss, dispatch, kill, the health poll,  *)
(* the channel reader, routing.json, and a daemon that stops, crashes and  *)
(* reconnects.  Translated from supervisor/company_root.py,                *)
(* daemon/agent_handle.py, daemon/runtime_api.py, daemon/routing_state.py  *)
(* and transport/native.py, for one agent id: handles of different ids     *)
(* share nothing but the event loop and the routing file.                  *)
(*                                                                         *)
(* A head coroutine suspends where it waits for the worker's socket        *)
(* (_wait_for_socket), in dismiss() between the registry and the routing   *)
(* file, and in start() between the probe of an entry and its removal.  A  *)
(* drain() of the first or last frame of a connection is not a step of its *)
(* own elsewhere: hire() and reconnect_agents touch nothing shared before  *)
(* it, kill() nothing after it.                                            *)
(*                                                                         *)
(* Left out: staging of the working directory; the choice of the transport *)
(* (Docker waits for the socket as the native one does, and a docker run   *)
(* that is refused changes nothing here); a data directory that is not     *)
(* configured (no routing file at all), a routing file cut short by a      *)
(* crash inside write_text.                                                *)
(***************************************************************************)
EXTENDS WorkerServer

CONSTANTS
  Traffic,   \* frames the daemon sends to a live agent, a subset of HeadMsg
  Overlap    \* TRUE: callers hire or dispatch an id that is already
             \* registered or still being spawned (create_strategist does)

HeadFrames == {"message", "give-task", "health-check"}

ASSUME RootAssumption ==
  /\ Traffic \subseteq HeadFrames
  /\ Overlap \in BOOLEAN

VARIABLES
  daemon,      \* the vco daemon process; "stale": start() has probed in vain
  registered,  \* _company_agents has an AgentHandle for the id
  sock,        \* that handle's _socket_writer
  mine,        \* connections whose reader task belongs to that handle
  health,      \* that handle's _last_health
  routing,     \* routing.json (and _routing_state) has an entry for the id
  pending,     \* spawn() calls that wait for the worker's socket
  leaving,     \* connections of handles inside dismiss()'s stop_process
  overtaken    \* history: the handle was registered during a dismissal

handleVars == <<registered, sock, mine, health, overtaken>>
rootVars == <<daemon, handleVars, routing, pending, leaving>>
vars == <<workerVars, rootVars>>

HealthMsg == {"health-unknown", "health-running", "health-stopped"}

TypeOK ==
  /\ WorkerTypeOK
  /\ daemon \in {"up", "down", "stale"}
  /\ registered \in BOOLEAN
  /\ sock \in Conns \cup {NoConn}
  /\ mine \in SUBSET Conns
  /\ health \in HealthMsg \cup {"none"}
  /\ routing \in BOOLEAN
  /\ pending \in [Procs -> {"none", "hire", "dispatch", "detached"}]
  /\ leaving \in SUBSET Conns
  /\ overtaken \in BOOLEAN

Init ==
  /\ WorkerInit
  /\ daemon = "up"
  /\ registered = FALSE
  /\ sock = NoConn
  /\ mine = {}
  /\ health = "none"
  /\ routing = FALSE
  /\ pending = [p \in Procs |-> "none"]
  /\ leaving = {}
  /\ overtaken = FALSE

-----------------------------------------------------------------------------
\* AgentHandle.is_alive: only the local transport is consulted.
IsAlive == sock # NoConn /\ clientEnd[sock] = "open"

\* The stop frame; a handle that is not alive sends nothing.
SendStop ==
  inbox' = IF IsAlive /\ ServerEndOpen(sock)
             THEN [inbox EXCEPT ![sock] = Append(@, "stop")] ELSE inbox

\* AgentHandle.stop_process for the registered handle; "also" are further
\* connections that close with it.
StopProcess(also) ==
  /\ SendStop
  /\ CloseEffect(also \cup IF IsAlive THEN {sock} ELSE {})
  /\ UNCHANGED <<procVars, peer, queue, task, drain>>

\* Mutant: a fresh handle starts with an invented report.
NewHandle_Assumed(c) ==
  /\ registered' = TRUE
  /\ sock' = c
  /\ mine' = {c}
  /\ health' = "assumed"
  /\ overtaken' = (leaving # {})

NewHandle(c) ==
  /\ registered' = TRUE
  /\ sock' = c
  /\ mine' = {c}
  /\ health' = "none"
  /\ overtaken' = (leaving # {})

DropHandle ==
  /\ registered' = FALSE
  /\ sock' = NoConn
  /\ mine' = {}
  /\ health' = "none"
  /\ overtaken' = FALSE

\* A spawn() begun by dispatch() for a handle object that has left the
\* registry goes on, and serves that object only.
Detach(pend) == [p \in Procs |-> IF pend[p] = "dispatch" THEN "detached" ELSE pend[p]]

OpenEnds == {c \in Conns : clientEnd[c] = "open"}

\* RoutingState in memory and its file: the entry is there, or is not.
Routed(entry) == routing' = entry

SaveRouting == Routed(TRUE)

RemoveRouting == Routed(FALSE)

Quiet == \A p \in Procs : pending[p] = "none"

\* hire(), up to the wait for the socket.
Hire(p) ==
  /\ daemon = "up"
  /\ Overlap \/ (~registered /\ Quiet)
  /\ Spawn(p)
  /\ pending' = [pending EXCEPT ![p] = "hire"]
  /\ UNCHANGED <<connVars, daemon, handleVars, routing, leaving>>

\* dispatch() of an agent whose handle is not alive.
Dispatch(p) ==
  /\ daemon = "up"
  /\ Overlap \/ Quiet
  /\ registered /\ ~IsAlive
  /\ Spawn(p)
  /\ pending' = [pending EXCEPT ![p] = "dispatch"]
  /\ UNCHANGED <<connVars, daemon, handleVars, routing, leaving>>

\* The socket answered (whichever worker listens on it): attach, send start.
HireDone(p) ==
  /\ pending[p] = "hire"
  /\ \E c \in Conns : Connect(c, "open", <<"start">>) /\ NewHandle(c)
  /\ pending' = [Detach(pending) EXCEPT ![p] = "none"]
  /\ SaveRouting
  /\ UNCHANGED <<procVars, daemon, leaving>>

DispatchDone(p) ==
  /\ pending[p] = "dispatch"
  /\ \E c \in Conns :
       /\ Connect(c, "open", <<"start">>)
       /\ sock' = c
       /\ mine' = mine \cup {c}
  /\ pending' = [pending EXCEPT ![p] = "none"]
  /\ UNCHANGED <<procVars, daemon, registered, health, overtaken, routing, leaving>>

DetachedDone(p) ==
  /\ pending[p] = "detached"
  /\ \E c \in Conns : Connect(c, "open", <<"start">>)
  /\ pending' = [pending EXCEPT ![p] = "none"]
  /\ UNCHANGED <<procVars, daemon, handleVars, routing, leaving>>

\* Ten seconds passed without a socket: TimeoutError, the process is left.
SpawnTimeout(p) ==
  /\ pending[p] # "none"
  /\ ~Listening
  /\ pending' = [pending EXCEPT ![p] = "none"]
  /\ UNCHANGED <<workerVars, daemon, handleVars, routing, leaving>>

\* dismiss(): the handle leaves the registry and its stop frame is written.
\* A handle that is not alive has nothing to stop, and loses its entry at once.
Dismiss ==
  /\ daemon = "up"
  /\ registered
  /\ SendStop
  /\ DropHandle
  /\ pending' = Detach(pending)
  /\ IF IsAlive THEN leaving' = leaving \cup {sock} /\ UNCHANGED routing
                ELSE RemoveRouting /\ UNCHANGED leaving
  /\ UNCHANGED <<procVars, peer, queue, clientEnd, out, task, drain, reset, daemon>>

\* Mutant: dismiss() does not call _remove_routing.
DismissEnd_KeepsRouting(c) ==
  /\ c \in leaving
  /\ CloseEffect({c} \cap OpenEnds)
  /\ leaving' = leaving \ {c}
  /\ UNCHANGED <<procVars, peer, queue, inbox, task, drain, daemon, handleVars, routing, pending>>

\* ... and once the frame has drained: the socket closes and the entry of
\* the id goes, whichever handle saved it.
DismissEnd(c) ==
  /\ c \in leaving
  /\ CloseEffect({c} \cap OpenEnds)
  /\ leaving' = leaving \ {c}
  /\ RemoveRouting
  /\ UNCHANGED <<procVars, peer, queue, inbox, task, drain, daemon, handleVars, pending>>

\* kill() and relaunch(): the handle stays registered.
Kill ==
  /\ daemon = "up"
  /\ registered /\ IsAlive
  /\ StopProcess({})
  /\ sock' = NoConn
  /\ UNCHANGED <<daemon, registered, mine, health, overtaken, routing, pending, leaving>>

\* AgentHandle.send from the health poll, a relayed message or give_task.
SendTraffic ==
  /\ daemon = "up"
  /\ registered /\ IsAlive
  /\ \E m \in Traffic : ClientSend(sock, m)
  /\ UNCHANGED <<procVars, rootVars>>

\* _channel_reader of connection c, for the handle that started it.  An error
\* of Discord while a report is routed ends the reader: nothing makes it read
\* on, and no fairness is assumed of it.
ReadFrame(c) ==
  /\ daemon = "up"
  /\ ClientRead(c)
  /\ health' = IF c \in mine /\ Head(out[c]) \in HealthMsg THEN Head(out[c]) ELSE health
  /\ UNCHANGED <<procVars, daemon, registered, sock, mine, overtaken, routing, pending, leaving>>

-----------------------------------------------------------------------------
DaemonGone ==
  /\ daemon' = "down"
  /\ DropHandle
  /\ pending' = [p \in Procs |-> "none"]
  /\ leaving' = {}
  /\ UNCHANGED routing

\* The daemon is killed: every connection closes, nothing else is told.
Crash ==
  /\ daemon # "down"
  /\ CloseEffect(OpenEnds)
  /\ DaemonGone
  /\ UNCHANGED <<procVars, peer, queue, inbox, task, drain>>

\* CompanyRoot.stop() and exit: agents are stopped, routing.json is kept.
Shutdown ==
  /\ daemon = "up"
  /\ StopProcess(OpenEnds)
  /\ DaemonGone

\* start() with an entry in routing.json whose socket answers.
Reconnect ==
  /\ daemon = "down" /\ routing
  /\ \E c \in Conns : Connect(c, "open", <<"reconnect">>) /\ NewHandle(c)
  /\ daemon' = "up"
  /\ UNCHANGED <<procVars, routing, pending, leaving>>

\* The probe fails: refused, or any other exception, before or after the
\* connection was made.  The worker may well be alive.
ReconnectFails ==
  /\ daemon = "down" /\ routing
  /\ \/ UNCHANGED connVars
     \/ \E c \in Conns : Connect(c, "closed", <<"reconnect">>)
  /\ daemon' = "stale"
  /\ UNCHANGED <<procVars, handleVars, routing, pending, leaving>>

\* The stale entry is removed after the last probe, and start() returns.
DropStale ==
  /\ daemon = "stale"
  /\ daemon' = "up"
  /\ RemoveRouting
  /\ UNCHANGED <<workerVars, handleVars, pending, leaving>>

\* start() with no entry.
StartWithout ==
  /\ daemon = "down" /\ ~routing
  /\ daemon' = "up"
  /\ UNCHANGED <<workerVars, handleVars, routing, pending, leaving>>

SpawnEnds(p) == HireDone(p) \/ DispatchDone(p) \/ DetachedDone(p) \/ SpawnTimeout(p)

RootStep ==
  \/ \E p \in Procs : Hire(p) \/ Dispatch(p) \/ SpawnEnds(p)
  \/ \E c \in Conns : ReadFrame(c) \/ DismissEnd(c)
  \/ Dismiss \/ Kill \/ SendTraffic
  \/ Crash \/ Shutdown
  \/ Reconnect \/ ReconnectFails \/ DropStale \/ StartWithout

Next == RootStep \/ (WorkerStep /\ UNCHANGED rootVars)

Spec == Init /\ [][Next]_vars
-----------------------------------------------------------------------------
(* Properties.                                                             *)

\* While the daemon runs, the agents a restart will look for are the agents
\* it manages (company_root.py: hire, dismiss, reconnect_agents and the
\* routing file, across crashes at any point), with the two differences the
\* await inside dismiss() makes: the entry of an agent outlives its handle
\* only while a dismissal is under way, and an agent has no entry only if it
\* was hired before an earlier dismissal of the same id had ended.
RegistryPersisted ==
  daemon = "up" =>
    /\ routing => registered \/ leaving # {}
    /\ registered /\ ~overtaken => routing

\* The head believes that its agent runs only if one of the workers it was
\* connected to has really bootstrapped a container, although a report goes
\* to whatever connection the worker's proxy names at that moment
\* (main.py's reconnect and health-check branches, update_health).
HealthIsGrounded ==
  registered /\ health = "health-running" =>
    \E c \in mine : boots[peer[c]] > 0
=============================================================================
