---------------------------- MODULE WorkerServer ----------------------------
(***************************************************************************)
(* The socket side of one agent's vco-worker: the processes spawned for    *)
(* the agent id, the socket file they share, the connections they serve,   *)
(* and the "writer proxy" through which a worker talks to its head.        *)
(* Translated from packages/vco-worker/src/vco_worker/main.py              *)
(* (_run_socket) and channel/socket_server.py.                             *)
(*                                                                         *)
(* Granularity: a worker is a single-threaded asyncio program, so an       *)
(* action is what runs between two suspension points.  Different           *)
(* processes interleave freely.  A write never waits; the "await drain()"  *)
(* after it suspends the task while more than MaxOut frames are unread,    *)
(* and raises when the connection it waits for is lost.                    *)
(*                                                                         *)
(* Left out: the bytes of the frames (every frame decodes), the outbox     *)
(* socket's own bind (no second party touches it), the idle/task queue and *)
(* lifecycle inside the container (module WorkerContainer).                *)
(***************************************************************************)
EXTENDS Naturals, Sequences, FiniteSets

CONSTANTS
  Procs,    \* worker processes that may be spawned for the agent id
  Conns,    \* connections that may be opened to the agent's socket path
  NoProc,   \* "no such socket file"
  NoConn,   \* SocketWriter._writer is None
  MaxIn,    \* bound: frames in flight from one client
  MaxOut    \* unread frames beyond which drain() waits (high-water mark)

ASSUME WorkerAssumption ==
  /\ NoProc \notin Procs
  /\ NoConn \notin Conns
  /\ MaxIn \in Nat \ {0}
  /\ MaxOut \in Nat \ {0}

VARIABLES
  proc,       \* life of each process
  sockPath,   \* the process whose listener the socket file names, or NoProc
  container,  \* container_holder[0] of each process
  boots,      \* containers that bootstrap_container has started, per process
  proxy,      \* writer_proxy._writer of each process
  peer,       \* the process at the server end of a connection
  queue,      \* each listener's connections that wait to be accepted, in order
  clientEnd,  \* the client's transport
  inbox,      \* frames sent by the client, not yet read by the handler
  out,        \* frames written by the worker, not yet read by the client
  task,       \* the handle_connection task of a connection
  drain,      \* the connection whose drain() that task waits for
  reset       \* connections whose server transport was force-closed

procVars == <<proc, sockPath, container, boots, proxy>>
connVars == <<peer, queue, clientEnd, inbox, out, task, drain, reset>>
workerVars == <<procVars, connVars>>

HeadMsg == {"start", "reconnect", "message", "give-task", "health-check", "stop"}
WorkerMsg == {"ready", "stopped", "report",
              "health-unknown", "health-running", "health-stopped"}

WorkerTypeOK ==
  /\ proc \in [Procs -> {"unused", "spawned", "binding", "serving",
                         "closing", "exited"}]
  /\ sockPath \in Procs \cup {NoProc}
  /\ container \in [Procs -> {"none", "running", "stopped"}]
  /\ boots \in [Procs -> Nat]
  /\ proxy \in [Procs -> Conns \cup {NoConn}]
  /\ peer \in [Conns -> Procs \cup {NoProc}]
  /\ queue \in [Procs -> Seq(Conns)]
  /\ clientEnd \in [Conns -> {"unused", "open", "closed"}]
  /\ inbox \in [Conns -> Seq(HeadMsg)]
  /\ out \in [Conns -> Seq(WorkerMsg)]
  /\ task \in [Conns -> {"none", "reading", "starting", "working",
                         "stopping", "replying", "quitting", "ended"}]
  /\ drain \in [Conns -> Conns \cup {NoConn}]
  /\ reset \in SUBSET Conns

WorkerInit ==
  /\ proc = [p \in Procs |-> "unused"]
  /\ sockPath = NoProc
  /\ container = [p \in Procs |-> "none"]
  /\ boots = [p \in Procs |-> 0]
  /\ proxy = [p \in Procs |-> NoConn]
  /\ peer = [c \in Conns |-> NoProc]
  /\ queue = [p \in Procs |-> <<>>]
  /\ clientEnd = [c \in Conns |-> "unused"]
  /\ inbox = [c \in Conns |-> <<>>]
  /\ out = [c \in Conns |-> <<>>]
  /\ task = [c \in Conns |-> "none"]
  /\ drain = [c \in Conns |-> NoConn]
  /\ reset = {}

-----------------------------------------------------------------------------
(* The client's end of a connection, as the head's StreamWriter uses it.   *)

\* A connect() on the socket path succeeds.
Listening == sockPath # NoProc /\ proc[sockPath] = "serving"

Busy == {"reading", "starting", "working", "stopping", "replying", "quitting"}

\* Connections the server still counts as active; a backlog entry dies with
\* the listener.
ServerEndOpen(c) ==
  /\ peer[c] # NoProc
  /\ c \notin reset
  /\ \/ proc[peer[c]] = "serving" /\ task[c] # "ended"
     \/ proc[peer[c]] = "closing" /\ task[c] \in Busy

\* open_unix_connection succeeds, and the client writes msgs on it at once.
Connect(c, end, msgs) ==
  /\ Listening
  /\ clientEnd[c] = "unused"
  /\ peer' = [peer EXCEPT ![c] = sockPath]
  /\ queue' = [queue EXCEPT ![sockPath] = Append(@, c)]
  /\ clientEnd' = [clientEnd EXCEPT ![c] = end]
  /\ inbox' = [inbox EXCEPT ![c] = msgs]
  /\ UNCHANGED <<out, task, drain, reset>>

\* Closing with unread input makes the kernel reset the connection.
CloseEffect(C) ==
  /\ clientEnd' = [c \in Conns |-> IF c \in C THEN "closed" ELSE clientEnd[c]]
  /\ out' = [c \in Conns |-> IF c \in C THEN <<>> ELSE out[c]]
  /\ reset' = reset \cup {c \in C : out[c] # <<>>}

\* StreamWriter.write: a write to a dead peer force-closes the transport.
ClientSend(c, m) ==
  /\ clientEnd[c] = "open"
  /\ IF ServerEndOpen(c)
       THEN /\ Len(inbox[c]) < MaxIn
            /\ inbox' = [inbox EXCEPT ![c] = Append(@, m)]
            /\ UNCHANGED clientEnd
       ELSE /\ clientEnd' = [clientEnd EXCEPT ![c] = "closed"]
            /\ UNCHANGED inbox
  /\ UNCHANGED <<peer, queue, out, task, drain, reset>>

ClientRead(c) ==
  /\ clientEnd[c] = "open"
  /\ out[c] # <<>>
  /\ out' = [out EXCEPT ![c] = Tail(@)]
  /\ UNCHANGED <<peer, queue, clientEnd, inbox, task, drain, reset>>

-----------------------------------------------------------------------------
(* start_socket_server and process life.                                   *)

\* create_subprocess_exec of vco_worker (the head's NativeTransport.spawn).
Spawn(p) ==
  /\ proc[p] = "unused"
  /\ proc' = [proc EXCEPT ![p] = "spawned"]
  /\ UNCHANGED <<sockPath, container, boots, proxy>>

\* The socket file exists and answers: another worker is running, and this
\* process dies with RuntimeError.  The probe itself is a connection that
\* the other worker serves.
SocketInUse(p) ==
  /\ proc[p] = "spawned"
  /\ \E c \in Conns : Connect(c, "closed", <<>>)
  /\ proc' = [proc EXCEPT ![p] = "exited"]
  /\ UNCHANGED <<sockPath, container, boots, proxy>>

\* No socket file, or one nobody listens on, which is unlinked.
SocketFree(p) ==
  /\ proc[p] = "spawned"
  /\ ~Listening
  /\ sockPath' = NoProc
  /\ proc' = [proc EXCEPT ![p] = "binding"]
  /\ UNCHANGED <<container, boots, proxy, connVars>>

\* asyncio.start_unix_server removes whatever socket file is there and binds.
Bind(p) ==
  /\ proc[p] = "binding"
  /\ proc' = [proc EXCEPT ![p] = "serving"]
  /\ sockPath' = p
  /\ UNCHANGED <<container, boots, proxy, connVars>>

\* The process ends, and with it every handler it still runs.
EndAll(p) ==
  /\ proc' = [proc EXCEPT ![p] = "exited"]
  /\ proxy' = [proxy EXCEPT ![p] = NoConn]
  /\ task' = [c \in Conns |-> IF peer[c] = p THEN "ended" ELSE task[c]]
  /\ inbox' = [c \in Conns |-> IF peer[c] = p THEN <<>> ELSE inbox[c]]
  /\ queue' = [queue EXCEPT ![p] = <<>>]
  /\ drain' = [c \in Conns |-> IF peer[c] = p THEN NoConn ELSE drain[c]]

\* The tail of _run_socket, once server.wait_closed() finds no active
\* connection.  The unlink is by path, whoever owns the file by then.  The
\* wait for outbox_server is left out: its clients are children of the worker
\* that hold a connection for one frame.
Exit(p) ==
  /\ proc[p] = "closing"
  /\ \A c \in Conns : peer[c] = p => ~ServerEndOpen(c)
  /\ EndAll(p)
  /\ sockPath' = NoProc
  /\ container' = [container EXCEPT ![p] = IF @ = "none" THEN @ ELSE "stopped"]
  /\ UNCHANGED <<boots, peer, clientEnd, out, reset>>

\* The process is killed: its socket file stays behind.
Die(p) ==
  /\ proc[p] \in {"spawned", "binding", "serving", "closing"}
  /\ EndAll(p)
  /\ UNCHANGED <<sockPath, container, boots, peer, clientEnd, out, reset>>

-----------------------------------------------------------------------------
(* handle_connection: one task per connection.                             *)

\* SocketWriter.write: dropped when there is no writer; a write to a peer
\* that has gone force-closes that transport.
Dropped(p) == proxy[p] = NoConn \/ proxy[p] \in reset
PeerGone(p) == ~Dropped(p) /\ clientEnd[proxy[p]] = "closed"

ProxyWrite(p, m) ==
  LET c == proxy[p] IN
  /\ out' = IF Dropped(p) \/ PeerGone(p) THEN out
                                        ELSE [out EXCEPT ![c] = Append(@, m)]
  /\ reset' = IF PeerGone(p) THEN reset \cup {c} ELSE reset

NoWrite == UNCHANGED <<out, reset>>

\* SocketWriter.drain after a write: task c goes on, or waits for the
\* connection that is the proxy now.
Full(p) == ~Dropped(p) /\ ~PeerGone(p) /\ Len(out[proxy[p]]) >= MaxOut

AfterWrite(c) == IF Full(peer[c]) THEN "replying" ELSE "reading"

DrainAfter(c) ==
  drain' = IF Full(peer[c]) THEN [drain EXCEPT ![c] = proxy[peer[c]]] ELSE drain

\* The handler starts: it becomes the worker's writer.
Accept(c) ==
  /\ peer[c] # NoProc
  /\ task[c] = "none"
  /\ proc[peer[c]] = "serving"
  /\ queue[peer[c]] # <<>> /\ Head(queue[peer[c]]) = c
  /\ queue' = [queue EXCEPT ![peer[c]] = Tail(@)]
  /\ task' = [task EXCEPT ![c] = "reading"]
  /\ proxy' = [proxy EXCEPT ![peer[c]] = c]
  /\ UNCHANGED <<proc, sockPath, container, boots, peer, clientEnd, inbox, out, drain, reset>>

\* The next frame of c is m, and the loop body reaches state "next".
Receive(c, m, next) ==
  /\ task[c] = "reading"
  /\ inbox[c] # <<>>
  /\ Head(inbox[c]) = m
  /\ inbox' = [inbox EXCEPT ![c] = Tail(@)]
  /\ task' = [task EXCEPT ![c] = next]
  /\ UNCHANGED <<peer, queue, clientEnd>>

\* Mutant: the finally clause forgets "writer_proxy._writer = None".
EndTask_KeepsProxy(c) ==
  /\ task' = [task EXCEPT ![c] = "ended"]
  /\ drain' = [drain EXCEPT ![c] = NoConn]
  /\ inbox' = [inbox EXCEPT ![c] = <<>>]
  /\ UNCHANGED proxy

\* The finally clause: close the connection (frames not read by then are
\* gone) and clear the writer proxy.
EndTask(c) ==
  /\ task' = [task EXCEPT ![c] = "ended"]
  /\ drain' = [drain EXCEPT ![c] = NoConn]
  /\ inbox' = [inbox EXCEPT ![c] = <<>>]
  /\ proxy' = [proxy EXCEPT ![peer[c]] = NoConn]

RecvStart(c) ==
  /\ Receive(c, "start", IF container[peer[c]] = "none" THEN "starting" ELSE "reading")
  /\ NoWrite
  /\ UNCHANGED <<procVars, drain>>

\* bootstrap_container returns: the holder is assigned, "ready" is signalled.
BootDone(c) ==
  LET p == peer[c] IN
  /\ task[c] = "starting"
  /\ ProxyWrite(p, "ready")
  /\ container' = [container EXCEPT ![p] = "running"]
  /\ boots' = [boots EXCEPT ![p] = @ + 1]
  /\ task' = [task EXCEPT ![c] = AfterWrite(c)]
  /\ DrainAfter(c)
  /\ UNCHANGED <<proc, sockPath, proxy, peer, queue, clientEnd, inbox>>

\* Mutant: a missing container reads as running.
Health_Optimistic(p) ==
  IF container[p] = "stopped" THEN "health-stopped" ELSE "health-running"

Health(p) ==
  IF container[p] = "none" THEN "health-unknown"
  ELSE IF container[p] = "running" THEN "health-running" ELSE "health-stopped"

RecvReconnect(c) ==
  /\ Receive(c, "reconnect", AfterWrite(c))
  /\ ProxyWrite(peer[c], Health(peer[c]))
  /\ DrainAfter(c)
  /\ UNCHANGED procVars

RecvHealthCheck(c) ==
  /\ Receive(c, "health-check", AfterWrite(c))
  /\ container[peer[c]] # "none"
  /\ ProxyWrite(peer[c], Health(peer[c]))
  /\ DrainAfter(c)
  /\ UNCHANGED procVars

\* Frames for a container that does not exist are ignored; a task is put in
\* the container's own queue.
RecvIgnored(c) ==
  /\ \/ Receive(c, "give-task", "reading")
     \/ /\ Receive(c, "health-check", "reading") \/ Receive(c, "message", "reading")
        /\ container[peer[c]] = "none"
  /\ NoWrite
  /\ UNCHANGED <<procVars, drain>>

RecvMessage(c) ==
  /\ Receive(c, "message", "working")
  /\ container[peer[c]] # "none"
  /\ NoWrite
  /\ UNCHANGED <<procVars, drain>>

\* The agent's handler finishes a message, with a report or without one.
HandlerDone(c) ==
  /\ task[c] = "working"
  /\ \/ /\ ProxyWrite(peer[c], "report")
        /\ task' = [task EXCEPT ![c] = AfterWrite(c)]
        /\ DrainAfter(c)
     \/ /\ NoWrite
        /\ task' = [task EXCEPT ![c] = "reading"]
        /\ UNCHANGED drain
  /\ UNCHANGED <<procVars, peer, queue, clientEnd, inbox>>

\* A stop frame sets connection_event at once when there is no container
\* (the task returns and the server closes); otherwise the container stops.
RecvStop(c) ==
  /\ Receive(c, "stop", "stopping")
  /\ container[peer[c]] # "none"
  /\ NoWrite
  /\ UNCHANGED <<procVars, drain>>

RecvStopEmpty(c) ==
  /\ task[c] = "reading"
  /\ inbox[c] # <<>> /\ Head(inbox[c]) = "stop"
  /\ container[peer[c]] = "none"
  /\ proc' = [proc EXCEPT ![peer[c]] = "closing"]
  /\ EndTask(c)
  /\ UNCHANGED <<sockPath, container, boots, peer, queue, clientEnd, out, reset>>

\* container.stop() returns and "stopped" is signalled.  Unless the drain()
\* of that signal waits, the server closes in the same step.  A container
\* that another connection already stopped raises instead.
StopDone(c) ==
  LET p == peer[c] IN
  /\ task[c] = "stopping"
  /\ container[p] = "running"
  /\ ~Full(p)
  /\ ProxyWrite(p, "stopped")
  /\ container' = [container EXCEPT ![p] = "stopped"]
  /\ proc' = [proc EXCEPT ![p] = "closing"]
  /\ EndTask(c)
  /\ UNCHANGED <<sockPath, boots, peer, queue, clientEnd>>

StopWaits(c) ==
  LET p == peer[c] IN
  /\ task[c] = "stopping"
  /\ container[p] = "running"
  /\ Full(p)
  /\ ProxyWrite(p, "stopped")
  /\ container' = [container EXCEPT ![p] = "stopped"]
  /\ task' = [task EXCEPT ![c] = "quitting"]
  /\ drain' = [drain EXCEPT ![c] = proxy[p]]
  /\ UNCHANGED <<proc, sockPath, boots, proxy, peer, queue, clientEnd, inbox>>

\* drain() returns: the client has read, or the connection was closed after
\* its buffer had been flushed.
Drained(c) ==
  /\ drain[c] # NoConn
  /\ Len(out[drain[c]]) <= MaxOut \/ clientEnd[drain[c]] = "closed"

Resume(c) ==
  /\ task[c] = "replying"
  /\ Drained(c)
  /\ task' = [task EXCEPT ![c] = "reading"]
  /\ drain' = [drain EXCEPT ![c] = NoConn]
  /\ NoWrite
  /\ UNCHANGED <<procVars, peer, queue, clientEnd, inbox>>

Quit(c) ==
  /\ task[c] = "quitting"
  /\ Drained(c)
  /\ proc' = [proc EXCEPT ![peer[c]] = "closing"]
  /\ EndTask(c)
  /\ NoWrite
  /\ UNCHANGED <<sockPath, container, boots, peer, queue, clientEnd>>

\* drain() raises ConnectionResetError: the handler ends, also when it was
\* about to set connection_event.
DrainLost(c) ==
  /\ task[c] \in {"replying", "quitting"}
  /\ drain[c] # NoConn /\ clientEnd[drain[c]] = "closed"
  /\ EndTask(c)
  /\ UNCHANGED <<proc, sockPath, container, boots, peer, queue, clientEnd, out, reset>>

\* An exception the loop does not catch: a failed bootstrap, a handler
\* error, or TransitionNotAllowed from a container that is not running.
TaskFails(c) ==
  /\ task[c] \in {"starting", "working", "stopping"}
  /\ EndTask(c)
  /\ UNCHANGED <<proc, sockPath, container, boots, peer, queue, clientEnd, out, reset>>

\* Mutant: an empty read does not leave the loop once the server closes.
Eof_KeepsReading(c) ==
  /\ task[c] = "reading"
  /\ inbox[c] = <<>>
  /\ clientEnd[c] = "closed"
  /\ proc[peer[c]] = "serving"
  /\ EndTask(c)
  /\ UNCHANGED <<proc, sockPath, container, boots, peer, queue, clientEnd, out, reset>>

\* End of stream: the client closed and every frame has been read.
Eof(c) ==
  /\ task[c] = "reading"
  /\ inbox[c] = <<>>
  /\ clientEnd[c] = "closed"
  /\ EndTask(c)
  /\ UNCHANGED <<proc, sockPath, container, boots, peer, queue, clientEnd, out, reset>>

\* ConnectionResetError or BrokenPipeError from the reader: buffered frames
\* are not read any more.
ReadError(c) ==
  /\ task[c] = "reading"
  /\ c \in reset
  /\ EndTask(c)
  /\ UNCHANGED <<proc, sockPath, container, boots, peer, queue, clientEnd, out, reset>>

\* handle_outbox_connection: a child process of the agent sends a frame.
\* Bound: none is sent while a drain() of the proxy would wait.
Forward(p) ==
  /\ proc[p] \in {"serving", "closing"}
  /\ container[p] = "running"
  /\ ~Full(p)
  /\ ProxyWrite(p, "report")
  /\ UNCHANGED <<procVars, peer, queue, clientEnd, inbox, task, drain>>

-----------------------------------------------------------------------------
HandlerStep(c) ==
  \/ Accept(c)
  \/ RecvStart(c) \/ RecvReconnect(c) \/ RecvHealthCheck(c)
  \/ RecvIgnored(c) \/ RecvMessage(c) \/ RecvStop(c) \/ RecvStopEmpty(c)
  \/ BootDone(c) \/ HandlerDone(c) \/ StopDone(c) \/ StopWaits(c)
  \/ Resume(c) \/ Quit(c) \/ DrainLost(c) \/ TaskFails(c)
  \/ Eof(c) \/ ReadError(c)

ProcessStep(p) == SocketInUse(p) \/ SocketFree(p) \/ Bind(p) \/ Exit(p)

WorkerStep ==
  \/ \E c \in Conns : HandlerStep(c)
  \/ \E p \in Procs : ProcessStep(p) \/ Forward(p) \/ Die(p)

(* Any client: what the worker must cope with, whatever the head does.     *)
AnyClient ==
  \/ \E p \in Procs : Spawn(p) /\ UNCHANGED connVars
  \/ \E c \in Conns :
       \/ Connect(c, "open", <<>>) /\ UNCHANGED procVars
       \/ \E m \in HeadMsg : ClientSend(c, m) /\ UNCHANGED procVars
       \/ ClientRead(c) /\ UNCHANGED procVars
       \/ /\ clientEnd[c] = "open"
          /\ CloseEffect({c})
          /\ UNCHANGED <<procVars, peer, queue, inbox, task, drain>>

WorkerNext == WorkerStep \/ AnyClient

\* The event loop of a live worker keeps running its tasks; handlers are
\* bounded by their own timeouts.  Clients and crashes owe nothing.
WorkerFairness ==
  /\ \A c \in Conns : WF_workerVars(HandlerStep(c))
  /\ \A p \in Procs : WF_workerVars(ProcessStep(p))

WorkerSpec == WorkerInit /\ [][WorkerNext]_workerVars /\ WorkerFairness

-----------------------------------------------------------------------------
(* Properties.                                                             *)

\* No output goes to a finished connection: the writer proxy of a worker is
\* None or a connection of that worker whose handler is still running
\* (main.py, the finally clause of handle_connection against late writes).
ProxyIsLive ==
  \A p \in Procs : proxy[p] # NoConn =>
    /\ peer[proxy[p]] = p
    /\ task[proxy[p]] \in Busy
    /\ proc[p] \in {"serving", "closing"}

\* p has been told to stop, its clients have hung up, and it has not exited.
ShuttingDown(p) ==
  proc[p] = "closing" /\ \A c \in Conns : peer[c] = p => clientEnd[c] = "closed"

\* A worker that has been told to stop exits once every client has hung up,
\* whatever its handlers were doing (main.py, server.wait_closed() in the
\* shutdown tail waits for each handler to see its end of stream): no worker
\* is shutting down for ever.
StoppedWorkerExits == []<>(\A p \in Procs : ~ShuttingDown(p))
=============================================================================
