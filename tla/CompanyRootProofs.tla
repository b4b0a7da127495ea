------------------------- MODULE CompanyRootProofs -------------------------
(***************************************************************************)
(* Proofs about WorkerServer and CompanyRoot, for any number of worker     *)
(* processes and connections, any bounds, with overlapping hires or        *)
(* without: the writer proxy never names a finished connection, the        *)
(* routing file and the registry agree, a restart forgets no surviving     *)
(* worker, and a "running" report in the head's hands stands for a real    *)
(* container.                                                              *)
(***************************************************************************)
EXTENDS CompanyRoot, TLAPS

-----------------------------------------------------------------------------
(* The worker: whatever its clients do, the proxy is live.                 *)

\* A running handler belongs to a live process of the agent.
BusyServed ==
  \A c \in Conns : task[c] \in Busy =>
    peer[c] \in Procs /\ proc[peer[c]] \in {"serving", "closing"}

\* A connection nobody opened yet has neither a handler nor a peer.
FreshConn ==
  \A c \in Conns : clientEnd[c] = "unused" => task[c] = "none" /\ peer[c] = NoProc

\* ProxyIsLive alone is not inductive: a handler that ends clears the proxy
\* of its peer, so the peer of a running handler must be known (BusyServed),
\* and connecting must not move it (FreshConn).
WorkerInv ==
  /\ WorkerTypeOK
  /\ BusyServed
  /\ FreshConn
  /\ ProxyIsLive

LEMMA WorkerInitInv == WorkerInit => WorkerInv
BY WorkerAssumption
DEF WorkerInit, WorkerInv, WorkerTypeOK, BusyServed, FreshConn, ProxyIsLive,
    Busy, HeadMsg, WorkerMsg

-----------------------------------------------------------------------------
(* Type correctness of the building blocks.                                *)

LEMMA ConnectType ==
  ASSUME WorkerTypeOK, NEW c \in Conns, NEW end \in {"open", "closed"},
         NEW msgs \in Seq(HeadMsg), Connect(c, end, msgs)
  PROVE  /\ peer' \in [Conns -> Procs \cup {NoProc}]
         /\ clientEnd' \in [Conns -> {"unused", "open", "closed"}]
         /\ inbox' \in [Conns -> Seq(HeadMsg)]
         /\ queue' \in [Procs -> Seq(Conns)]
         /\ sockPath \in Procs
<1>1. sockPath \in Procs
  BY DEF Connect, WorkerTypeOK, Listening
<1>2. Append(queue[sockPath], c) \in Seq(Conns)
  BY <1>1 DEF WorkerTypeOK
<1>3. QED BY <1>1, <1>2 DEF Connect, WorkerTypeOK

LEMMA ReceiveType ==
  ASSUME WorkerTypeOK, NEW c \in Conns, NEW m, NEW next \in Busy,
         Receive(c, m, next)
  PROVE  /\ inbox' \in [Conns -> Seq(HeadMsg)]
         /\ task' \in [Conns -> {"none", "reading", "starting", "working",
                                 "stopping", "replying", "quitting", "ended"}]
<1>1. inbox[c] \in Seq(HeadMsg) /\ inbox[c] # <<>>
  BY DEF WorkerTypeOK, Receive
<1>2. Tail(inbox[c]) \in Seq(HeadMsg)
  BY <1>1
<1>3. QED BY <1>2 DEF WorkerTypeOK, Receive, Busy

LEMMA ProxyWriteType ==
  ASSUME WorkerTypeOK, NEW p \in Procs, NEW m \in WorkerMsg, ProxyWrite(p, m)
  PROVE  out' \in [Conns -> Seq(WorkerMsg)] /\ reset' \in SUBSET Conns
<1>1. CASE Dropped(p) \/ PeerGone(p)
  BY <1>1, WorkerAssumption DEF WorkerTypeOK, ProxyWrite, Dropped, PeerGone
<1>2. CASE ~(Dropped(p) \/ PeerGone(p))
  <2>1. proxy[p] \in Conns
    BY <1>2 DEF Dropped, WorkerTypeOK
  <2>2. Append(out[proxy[p]], m) \in Seq(WorkerMsg)
    BY <2>1 DEF WorkerTypeOK
  <2>3. QED BY <1>2, <2>1, <2>2 DEF WorkerTypeOK, ProxyWrite
<1>3. QED BY <1>1, <1>2

LEMMA EndTaskType ==
  ASSUME WorkerTypeOK, NEW c \in Conns, peer[c] \in Procs, EndTask(c)
  PROVE  /\ inbox' \in [Conns -> Seq(HeadMsg)]
         /\ task' \in [Conns -> {"none", "reading", "starting", "working",
                                 "stopping", "replying", "quitting", "ended"}]
         /\ proxy' \in [Procs -> Conns \cup {NoConn}]
         /\ drain' \in [Conns -> Conns \cup {NoConn}]
BY DEF WorkerTypeOK, EndTask

LEMMA DrainType ==
  ASSUME WorkerTypeOK, NEW c \in Conns, peer[c] \in Procs, DrainAfter(c)
  PROVE  drain' \in [Conns -> Conns \cup {NoConn}] /\ AfterWrite(c) \in Busy
BY DEF WorkerTypeOK, DrainAfter, AfterWrite, Busy

LEMMA HealthType ==
  ASSUME WorkerTypeOK, NEW p \in Procs
  PROVE  Health(p) \in WorkerMsg
<1>1. container[p] \in {"none", "running", "stopped"}
  BY DEF WorkerTypeOK
<1>2. QED BY <1>1 DEF Health, WorkerMsg

-----------------------------------------------------------------------------
(* Consecution.  What a client or the process table does.                  *)

\* A step that runs no handler: tasks, containers and proxies stay, a process
\* only moves forward, and only an unopened connection gets a peer.
LEMMA ClientMove ==
  ASSUME WorkerInv, WorkerTypeOK',
         UNCHANGED <<task, container, proxy>>,
         \A p \in Procs : proc'[p] = proc[p] \/ proc[p] \in {"unused", "spawned", "binding"},
         \A c \in Conns : clientEnd[c] # "unused" => peer'[c] = peer[c],
         \A c \in Conns : clientEnd'[c] = "unused" =>
           clientEnd[c] = "unused" /\ peer'[c] = peer[c]
  PROVE  WorkerInv'
<1>1. FreshConn'
  BY DEF WorkerInv, FreshConn
<1>2. \A c \in Conns : task[c] \in Busy =>
        /\ peer'[c] = peer[c] /\ peer[c] \in Procs
        /\ proc'[peer[c]] = proc[peer[c]]
  BY DEF WorkerInv, BusyServed, FreshConn, Busy
<1>3. BusyServed'
  BY <1>2 DEF WorkerInv, BusyServed, Busy
<1>4. ProxyIsLive'
  BY <1>2 DEF WorkerInv, ProxyIsLive, WorkerTypeOK
<1>5. QED BY <1>1, <1>3, <1>4 DEF WorkerInv

LEMMA ConnectInv ==
  ASSUME WorkerInv, NEW c \in Conns, NEW end \in {"open", "closed"},
         NEW msgs \in Seq(HeadMsg), Connect(c, end, msgs), UNCHANGED procVars
  PROVE  WorkerInv'
<1>1. WorkerTypeOK'
  BY ConnectType DEF WorkerInv, WorkerTypeOK, Connect, procVars
<1>2. QED
  BY <1>1, ClientMove DEF Connect, procVars, WorkerInv, WorkerTypeOK

LEMMA ClientSendInv ==
  ASSUME WorkerInv, NEW c \in Conns, NEW m \in HeadMsg, ClientSend(c, m),
         UNCHANGED procVars
  PROVE  WorkerInv'
<1>1. Append(inbox[c], m) \in Seq(HeadMsg)
  BY DEF WorkerInv, WorkerTypeOK
<1>2. WorkerTypeOK'
  BY <1>1 DEF WorkerInv, WorkerTypeOK, ClientSend, procVars
<1>3. QED
  BY <1>2, ClientMove DEF ClientSend, procVars, WorkerInv, WorkerTypeOK

LEMMA ClientReadInv ==
  ASSUME WorkerInv, NEW c \in Conns, ClientRead(c), UNCHANGED procVars
  PROVE  WorkerInv'
<1>1. Tail(out[c]) \in Seq(WorkerMsg)
  BY DEF WorkerInv, WorkerTypeOK, ClientRead
<1>2. WorkerTypeOK'
  BY <1>1 DEF WorkerInv, WorkerTypeOK, ClientRead, procVars
<1>3. QED
  BY <1>2, ClientMove DEF ClientRead, procVars

LEMMA CloseInv ==
  ASSUME WorkerInv, NEW C \in SUBSET Conns, CloseEffect(C),
         inbox' \in [Conns -> Seq(HeadMsg)],
         UNCHANGED <<procVars, peer, queue, task, drain>>
  PROVE  WorkerInv'
<1>1. WorkerTypeOK'
  BY DEF WorkerInv, WorkerTypeOK, CloseEffect, procVars
<1>2. QED
  BY <1>1, ClientMove DEF CloseEffect, procVars

LEMMA SpawnInv ==
  ASSUME WorkerInv, NEW p \in Procs, Spawn(p), UNCHANGED connVars
  PROVE  WorkerInv'
<1>1. WorkerTypeOK'
  BY DEF WorkerInv, WorkerTypeOK, Spawn, connVars
<1>2. \A q \in Procs : proc'[q] = proc[q] \/ proc[q] \in {"unused", "spawned", "binding"}
  BY DEF WorkerInv, WorkerTypeOK, Spawn
<1>3. QED
  BY <1>1, <1>2, ClientMove DEF Spawn, connVars

-----------------------------------------------------------------------------
(* Process steps.                                                          *)

LEMMA ProcessInv ==
  ASSUME WorkerInv, NEW p \in Procs, ProcessStep(p) \/ Die(p)
  PROVE  WorkerInv'
<1>1. CASE SocketInUse(p)
  <2>1. PICK c \in Conns : Connect(c, "closed", <<>>)
    BY <1>1 DEF SocketInUse
  <2>2. WorkerTypeOK'
    <3>1. WorkerTypeOK /\ <<>> \in Seq(HeadMsg) /\ "closed" \in {"open", "closed"}
      BY DEF WorkerInv
    <3>2. /\ peer' \in [Conns -> Procs \cup {NoProc}]
          /\ clientEnd' \in [Conns -> {"unused", "open", "closed"}]
          /\ inbox' \in [Conns -> Seq(HeadMsg)]
          /\ queue' \in [Procs -> Seq(Conns)]
      BY <2>1, <3>1, ConnectType
    <3>3. UNCHANGED <<sockPath, container, boots, proxy, out, task, drain, reset>>
      BY <1>1, <2>1 DEF SocketInUse, Connect
    <3>4. proc' \in [Procs -> {"unused", "spawned", "binding", "serving",
                               "closing", "exited"}]
      BY <1>1, <3>1 DEF SocketInUse, WorkerTypeOK
    <3>5. QED BY <3>1, <3>2, <3>3, <3>4 DEF WorkerTypeOK
  <2>3. \A q \in Procs : proc'[q] = proc[q] \/ proc[q] \in {"unused", "spawned", "binding"}
    BY <1>1 DEF SocketInUse, WorkerInv, WorkerTypeOK
  <2>4. QED
    BY <1>1, <2>1, <2>2, <2>3, ClientMove, SMTT(30)
    DEF SocketInUse, Connect, WorkerInv, WorkerTypeOK
<1>2. CASE SocketFree(p) \/ Bind(p)
  <2>1. WorkerTypeOK'
    BY <1>2 DEF SocketFree, Bind, WorkerInv, WorkerTypeOK, connVars
  <2>2. \A q \in Procs : proc'[q] = proc[q] \/ proc[q] \in {"unused", "spawned", "binding"}
    BY <1>2 DEF SocketFree, Bind, WorkerInv, WorkerTypeOK
  <2>3. QED
    BY <1>2, <2>1, <2>2, ClientMove DEF SocketFree, Bind, connVars
<1>3. CASE Exit(p) \/ Die(p)
  <2>1. EndAll(p) /\ UNCHANGED <<boots, peer, clientEnd, out, reset>>
    BY <1>3 DEF Exit, Die
  <2>2. WorkerTypeOK'
    BY <1>3, <2>1, SMTT(30) DEF Exit, Die, EndAll, WorkerInv, WorkerTypeOK
  <2>3. FreshConn'
    <3> SUFFICES ASSUME NEW c \in Conns, clientEnd[c] = "unused"
                 PROVE  task'[c] = "none" /\ peer[c] = NoProc
      BY <2>1 DEF FreshConn
    <3>1. task[c] = "none" /\ peer[c] = NoProc
      BY DEF WorkerInv, FreshConn
    <3>2. QED BY <2>1, <3>1, WorkerAssumption DEF EndAll, WorkerInv, WorkerTypeOK
  <2>4. BusyServed'
    BY <2>1 DEF EndAll, WorkerInv, WorkerTypeOK, BusyServed, Busy
  <2>5. ProxyIsLive'
    BY <2>1, WorkerAssumption DEF EndAll, WorkerInv, WorkerTypeOK, ProxyIsLive, Busy
  <2>6. QED BY <2>2, <2>3, <2>4, <2>5 DEF WorkerInv
<1>4. QED BY <1>1, <1>2, <1>3 DEF ProcessStep

-----------------------------------------------------------------------------
(* Handler steps.                                                          *)

\* A handler that stays busy: only its own task changes, within Busy.
LEMMA StayBusy ==
  ASSUME WorkerInv, WorkerTypeOK', NEW c \in Conns, task[c] \in Busy,
         NEW next \in Busy, task' = [task EXCEPT ![c] = next],
         UNCHANGED <<proc, proxy, peer, clientEnd>>
  PROVE  WorkerInv'
<1>1. \A d \in Conns : (task'[d] \in Busy <=> task[d] \in Busy)
                      /\ (task[d] = "none" => task'[d] = "none")
  BY SMTT(30) DEF WorkerInv, WorkerTypeOK, Busy
<1>2. FreshConn'
  BY <1>1 DEF WorkerInv, FreshConn
<1>3. BusyServed'
  BY <1>1 DEF WorkerInv, BusyServed
<1>4. ProxyIsLive'
  BY <1>1 DEF WorkerInv, ProxyIsLive, WorkerTypeOK
<1>5. QED BY <1>2, <1>3, <1>4 DEF WorkerInv

\* A handler that ends, possibly closing the listener behind it.
LEMMA HandlerEnds ==
  ASSUME WorkerInv, NEW c \in Conns, task[c] \in Busy, EndTask(c),
         out' \in [Conns -> Seq(WorkerMsg)], reset' \in SUBSET Conns,
         UNCHANGED <<sockPath, boots, peer, queue, clientEnd>>,
         \/ UNCHANGED <<proc, container>>
         \/ /\ proc' = [proc EXCEPT ![peer[c]] = "closing"]
            /\ \/ UNCHANGED container
               \/ container' = [container EXCEPT ![peer[c]] = "stopped"]
  PROVE  WorkerInv'
<1>1. peer[c] \in Procs /\ proc[peer[c]] \in {"serving", "closing"}
  BY DEF WorkerInv, BusyServed
<1>2. WorkerTypeOK'
  <2>1. /\ proc' \in [Procs -> {"unused", "spawned", "binding", "serving",
                                "closing", "exited"}]
        /\ container' \in [Procs -> {"none", "running", "stopped"}]
    <3>1. CASE UNCHANGED <<proc, container>>
      BY <3>1 DEF WorkerInv, WorkerTypeOK
    <3>2. CASE proc' = [proc EXCEPT ![peer[c]] = "closing"] /\ UNCHANGED container
      BY <3>2 DEF WorkerInv, WorkerTypeOK
    <3>3. CASE /\ proc' = [proc EXCEPT ![peer[c]] = "closing"]
               /\ container' = [container EXCEPT ![peer[c]] = "stopped"]
      BY <3>3 DEF WorkerInv, WorkerTypeOK
    <3>4. QED BY <3>1, <3>2, <3>3
  <2>2. /\ sockPath' \in Procs \cup {NoProc} /\ boots' \in [Procs -> Nat]
        /\ peer' \in [Conns -> Procs \cup {NoProc}] /\ queue' \in [Procs -> Seq(Conns)]
        /\ clientEnd' \in [Conns -> {"unused", "open", "closed"}]
    BY DEF WorkerInv, WorkerTypeOK
  <2>3. QED BY <1>1, <2>1, <2>2, EndTaskType DEF WorkerInv, WorkerTypeOK
<1>3. FreshConn'
  BY DEF WorkerInv, WorkerTypeOK, FreshConn, EndTask, Busy
<1>4. BusyServed'
  BY <1>1 DEF WorkerInv, WorkerTypeOK, BusyServed, EndTask, Busy
<1>5. ProxyIsLive'
  BY <1>1, WorkerAssumption DEF WorkerInv, WorkerTypeOK, ProxyIsLive, EndTask, Busy
<1>6. QED BY <1>2, <1>3, <1>4, <1>5 DEF WorkerInv

LEMMA ReceiveInv ==
  ASSUME WorkerInv, NEW c \in Conns, NEW m, NEW next \in Busy,
         Receive(c, m, next), out' \in [Conns -> Seq(WorkerMsg)],
         reset' \in SUBSET Conns, drain' \in [Conns -> Conns \cup {NoConn}],
         UNCHANGED procVars
  PROVE  WorkerInv'
<1>1. WorkerTypeOK'
  BY ReceiveType DEF WorkerInv, WorkerTypeOK, Receive, procVars
<1>2. task[c] \in Busy
  BY DEF Receive, Busy
<1>3. QED
  BY <1>1, <1>2, StayBusy DEF Receive, procVars

LEMMA HandlerInv ==
  ASSUME WorkerInv, NEW c \in Conns, HandlerStep(c)
  PROVE  WorkerInv'
<1> USE DEF WorkerInv
<1>0. /\ out \in [Conns -> Seq(WorkerMsg)] /\ reset \in SUBSET Conns
      /\ task[c] \in Busy => peer[c] \in Procs
  BY DEF WorkerTypeOK, BusyServed
<1>1. CASE Accept(c)
  <2>1. peer[c] \in Procs
    BY <1>1 DEF Accept, WorkerTypeOK
  <2>2. WorkerTypeOK'
    <3>1. Tail(queue[peer[c]]) \in Seq(Conns)
      BY <1>1, <2>1 DEF Accept, WorkerTypeOK
    <3>2. QED BY <1>1, <2>1, <3>1 DEF Accept, WorkerTypeOK
  <2>3. FreshConn'
    BY <1>1 DEF Accept, WorkerTypeOK, FreshConn
  <2>4. BusyServed'
    BY <1>1, <2>1 DEF Accept, WorkerTypeOK, BusyServed, Busy
  <2>5. ProxyIsLive'
    BY <1>1, <2>1, SMTT(30) DEF Accept, WorkerTypeOK, ProxyIsLive, Busy
  <2>6. QED BY <2>2, <2>3, <2>4, <2>5
<1>2. CASE RecvStart(c) \/ RecvIgnored(c) \/ RecvMessage(c) \/ RecvStop(c)
  <2>1. \E m \in HeadMsg, next \in Busy : Receive(c, m, next)
    BY <1>2 DEF RecvStart, RecvIgnored, RecvMessage, RecvStop, Busy, HeadMsg
  <2>2. UNCHANGED <<out, reset, drain>> /\ UNCHANGED procVars
    BY <1>2 DEF RecvStart, RecvIgnored, RecvMessage, RecvStop, NoWrite
  <2>3. QED BY <1>0, <2>1, <2>2, ReceiveInv DEF WorkerTypeOK
<1>3. CASE RecvReconnect(c) \/ RecvHealthCheck(c)
  <2>1. PICK m : Receive(c, m, AfterWrite(c))
    BY <1>3 DEF RecvReconnect, RecvHealthCheck
  <2>2. peer[c] \in Procs
    BY <1>0, <2>1 DEF Receive, Busy
  <2>3. out' \in [Conns -> Seq(WorkerMsg)] /\ reset' \in SUBSET Conns
    BY <1>3, <2>2, HealthType, ProxyWriteType DEF RecvReconnect, RecvHealthCheck
  <2>4. drain' \in [Conns -> Conns \cup {NoConn}] /\ AfterWrite(c) \in Busy
    BY <1>3, <2>2, DrainType DEF RecvReconnect, RecvHealthCheck
  <2>5. UNCHANGED procVars
    BY <1>3 DEF RecvReconnect, RecvHealthCheck
  <2>6. QED BY <2>1, <2>3, <2>4, <2>5, ReceiveInv
<1>4. CASE BootDone(c)
  <2>1. task[c] \in Busy /\ peer[c] \in Procs
    BY <1>0, <1>4 DEF BootDone, Busy
  <2>2. out' \in [Conns -> Seq(WorkerMsg)] /\ reset' \in SUBSET Conns
    BY <1>4, <2>1, ProxyWriteType DEF BootDone, WorkerMsg
  <2>3. drain' \in [Conns -> Conns \cup {NoConn}] /\ AfterWrite(c) \in Busy
    BY <1>4, <2>1, DrainType DEF BootDone
  <2>4. WorkerTypeOK'
    <3>1. boots' \in [Procs -> Nat]
      BY <1>4, <2>1 DEF BootDone, WorkerTypeOK
    <3>2. QED BY <1>4, <2>1, <2>2, <2>3, <3>1 DEF BootDone, WorkerTypeOK, Busy
  <2>5. QED BY <1>4, <2>1, <2>3, <2>4, StayBusy DEF BootDone
<1>5. CASE HandlerDone(c)
  <2>1. task[c] \in Busy /\ peer[c] \in Procs
    BY <1>0, <1>5 DEF HandlerDone, Busy
  <2>2. out' \in [Conns -> Seq(WorkerMsg)] /\ reset' \in SUBSET Conns
    BY <1>0, <1>5, <2>1, ProxyWriteType DEF HandlerDone, NoWrite, WorkerMsg
  <2>3. drain' \in [Conns -> Conns \cup {NoConn}]
    BY <1>5, <2>1, DrainType DEF HandlerDone, WorkerTypeOK
  <2>4. PICK next \in Busy : task' = [task EXCEPT ![c] = next]
    BY <1>5 DEF HandlerDone, AfterWrite, Busy
  <2>5. WorkerTypeOK'
    BY <1>5, <2>2, <2>3, <2>4 DEF HandlerDone, WorkerTypeOK, procVars, Busy
  <2>6. QED BY <1>5, <2>1, <2>4, <2>5, StayBusy DEF HandlerDone, procVars
<1>6. CASE RecvStopEmpty(c)
  BY <1>0, <1>6, HandlerEnds DEF RecvStopEmpty, Busy
<1>7. CASE StopDone(c)
  <2>1. task[c] \in Busy /\ peer[c] \in Procs
    BY <1>0, <1>7 DEF StopDone, Busy
  <2>2. out' \in [Conns -> Seq(WorkerMsg)] /\ reset' \in SUBSET Conns
    BY <1>7, <2>1, ProxyWriteType DEF StopDone, WorkerMsg
  <2>3. QED BY <1>7, <2>1, <2>2, HandlerEnds DEF StopDone
<1>8. CASE StopWaits(c)
  <2>1. task[c] \in Busy /\ peer[c] \in Procs /\ "quitting" \in Busy
    BY <1>0, <1>8 DEF StopWaits, Busy
  <2>2. out' \in [Conns -> Seq(WorkerMsg)] /\ reset' \in SUBSET Conns
    BY <1>8, <2>1, ProxyWriteType DEF StopWaits, WorkerMsg
  <2>3. WorkerTypeOK'
    BY <1>8, <2>1, <2>2 DEF StopWaits, WorkerTypeOK
  <2>4. QED BY <1>8, <2>1, <2>3, StayBusy DEF StopWaits
<1>9. CASE Resume(c)
  <2>1. task[c] \in Busy /\ "reading" \in Busy
    BY <1>9 DEF Resume, Busy
  <2>2. WorkerTypeOK'
    BY <1>9 DEF Resume, NoWrite, WorkerTypeOK, procVars
  <2>3. QED BY <1>9, <2>1, <2>2, StayBusy DEF Resume, procVars
<1>10. CASE Quit(c)
  BY <1>0, <1>10, HandlerEnds DEF Quit, NoWrite, Busy
<1>11. CASE TaskFails(c) \/ Eof(c) \/ ReadError(c) \/ DrainLost(c)
  BY <1>0, <1>11, HandlerEnds DEF TaskFails, Eof, ReadError, DrainLost, Busy
<1>12. QED
  BY <1>1, <1>2, <1>3, <1>4, <1>5, <1>6, <1>7, <1>8, <1>9, <1>10, <1>11
  DEF HandlerStep

LEMMA ForwardInv ==
  ASSUME WorkerInv, NEW p \in Procs, Forward(p)
  PROVE  WorkerInv'
<1>1. out' \in [Conns -> Seq(WorkerMsg)] /\ reset' \in SUBSET Conns
  BY ProxyWriteType DEF Forward, WorkerMsg, WorkerInv
<1>2. WorkerTypeOK'
  BY <1>1 DEF Forward, WorkerInv, WorkerTypeOK, procVars
<1>3. QED BY <1>2, ClientMove DEF Forward, procVars

\* Every step of a worker, whatever its clients do, keeps the invariant.
LEMMA WorkerStepInv ==
  ASSUME WorkerInv, WorkerStep
  PROVE  WorkerInv'
BY HandlerInv, ProcessInv, ForwardInv DEF WorkerStep

LEMMA AnyClientInv ==
  ASSUME WorkerInv, AnyClient
  PROVE  WorkerInv'
<1>1. CASE \E p \in Procs : Spawn(p) /\ UNCHANGED connVars
  BY <1>1, SpawnInv
<1>2. ASSUME NEW c \in Conns, Connect(c, "open", <<>>), UNCHANGED procVars
      PROVE  WorkerInv'
  <2>1. <<>> \in Seq(HeadMsg)
    OBVIOUS
  <2>2. QED BY <1>2, <2>1, ConnectInv
<1>3. ASSUME NEW c \in Conns, NEW m \in HeadMsg, ClientSend(c, m), UNCHANGED procVars
      PROVE  WorkerInv'
  BY <1>3, ClientSendInv
<1>4. ASSUME NEW c \in Conns, ClientRead(c), UNCHANGED procVars
      PROVE  WorkerInv'
  BY <1>4, ClientReadInv
<1>5. ASSUME NEW c \in Conns, CloseEffect({c}), UNCHANGED <<procVars, peer, queue, inbox, task, drain>>
      PROVE  WorkerInv'
  <2>1. inbox' \in [Conns -> Seq(HeadMsg)]
    BY <1>5 DEF WorkerInv, WorkerTypeOK
  <2>2. QED BY <1>5, <2>1, CloseInv
<1>6. QED BY <1>1, <1>2, <1>3, <1>4, <1>5 DEF AnyClient

LEMMA WorkerStutter ==
  ASSUME WorkerInv, UNCHANGED workerVars
  PROVE  WorkerInv'
BY DEF workerVars, procVars, connVars, WorkerInv, WorkerTypeOK, BusyServed,
       FreshConn, ProxyIsLive

\* The worker's invariant, against arbitrary clients.
THEOREM WorkerSafety == WorkerSpec => []WorkerInv
<1>1. WorkerInit => WorkerInv
  BY WorkerInitInv
<1>2. WorkerInv /\ [WorkerNext]_workerVars => WorkerInv'
  BY WorkerStepInv, AnyClientInv, WorkerStutter DEF WorkerNext
<1>3. QED BY <1>1, <1>2, PTL DEF WorkerSpec

\* Worker output never goes to a finished connection (ProxyIsLive): the
\* finally clause of handle_connection keeps the proxy and the handlers in
\* step for any number of overlapping connections.
THEOREM ProxyAlwaysLive == WorkerSpec => []ProxyIsLive
<1>1. WorkerInv => ProxyIsLive
  BY DEF WorkerInv
<1>2. QED BY <1>1, WorkerSafety, PTL

-----------------------------------------------------------------------------
(* The head: what it keeps of its workers, and what it is told.            *)

\* A container exists only where bootstrap_container has returned.
Booted == \A p \in Procs : container[p] # "none" => boots[p] > 0

\* A report "running" that a client has not read yet was written by a worker
\* that had bootstrapped, the one at the other end of the connection.
ReportsTrue ==
  \A c \in Conns : \A i \in 1 .. Len(out[c]) :
    out[c][i] = "health-running" => peer[c] \in Procs /\ boots[peer[c]] > 0

Grounded == Booted /\ ReportsTrue

-----------------------------------------------------------------------------
(* The worker's side: reports stay true.                                   *)

\* Unread reports "running" of the next state are old ones, or come from a
\* worker that has bootstrapped.
NewReports ==
  \A c \in Conns : \A i \in 1 .. Len(out'[c]) :
    out'[c][i] = "health-running" =>
      \/ \E j \in 1 .. Len(out[c]) : out[c][j] = "health-running"
      \/ peer[c] \in Procs /\ boots[peer[c]] > 0

LEMMA GroundedStep ==
  ASSUME Grounded, NewReports,
         \A p \in Procs : boots[p] > 0 => boots'[p] > 0,
         \A p \in Procs : container'[p] # "none" => boots'[p] > 0,
         \A c \in Conns : peer[c] \in Procs => peer'[c] = peer[c]
  PROVE  Grounded'
<1>1. Booted'
  BY DEF Booted
<1>2. ReportsTrue'
  BY DEF Grounded, ReportsTrue, NewReports
<1>3. QED BY <1>1, <1>2 DEF Grounded

LEMMA SameReports ==
  ASSUME out' = out
  PROVE  NewReports
BY DEF NewReports

LEMMA ProxyWriteReports ==
  ASSUME WorkerInv, NEW p \in Procs, NEW m \in WorkerMsg, ProxyWrite(p, m),
         m = "health-running" => boots[p] > 0
  PROVE  NewReports
<1>1. CASE Dropped(p) \/ PeerGone(p)
  BY <1>1, SameReports DEF ProxyWrite
<1>2. CASE ~(Dropped(p) \/ PeerGone(p))
  <2> DEFINE d == proxy[p]
  <2>1. d \in Conns /\ peer[d] = p
    BY <1>2 DEF Dropped, WorkerInv, WorkerTypeOK, ProxyIsLive
  <2>2. out' = [out EXCEPT ![d] = Append(@, m)]
    BY <1>2 DEF ProxyWrite
  <2>3. out \in [Conns -> Seq(WorkerMsg)]
    BY DEF WorkerInv, WorkerTypeOK
  <2> HIDE DEF d
  <2>4. \A c \in Conns : c # d => out'[c] = out[c]
    BY <2>2, <2>3
  <2>5. out'[d] = Append(out[d], m) /\ out[d] \in Seq(WorkerMsg)
    BY <2>1, <2>2, <2>3
  <2>6. ASSUME NEW i \in 1 .. Len(out'[d]), out'[d][i] = "health-running"
        PROVE  \/ \E j \in 1 .. Len(out[d]) : out[d][j] = "health-running"
               \/ boots[p] > 0
    <3>1. CASE i = Len(out[d]) + 1
      BY <2>5, <2>6, <3>1
    <3>2. CASE i # Len(out[d]) + 1
      <4>1. i \in 1 .. Len(out[d]) /\ out'[d][i] = out[d][i]
        BY <2>5, <3>2
      <4>2. QED BY <2>6, <4>1
    <3>3. QED BY <3>1, <3>2
  <2>7. QED BY <2>1, <2>4, <2>6 DEF NewReports
<1>3. QED BY <1>1, <1>2

\* A step that neither boots nor loses a container nor moves a connection.
LEMMA QuietStep ==
  ASSUME WorkerInv, Grounded, NewReports, boots' = boots, peer' = peer,
         \A p \in Procs : container'[p] # "none" => container[p] # "none"
  PROVE  Grounded'
<1>1. \A p \in Procs : container'[p] # "none" => boots'[p] > 0
  BY DEF Grounded, Booted
<1>2. QED BY <1>1, GroundedStep

LEMMA HealthReport ==
  ASSUME Grounded, NEW p \in Procs, Health(p) = "health-running"
  PROVE  boots[p] > 0
<1>1. container[p] # "none"
  BY DEF Health
<1>2. QED BY <1>1 DEF Grounded, Booted

LEMMA HandlerGrounded ==
  ASSUME WorkerInv, Grounded, NEW c \in Conns, HandlerStep(c)
  PROVE  Grounded'
<1>0. /\ task[c] \in Busy => peer[c] \in Procs
      /\ container \in [Procs -> {"none", "running", "stopped"}]
      /\ boots \in [Procs -> Nat]
  BY DEF WorkerInv, WorkerTypeOK, BusyServed
<1>1. CASE \/ Accept(c) \/ RecvStart(c) \/ RecvIgnored(c) \/ RecvMessage(c)
           \/ RecvStop(c) \/ RecvStopEmpty(c) \/ TaskFails(c) \/ Eof(c)
           \/ ReadError(c) \/ Resume(c) \/ Quit(c) \/ DrainLost(c)
  <2>1. out' = out /\ boots' = boots /\ peer' = peer /\ container' = container
    BY <1>1 DEF Accept, RecvStart, RecvIgnored, RecvMessage, RecvStop,
                RecvStopEmpty, TaskFails, Eof, ReadError, Resume, Quit, DrainLost,
                Receive, NoWrite, procVars
  <2>2. QED BY <2>1, SameReports, QuietStep
<1>2. CASE RecvReconnect(c) \/ RecvHealthCheck(c)
  <2>1. task[c] = "reading" /\ UNCHANGED procVars /\ peer' = peer
    BY <1>2 DEF RecvReconnect, RecvHealthCheck, Receive
  <2>2. peer[c] \in Procs
    BY <1>0, <2>1 DEF Busy
  <2>3. Health(peer[c]) \in WorkerMsg
    BY <2>2, HealthType DEF WorkerInv
  <2>4. ProxyWrite(peer[c], Health(peer[c])) \/ out' = out
    BY <1>2 DEF RecvReconnect, RecvHealthCheck, NoWrite
  <2>5. NewReports
    BY <2>2, <2>3, <2>4, HealthReport, ProxyWriteReports, SameReports
  <2>6. QED BY <2>1, <2>5, QuietStep DEF procVars
<1>3. CASE BootDone(c)
  <2>1. peer[c] \in Procs
    BY <1>0, <1>3 DEF BootDone, Busy
  <2>2. ProxyWrite(peer[c], "ready") /\ peer' = peer
        /\ container' = [container EXCEPT ![peer[c]] = "running"]
        /\ boots' = [boots EXCEPT ![peer[c]] = @ + 1]
    BY <1>3 DEF BootDone
  <2>3. NewReports
    BY <2>1, <2>2, ProxyWriteReports DEF WorkerMsg
  <2>4. \A p \in Procs : boots[p] > 0 => boots'[p] > 0
    BY <1>0, <2>1, <2>2
  <2>5. \A p \in Procs : container'[p] # "none" => boots'[p] > 0
    BY <1>0, <2>1, <2>2 DEF Grounded, Booted
  <2>6. QED BY <2>2, <2>3, <2>4, <2>5, GroundedStep
<1>4. CASE HandlerDone(c)
  <2>1. peer[c] \in Procs
    BY <1>0, <1>4 DEF HandlerDone, Busy
  <2>2. NewReports
    BY <1>4, <2>1, ProxyWriteReports, SameReports DEF HandlerDone, NoWrite, WorkerMsg
  <2>3. QED BY <1>4, <2>2, QuietStep DEF HandlerDone, procVars
<1>5. CASE StopDone(c) \/ StopWaits(c)
  <2>1. peer[c] \in Procs
    BY <1>0, <1>5 DEF StopDone, StopWaits, Busy
  <2>2. NewReports
    BY <1>5, <2>1, ProxyWriteReports DEF StopDone, StopWaits, WorkerMsg
  <2>3. \A p \in Procs : container'[p] # "none" => container[p] # "none"
    BY <1>0, <1>5, <2>1 DEF StopDone, StopWaits
  <2>4. QED BY <1>5, <2>2, <2>3, QuietStep DEF StopDone, StopWaits
<1>6. QED BY <1>1, <1>2, <1>3, <1>4, <1>5 DEF HandlerStep

\* A connection is opened, by the head or by another worker's probe.
LEMMA ConnectGrounded ==
  ASSUME WorkerInv, Grounded, NEW c \in Conns, NEW end, NEW msgs,
         Connect(c, end, msgs), UNCHANGED <<container, boots>>
  PROVE  Grounded'
<1>1. peer[c] = NoProc /\ out' = out
  BY DEF Connect, WorkerInv, FreshConn
<1>2. \A d \in Conns : peer[d] \in Procs => peer'[d] = peer[d]
  BY <1>1, WorkerAssumption DEF Connect, WorkerInv, WorkerTypeOK
<1>3. \A p \in Procs : container'[p] # "none" => boots'[p] > 0
  BY DEF Grounded, Booted
<1>4. QED BY <1>1, <1>2, <1>3, SameReports, GroundedStep

LEMMA WorkerGrounded ==
  ASSUME WorkerInv, Grounded, WorkerStep
  PROVE  Grounded'
<1>1. ASSUME NEW p \in Procs, SocketInUse(p)
      PROVE  Grounded'
  BY <1>1, ConnectGrounded DEF SocketInUse
<1>2. ASSUME NEW p \in Procs, SocketFree(p) \/ Bind(p) \/ Die(p)
      PROVE  Grounded'
  <2>1. out' = out /\ boots' = boots /\ peer' = peer /\ container' = container
    BY <1>2 DEF SocketFree, Bind, Die, connVars
  <2>2. QED BY <2>1, SameReports, QuietStep
<1>3. ASSUME NEW p \in Procs, Exit(p)
      PROVE  Grounded'
  <2>1. \A q \in Procs : container'[q] # "none" => container[q] # "none"
    BY <1>3 DEF Exit, WorkerInv, WorkerTypeOK
  <2>2. QED BY <1>3, <2>1, SameReports, QuietStep DEF Exit
<1>4. ASSUME NEW p \in Procs, Forward(p)
      PROVE  Grounded'
  <2>1. NewReports
    BY <1>4, ProxyWriteReports DEF Forward, WorkerMsg
  <2>2. QED BY <1>4, <2>1, QuietStep DEF Forward, procVars
<1>5. QED BY <1>1, <1>2, <1>3, <1>4, HandlerGrounded DEF WorkerStep, ProcessStep

-----------------------------------------------------------------------------
(* The head's side.                                                        *)

RootTypeOK ==
  /\ daemon \in {"up", "down", "stale"}
  /\ registered \in BOOLEAN
  /\ sock \in Conns \cup {NoConn}
  /\ mine \in SUBSET Conns
  /\ health \in HealthMsg \cup {"none"}
  /\ routing \in BOOLEAN
  /\ pending \in [Procs -> {"none", "hire", "dispatch", "detached"}]
  /\ leaving \in SUBSET Conns
  /\ overtaken \in BOOLEAN

\* Nothing outlives the daemon: a spawn() that ended after a crash would
\* register a handle that the routing file knows nothing of.
DownIsEmpty == daemon # "up" => ~registered /\ Quiet /\ leaving = {}

\* A handle that is registered while an older one of the id is leaving was
\* registered after that one had left the registry.
OvertakenMarked == registered /\ leaving # {} => overtaken

\* A handle's connections have been opened, so their peers are fixed.
MineOpened == \A c \in mine : clientEnd[c] # "unused"

OpenedPeer == \A c \in Conns : clientEnd[c] # "unused" => peer[c] \in Procs

\* HealthIsGrounded without its guard.
Believed == health = "health-running" => \E c \in mine : boots[peer[c]] > 0

RootInv ==
  /\ WorkerInv
  /\ Grounded
  /\ OpenedPeer
  /\ RootTypeOK
  /\ DownIsEmpty
  /\ OvertakenMarked
  /\ RegistryPersisted
  /\ MineOpened
  /\ Believed

LEMMA RootInitInv == Init => RootInv
<1> SUFFICES ASSUME Init PROVE RootInv
  OBVIOUS
<1>1. WorkerInv
  BY WorkerInitInv DEF Init
<1>2. Grounded /\ OpenedPeer
  BY DEF Init, WorkerInit, Grounded, Booted, ReportsTrue, OpenedPeer
<1>3. RootTypeOK /\ DownIsEmpty /\ OvertakenMarked /\ RegistryPersisted
  BY DEF Init, RootTypeOK, DownIsEmpty, OvertakenMarked, RegistryPersisted, Quiet
<1>4. MineOpened /\ Believed
  BY DEF Init, MineOpened, Believed
<1>5. QED BY <1>1, <1>2, <1>3, <1>4 DEF RootInv

\* What every step does to connections and containers: an opened connection
\* stays opened and keeps its peer, and nothing un-boots.
Stable ==
  /\ \A c \in Conns : clientEnd'[c] = "unused" => clientEnd[c] = "unused"
  /\ \A c \in Conns : clientEnd[c] # "unused" => peer'[c] = peer[c]
  /\ \A c \in Conns : clientEnd'[c] # "unused" => peer'[c] \in Procs
  /\ \A p \in Procs : boots[p] > 0 => boots'[p] > 0

LEMMA SameConns ==
  ASSUME OpenedPeer, UNCHANGED <<peer, clientEnd, boots>>
  PROVE  Stable
BY DEF OpenedPeer, Stable

LEMMA ConnectStable ==
  ASSUME WorkerInv, OpenedPeer, NEW c \in Conns, NEW end \in {"open", "closed"},
         NEW msgs, Connect(c, end, msgs), boots' = boots
  PROVE  Stable /\ clientEnd'[c] # "unused"
<1>1. sockPath \in Procs
  BY DEF Connect, Listening, WorkerInv, WorkerTypeOK
<1>2. QED BY <1>1 DEF Connect, OpenedPeer, Stable, WorkerInv, WorkerTypeOK

LEMMA CloseStable ==
  ASSUME OpenedPeer, NEW C \in SUBSET OpenEnds, CloseEffect(C), UNCHANGED <<peer, boots>>
  PROVE  Stable
BY DEF CloseEffect, OpenEnds, OpenedPeer, Stable

LEMMA WorkerStable ==
  ASSUME WorkerInv, OpenedPeer, WorkerStep
  PROVE  Stable
<1>1. ASSUME NEW p \in Procs, SocketInUse(p)
      PROVE  Stable
  BY <1>1, ConnectStable DEF SocketInUse
<1>2. ASSUME NEW p \in Procs, SocketFree(p) \/ Bind(p) \/ Die(p) \/ Exit(p) \/ Forward(p)
      PROVE  Stable
  BY <1>2, SameConns DEF SocketFree, Bind, Die, Exit, Forward, connVars, procVars
<1>3. ASSUME NEW c \in Conns, BootDone(c)
      PROVE  Stable
  <2>1. UNCHANGED <<peer, clientEnd>> /\ boots' = [boots EXCEPT ![peer[c]] = @ + 1]
    BY <1>3 DEF BootDone
  <2>2. \A p \in Procs : boots[p] > 0 => boots'[p] > 0
    BY <2>1 DEF WorkerInv, WorkerTypeOK
  <2>3. QED BY <2>1, <2>2 DEF Stable, OpenedPeer
<1>4. ASSUME NEW c \in Conns, HandlerStep(c), ~BootDone(c)
      PROVE  Stable
  <2>1. UNCHANGED <<peer, clientEnd, boots>>
    BY <1>4 DEF HandlerStep, Accept, RecvStart, RecvIgnored, RecvMessage, RecvStop,
                RecvStopEmpty, RecvReconnect, RecvHealthCheck, HandlerDone, StopDone,
                StopWaits, Resume, Quit, DrainLost, TaskFails, Eof, ReadError,
                Receive, procVars
  <2>2. QED BY <2>1, SameConns
<1>5. QED BY <1>1, <1>2, <1>3, <1>4 DEF WorkerStep, ProcessStep

-----------------------------------------------------------------------------
(* Consecution, by what a step does to the registry and to the handle.     *)

LEMMA SameRegistry ==
  ASSUME RootInv, UNCHANGED <<daemon, registered, overtaken, routing, pending, leaving>>
  PROVE  DownIsEmpty' /\ OvertakenMarked' /\ RegistryPersisted'
BY DEF RootInv, DownIsEmpty, OvertakenMarked, RegistryPersisted, Quiet

\* The handle may gain connections; what it believes stays.
LEMMA SameHandle ==
  ASSUME RootInv, Stable, health' = health, mine \subseteq mine',
         \A c \in mine' : c \in mine \/ clientEnd'[c] # "unused"
  PROVE  OpenedPeer' /\ MineOpened' /\ Believed'
<1>1. OpenedPeer'
  BY DEF Stable, OpenedPeer
<1>2. MineOpened'
  BY DEF RootInv, RootTypeOK, MineOpened, Stable
<1>3. \A c \in mine : peer'[c] = peer[c] /\ peer[c] \in Procs
  BY DEF RootInv, RootTypeOK, MineOpened, OpenedPeer, Stable
<1>4. Believed'
  BY <1>3 DEF RootInv, Believed, Stable
<1>5. QED BY <1>1, <1>2, <1>4

\* A fresh handle, or none: it believes nothing yet.
LEMMA FreshHandle ==
  ASSUME RootInv, Stable, health' = "none",
         \A c \in mine' : clientEnd'[c] # "unused"
  PROVE  OpenedPeer' /\ MineOpened' /\ Believed'
BY DEF Stable, OpenedPeer, MineOpened, Believed

\* What a closing step leaves the worker with.
LEMMA CloseEffects ==
  ASSUME RootInv, NEW C \in SUBSET OpenEnds, CloseEffect(C),
         inbox' \in [Conns -> Seq(HeadMsg)], UNCHANGED <<procVars, peer, queue, task, drain>>
  PROVE  WorkerInv' /\ Grounded' /\ Stable
<1>1. C \in SUBSET Conns
  BY DEF OpenEnds
<1>2. WorkerInv'
  BY <1>1, CloseInv DEF RootInv
<1>3. \A c \in Conns : out'[c] = <<>> \/ out'[c] = out[c]
  BY DEF CloseEffect
<1>4. NewReports
  BY <1>3 DEF NewReports
<1>5. Grounded'
  BY <1>4, QuietStep DEF RootInv, procVars
<1>6. Stable
  BY CloseStable DEF RootInv, procVars
<1>7. QED BY <1>2, <1>5, <1>6

LEMMA SendStopType ==
  ASSUME RootInv, SendStop
  PROVE  inbox' \in [Conns -> Seq(HeadMsg)]
<1>1. inbox \in [Conns -> Seq(HeadMsg)]
  BY DEF RootInv, WorkerInv, WorkerTypeOK
<1>2. CASE IsAlive /\ ServerEndOpen(sock)
  <2>1. sock \in Conns
    BY <1>2 DEF IsAlive, RootInv, RootTypeOK
  <2>2. Append(inbox[sock], "stop") \in Seq(HeadMsg)
    BY <1>1, <2>1 DEF HeadMsg
  <2>3. QED BY <1>1, <1>2, <2>1, <2>2 DEF SendStop
<1>3. CASE ~(IsAlive /\ ServerEndOpen(sock))
  BY <1>1, <1>3 DEF SendStop
<1>4. QED BY <1>2, <1>3

LEMMA StopEffects ==
  ASSUME RootInv, NEW also \in SUBSET OpenEnds, StopProcess(also)
  PROVE  WorkerInv' /\ Grounded' /\ Stable
<1> DEFINE C == also \cup IF IsAlive THEN {sock} ELSE {}
<1>1. IsAlive => sock \in OpenEnds
  BY DEF IsAlive, OpenEnds, RootInv, RootTypeOK
<1>2. C \in SUBSET OpenEnds
  BY <1>1
<1>3. inbox' \in [Conns -> Seq(HeadMsg)]
  BY SendStopType DEF StopProcess
<1>4. CloseEffect(C) /\ UNCHANGED <<procVars, peer, queue, task, drain>>
  BY DEF StopProcess
<1> HIDE DEF C
<1>5. QED BY <1>2, <1>3, <1>4, CloseEffects

\* The head connects and sends its first frame.
LEMMA ConnectEffects ==
  ASSUME RootInv, NEW c \in Conns, NEW m \in HeadMsg, Connect(c, "open", <<m>>),
         UNCHANGED procVars
  PROVE  WorkerInv' /\ Grounded' /\ Stable /\ clientEnd'[c] # "unused"
<1>1. <<m>> \in Seq(HeadMsg)
  OBVIOUS
<1>2. WorkerInv'
  BY <1>1, ConnectInv DEF RootInv
<1>3. Grounded'
  BY ConnectGrounded DEF RootInv, procVars
<1>4. Stable /\ clientEnd'[c] # "unused"
  BY ConnectStable DEF RootInv, procVars
<1>5. QED BY <1>2, <1>3, <1>4

\* A pending spawn() means that the daemon runs.
LEMMA PendingUp ==
  ASSUME RootInv, NEW p \in Procs, pending[p] # "none"
  PROVE  daemon = "up"
BY DEF RootInv, RootTypeOK, DownIsEmpty, Quiet

LEMMA SpawnBegins ==
  ASSUME RootInv, NEW p \in Procs, Hire(p) \/ Dispatch(p)
  PROVE  RootInv'
<1>1. Spawn(p) /\ UNCHANGED connVars /\ daemon = "up"
      /\ UNCHANGED <<daemon, registered, sock, mine, health, overtaken, routing, leaving>>
  BY DEF Hire, Dispatch, handleVars
<1>2. WorkerInv'
  BY <1>1, SpawnInv DEF RootInv
<1>3. Grounded'
  BY <1>1, SameReports, QuietStep DEF RootInv, Spawn, connVars
<1>4. Stable
  BY <1>1, SameConns DEF RootInv, Spawn, connVars
<1>5. OpenedPeer' /\ MineOpened' /\ Believed'
  BY <1>1, <1>4, SameHandle
<1>6. RootTypeOK'
  BY <1>1 DEF RootInv, RootTypeOK, Hire, Dispatch
<1>7. DownIsEmpty' /\ OvertakenMarked' /\ RegistryPersisted'
  BY <1>1 DEF RootInv, DownIsEmpty, OvertakenMarked, RegistryPersisted
<1>8. QED BY <1>2, <1>3, <1>5, <1>6, <1>7 DEF RootInv

LEMMA SpawnEndsInv ==
  ASSUME RootInv, NEW p \in Procs, SpawnEnds(p)
  PROVE  RootInv'
<1>0. daemon = "up" /\ daemon' = daemon
  BY PendingUp DEF SpawnEnds, HireDone, DispatchDone, DetachedDone, SpawnTimeout, SaveRouting, Routed
<1>1. pending' \in [Procs -> {"none", "hire", "dispatch", "detached"}]
  BY DEF SaveRouting, Routed, RootInv, RootTypeOK, SpawnEnds, HireDone, DispatchDone, DetachedDone,
         SpawnTimeout, Detach
<1>2. CASE HireDone(p)
  <2>1. PICK c \in Conns : Connect(c, "open", <<"start">>) /\ NewHandle(c)
    BY <1>2 DEF HireDone, SaveRouting, Routed
  <2>2. routing' = TRUE /\ UNCHANGED procVars /\ leaving' = leaving
    BY <1>2 DEF HireDone, SaveRouting, Routed
  <2>3. WorkerInv' /\ Grounded' /\ Stable /\ clientEnd'[c] # "unused"
    BY <2>1, <2>2, ConnectEffects DEF HeadMsg
  <2>4. OpenedPeer' /\ MineOpened' /\ Believed'
    BY <2>1, <2>3, FreshHandle DEF NewHandle
  <2>5. RootTypeOK'
    BY <1>0, <1>1, <2>1, <2>2 DEF NewHandle, RootInv, RootTypeOK
  <2>6. DownIsEmpty' /\ OvertakenMarked' /\ RegistryPersisted'
    BY <1>0, <2>1, <2>2 DEF NewHandle, DownIsEmpty, OvertakenMarked, RegistryPersisted
  <2>7. QED BY <2>3, <2>4, <2>5, <2>6 DEF RootInv
<1>3. CASE DispatchDone(p) \/ DetachedDone(p)
  <2>1. PICK c \in Conns : /\ Connect(c, "open", <<"start">>)
                           /\ sock' \in {sock, c} /\ mine' \in {mine, mine \cup {c}}
    BY <1>3 DEF DispatchDone, DetachedDone, handleVars
  <2>2. UNCHANGED <<procVars, registered, health, overtaken, routing, leaving>>
    BY <1>3 DEF DispatchDone, DetachedDone, handleVars
  <2>3. WorkerInv' /\ Grounded' /\ Stable /\ clientEnd'[c] # "unused"
    BY <2>1, <2>2, ConnectEffects DEF HeadMsg
  <2>4. OpenedPeer' /\ MineOpened' /\ Believed'
    BY <2>1, <2>2, <2>3, SameHandle
  <2>5. RootTypeOK'
    BY <1>0, <1>1, <2>1, <2>2 DEF RootInv, RootTypeOK
  <2>6. DownIsEmpty' /\ OvertakenMarked' /\ RegistryPersisted'
    BY <1>0, <2>2 DEF RootInv, DownIsEmpty, OvertakenMarked, RegistryPersisted
  <2>7. QED BY <2>3, <2>4, <2>5, <2>6 DEF RootInv
<1>4. CASE SpawnTimeout(p)
  <2>1. UNCHANGED <<workerVars, daemon, registered, sock, mine, health, overtaken, routing, leaving>>
    BY <1>4 DEF SpawnTimeout, handleVars
  <2>2. WorkerInv'
    BY <2>1, WorkerStutter DEF RootInv
  <2>3. Grounded' /\ Stable
    BY <2>1, SameReports, QuietStep, SameConns DEF RootInv, workerVars, procVars, connVars
  <2>4. OpenedPeer' /\ MineOpened' /\ Believed'
    BY <2>1, <2>3, SameHandle
  <2>5. RootTypeOK' /\ DownIsEmpty' /\ OvertakenMarked' /\ RegistryPersisted'
    BY <1>0, <1>1, <2>1 DEF RootInv, RootTypeOK, DownIsEmpty, OvertakenMarked, RegistryPersisted
  <2>6. QED BY <2>2, <2>3, <2>4, <2>5 DEF RootInv
<1>5. QED BY <1>2, <1>3, <1>4 DEF SpawnEnds

LEMMA OperatorInv ==
  ASSUME RootInv, Dismiss \/ Kill \/ SendTraffic \/ \E c \in Conns : ReadFrame(c) \/ DismissEnd(c)
  PROVE  RootInv'
<1>1. CASE Dismiss
  <2>1. WorkerInv' /\ Grounded' /\ Stable
    <3>1. inbox' \in [Conns -> Seq(HeadMsg)] /\ UNCHANGED <<procVars, peer, queue, task, drain>>
      BY <1>1, SendStopType DEF Dismiss
    <3>2. CloseEffect({})
      BY <1>1 DEF Dismiss, CloseEffect, RootInv, WorkerInv, WorkerTypeOK
    <3>3. QED BY <3>1, <3>2, CloseEffects
  <2>2. DropHandle /\ daemon = "up" /\ daemon' = daemon /\ pending' = Detach(pending)
    BY <1>1 DEF Dismiss
  <2>3. \/ leaving' = leaving \cup {sock} /\ routing' = routing /\ sock \in Conns
        \/ routing' = FALSE /\ leaving' = leaving
    BY <1>1 DEF Dismiss, RemoveRouting, Routed, IsAlive, RootInv, RootTypeOK
  <2>4. OpenedPeer' /\ MineOpened' /\ Believed'
    BY <2>1, <2>2, FreshHandle DEF DropHandle
  <2>5. RootTypeOK' /\ DownIsEmpty' /\ OvertakenMarked' /\ RegistryPersisted'
    BY <2>2, <2>3 DEF DropHandle, Detach, RootInv, RootTypeOK, DownIsEmpty,
                      OvertakenMarked, RegistryPersisted
  <2>6. QED BY <2>1, <2>4, <2>5 DEF RootInv
<1>2. CASE Kill
  <2>1. WorkerInv' /\ Grounded' /\ Stable
    BY <1>2, StopEffects DEF Kill
  <2>2. sock' = NoConn
        /\ UNCHANGED <<daemon, registered, mine, health, overtaken, routing, pending, leaving>>
    BY <1>2 DEF Kill
  <2>3. OpenedPeer' /\ MineOpened' /\ Believed'
    BY <2>1, <2>2, SameHandle
  <2>4. RootTypeOK' /\ DownIsEmpty' /\ OvertakenMarked' /\ RegistryPersisted'
    BY <2>2, SameRegistry DEF RootInv, RootTypeOK
  <2>5. QED BY <2>1, <2>3, <2>4 DEF RootInv
<1>3. CASE SendTraffic
  <2>1. PICK m \in Traffic : ClientSend(sock, m)
    BY <1>3 DEF SendTraffic
  <2>2. UNCHANGED procVars /\ UNCHANGED rootVars /\ sock \in Conns
    BY <1>3 DEF SendTraffic, IsAlive, RootInv, RootTypeOK
  <2>3. m \in HeadMsg
    BY RootAssumption DEF HeadMsg, HeadFrames
  <2>4. WorkerInv'
    BY <2>1, <2>2, <2>3, ClientSendInv DEF RootInv
  <2>5. Grounded'
    BY <2>1, <2>2, SameReports, QuietStep DEF ClientSend, RootInv, procVars
  <2>6. Stable
    BY <2>1, <2>2 DEF ClientSend, RootInv, OpenedPeer, Stable, procVars,
                      WorkerInv, WorkerTypeOK
  <2>7. OpenedPeer' /\ MineOpened' /\ Believed'
    BY <2>2, <2>6, SameHandle DEF rootVars, handleVars
  <2>8. RootTypeOK' /\ DownIsEmpty' /\ OvertakenMarked' /\ RegistryPersisted'
    BY <2>2, SameRegistry DEF RootInv, RootTypeOK, rootVars, handleVars
  <2>9. QED BY <2>4, <2>5, <2>7, <2>8 DEF RootInv
<1>4. ASSUME NEW c \in Conns, ReadFrame(c)
      PROVE  RootInv'
  <2>1. ClientRead(c) /\ UNCHANGED procVars
        /\ UNCHANGED <<daemon, registered, sock, mine, overtaken, routing, pending, leaving>>
    BY <1>4 DEF ReadFrame
  <2>2. WorkerInv'
    BY <2>1, ClientReadInv DEF RootInv
  <2>3. out[c] \in Seq(WorkerMsg) /\ out[c] # <<>> /\ out' = [out EXCEPT ![c] = Tail(@)]
        /\ UNCHANGED <<peer, clientEnd>>
    BY <2>1 DEF ClientRead, RootInv, WorkerInv, WorkerTypeOK
  <2>4. NewReports
    <3>1. out \in [Conns -> Seq(WorkerMsg)]
      BY DEF RootInv, WorkerInv, WorkerTypeOK
    <3>2. \A d \in Conns : d # c => out'[d] = out[d]
      BY <2>3, <3>1
    <3>3. out'[c] = Tail(out[c])
      BY <2>3, <3>1
    <3>4. \A i \in 1 .. Len(Tail(out[c])) :
            i + 1 \in 1 .. Len(out[c]) /\ Tail(out[c])[i] = out[c][i + 1]
      BY <2>3
    <3>5. SUFFICES ASSUME NEW d \in Conns, NEW i \in 1 .. Len(out'[d]),
                          out'[d][i] = "health-running"
                   PROVE  \E j \in 1 .. Len(out[d]) : out[d][j] = "health-running"
      BY DEF NewReports
    <3>6. CASE d # c
      BY <3>2, <3>5, <3>6
    <3>7. CASE d = c
      BY <3>3, <3>4, <3>5, <3>7
    <3>8. QED BY <3>6, <3>7
  <2>5. Grounded'
    BY <2>1, <2>3, <2>4, QuietStep DEF RootInv, procVars
  <2>6. Stable
    BY <2>1, <2>3, SameConns DEF RootInv, procVars
  <2>7. health' \in HealthMsg \cup {"none"}
    BY <1>4 DEF ReadFrame, RootInv, RootTypeOK
  <2>8. OpenedPeer' /\ MineOpened'
    BY <2>1, <2>6 DEF RootInv, RootTypeOK, OpenedPeer, MineOpened, Stable
  <2>9. Believed'
    <3>1. CASE health' = health
      BY <2>1, <2>6, <3>1, SameHandle
    <3>2. CASE health' # health /\ health' = "health-running"
      <4>1. c \in mine /\ Head(out[c]) = "health-running"
        BY <1>4, <3>2 DEF ReadFrame
      <4>2. 1 \in 1 .. Len(out[c]) /\ out[c][1] = "health-running"
        BY <2>3, <4>1
      <4>3. boots[peer[c]] > 0
        BY <4>2 DEF RootInv, Grounded, ReportsTrue
      <4>4. QED BY <2>1, <2>3, <4>1, <4>3 DEF Believed, procVars
    <3>3. QED BY <3>1, <3>2 DEF Believed
  <2>10. RootTypeOK' /\ DownIsEmpty' /\ OvertakenMarked' /\ RegistryPersisted'
    BY <2>1, <2>7, SameRegistry DEF RootInv, RootTypeOK
  <2>11. QED BY <2>2, <2>5, <2>8, <2>9, <2>10 DEF RootInv
<1>5. ASSUME NEW c \in Conns, DismissEnd(c)
      PROVE  RootInv'
  <2>1. c \in leaving /\ leaving' = leaving \ {c} /\ routing' = FALSE
        /\ UNCHANGED <<daemon, registered, sock, mine, health, overtaken, pending>>
    BY <1>5 DEF DismissEnd, RemoveRouting, Routed, handleVars
  <2>2. WorkerInv' /\ Grounded' /\ Stable
    <3>1. inbox' \in [Conns -> Seq(HeadMsg)]
      BY <1>5 DEF DismissEnd, RootInv, WorkerInv, WorkerTypeOK
    <3>2. {c} \cap OpenEnds \in SUBSET OpenEnds
      OBVIOUS
    <3>3. QED BY <1>5, <3>1, <3>2, CloseEffects DEF DismissEnd
  <2>3. OpenedPeer' /\ MineOpened' /\ Believed'
    BY <2>1, <2>2, SameHandle
  <2>4. RootTypeOK' /\ DownIsEmpty' /\ OvertakenMarked' /\ RegistryPersisted'
    BY <2>1 DEF RootInv, RootTypeOK, DownIsEmpty, OvertakenMarked, RegistryPersisted, Quiet
  <2>5. QED BY <2>2, <2>3, <2>4 DEF RootInv
<1>6. QED BY <1>1, <1>2, <1>3, <1>4, <1>5

LEMMA DaemonInv ==
  ASSUME RootInv, \/ Crash \/ Shutdown \/ Reconnect \/ ReconnectFails
                  \/ DropStale \/ StartWithout
  PROVE  RootInv'
<1>1. CASE Crash \/ Shutdown
  <2>1. WorkerInv' /\ Grounded' /\ Stable
    <3>1. CASE Crash
      <4>1. inbox' \in [Conns -> Seq(HeadMsg)]
        BY <3>1 DEF Crash, RootInv, WorkerInv, WorkerTypeOK
      <4>2. QED BY <3>1, <4>1, CloseEffects DEF Crash
    <3>2. CASE Shutdown
      BY <3>2, StopEffects DEF Shutdown
    <3>3. QED BY <1>1, <3>1, <3>2
  <2>2. DaemonGone
    BY <1>1 DEF Crash, Shutdown
  <2>3. OpenedPeer' /\ MineOpened' /\ Believed'
    BY <2>1, <2>2, FreshHandle DEF DaemonGone, DropHandle
  <2>4. RootTypeOK' /\ DownIsEmpty' /\ OvertakenMarked' /\ RegistryPersisted'
    BY <2>2 DEF DaemonGone, DropHandle, RootInv, RootTypeOK, DownIsEmpty, OvertakenMarked, RegistryPersisted, Quiet
  <2>5. QED BY <2>1, <2>3, <2>4 DEF RootInv
<1>2. CASE Reconnect
  <2>1. PICK c \in Conns : Connect(c, "open", <<"reconnect">>) /\ NewHandle(c)
    BY <1>2 DEF Reconnect
  <2>2. routing /\ daemon = "down" /\ daemon' = "up"
        /\ UNCHANGED <<procVars, routing, pending, leaving>>
    BY <1>2 DEF Reconnect
  <2>3. WorkerInv' /\ Grounded' /\ Stable /\ clientEnd'[c] # "unused"
    BY <2>1, <2>2, ConnectEffects DEF HeadMsg
  <2>4. OpenedPeer' /\ MineOpened' /\ Believed'
    BY <2>1, <2>3, FreshHandle DEF NewHandle
  <2>5. RootTypeOK' /\ DownIsEmpty' /\ OvertakenMarked' /\ RegistryPersisted'
    BY <2>1, <2>2 DEF NewHandle, RootInv, RootTypeOK, DownIsEmpty, OvertakenMarked, RegistryPersisted
  <2>6. QED BY <2>3, <2>4, <2>5 DEF RootInv
<1>3. CASE ReconnectFails
  <2>1. daemon = "down" /\ daemon' = "stale" /\ UNCHANGED procVars
        /\ UNCHANGED <<registered, sock, mine, health, overtaken, routing, pending, leaving>>
    BY <1>3 DEF ReconnectFails, handleVars
  <2>2. WorkerInv' /\ Grounded' /\ Stable
    <3>1. CASE UNCHANGED connVars
      <4>1. UNCHANGED workerVars
        BY <2>1, <3>1 DEF workerVars
      <4>2. WorkerInv'
        BY <4>1, WorkerStutter DEF RootInv
      <4>3. QED BY <4>1, <4>2, SameReports, QuietStep, SameConns
                DEF RootInv, workerVars, procVars, connVars
    <3>2. ASSUME NEW c \in Conns, Connect(c, "closed", <<"reconnect">>)
          PROVE  WorkerInv' /\ Grounded' /\ Stable
      <4>1. <<"reconnect">> \in Seq(HeadMsg)
        BY DEF HeadMsg
      <4>2. WorkerInv'
        BY <2>1, <3>2, <4>1, ConnectInv DEF RootInv
      <4>3. Grounded'
        BY <2>1, <3>2, ConnectGrounded DEF RootInv, procVars
      <4>4. Stable
        BY <2>1, <3>2, ConnectStable DEF RootInv, procVars
      <4>5. QED BY <4>2, <4>3, <4>4
    <3>3. QED BY <1>3, <3>1, <3>2 DEF ReconnectFails
  <2>3. OpenedPeer' /\ MineOpened' /\ Believed'
    BY <2>1, <2>2, SameHandle
  <2>4. RootTypeOK' /\ DownIsEmpty' /\ OvertakenMarked' /\ RegistryPersisted'
    BY <2>1 DEF RootInv, RootTypeOK, DownIsEmpty, OvertakenMarked, RegistryPersisted, Quiet
  <2>5. QED BY <2>2, <2>3, <2>4 DEF RootInv
<1>4. CASE DropStale \/ StartWithout
  <2>1. daemon # "up" /\ daemon' = "up" /\ routing' = FALSE
        /\ UNCHANGED <<workerVars, registered, sock, mine, health, overtaken, pending, leaving>>
    BY <1>4 DEF DropStale, StartWithout, RemoveRouting, Routed, handleVars, RootInv, RootTypeOK
  <2>2. WorkerInv'
    BY <2>1, WorkerStutter DEF RootInv
  <2>3. Grounded' /\ Stable
    BY <2>1, SameReports, QuietStep, SameConns DEF RootInv, workerVars, procVars, connVars
  <2>4. OpenedPeer' /\ MineOpened' /\ Believed'
    BY <2>1, <2>3, SameHandle
  <2>5. RootTypeOK' /\ DownIsEmpty' /\ OvertakenMarked' /\ RegistryPersisted'
    BY <2>1 DEF RootInv, RootTypeOK, DownIsEmpty, OvertakenMarked, RegistryPersisted
  <2>6. QED BY <2>2, <2>3, <2>4, <2>5 DEF RootInv
<1>5. QED BY <1>1, <1>2, <1>3, <1>4

LEMMA WorkersInv ==
  ASSUME RootInv, WorkerStep, UNCHANGED rootVars
  PROVE  RootInv'
<1>1. WorkerInv' /\ Grounded' /\ Stable
  BY WorkerStepInv, WorkerGrounded, WorkerStable DEF RootInv
<1>2. OpenedPeer' /\ MineOpened' /\ Believed'
  BY <1>1, SameHandle DEF rootVars, handleVars
<1>3. RootTypeOK' /\ DownIsEmpty' /\ OvertakenMarked' /\ RegistryPersisted'
  BY SameRegistry DEF RootInv, RootTypeOK, rootVars, handleVars
<1>4. QED BY <1>1, <1>2, <1>3 DEF RootInv

LEMMA RootStutter ==
  ASSUME RootInv, UNCHANGED vars
  PROVE  RootInv'
<1>1. UNCHANGED <<workerVars, rootVars>>
  BY DEF vars
<1>2. WorkerInv'
  BY <1>1, WorkerStutter DEF RootInv
<1>3. Grounded' /\ Stable
  BY <1>1, SameReports, QuietStep, SameConns DEF RootInv, workerVars, procVars, connVars
<1>4. OpenedPeer' /\ MineOpened' /\ Believed'
  BY <1>1, <1>3, SameHandle DEF rootVars, handleVars
<1>5. RootTypeOK' /\ DownIsEmpty' /\ OvertakenMarked' /\ RegistryPersisted'
  BY <1>1, SameRegistry DEF RootInv, RootTypeOK, rootVars, handleVars
<1>6. QED BY <1>2, <1>3, <1>4, <1>5 DEF RootInv

-----------------------------------------------------------------------------
\* The invariant of the composed system: head, routing file and workers.
THEOREM RootSafety == Spec => []RootInv
<1>1. RootInv /\ [Next]_vars => RootInv'
  BY SpawnBegins, SpawnEndsInv, OperatorInv, DaemonInv, WorkersInv, RootStutter
  DEF Next, RootStep
<1>2. QED BY <1>1, RootInitInv, PTL DEF Spec

\* Type correctness of the composed system (TypeOK).
THEOREM RootTypes == Spec => []TypeOK
<1>1. RootInv => TypeOK
  BY DEF RootInv, RootTypeOK, WorkerInv, TypeOK
<1>2. QED BY <1>1, RootSafety, PTL

\* The registry and routing.json agree while the daemon runs but for the
\* window inside dismiss() (RegistryPersisted), through hires and dispatches
\* that end late, overlapping dismissals, crashes and restarts.  The part
\* that carries the induction is OvertakenMarked: the only handle whose entry
\* a late dismissal removes is one that was hired during it.
THEOREM RegistryAlwaysPersisted == Spec => []RegistryPersisted
<1>1. RootInv => RegistryPersisted
  BY DEF RootInv
<1>2. QED BY <1>1, RootSafety, PTL

\* A head that believes its agent runs has been connected to a worker that
\* bootstrapped (HealthIsGrounded).
THEOREM HealthAlwaysGrounded == Spec => []HealthIsGrounded
<1>1. RootInv => HealthIsGrounded
  BY DEF RootInv, Believed, HealthIsGrounded
<1>2. QED BY <1>1, RootSafety, PTL
=============================================================================
