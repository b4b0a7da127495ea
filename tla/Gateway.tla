------------------------------ MODULE Gateway ------------------------------
(***************************************************************************)
(* How agents are hired and reached: RuntimeAPI (daemon/runtime_api.py),   *)
(* the message router (bot/cogs/mention_router.py), the channels           *)
(* (bot/comm_adapter.py), the slash commands (bot/cogs/commands.py) and    *)
(* the tables of CompanyRoot they work on.                                 *)
(*                                                                         *)
(* A handle stands for an AgentHandle and its connection.  The connection  *)
(* itself is the subject of module CompanyRoot; here a handle is open or   *)
(* not.  talk[n] is the handle that the worker of agent n answers on: the  *)
(* last one that was connected to it.                                      *)
(*                                                                         *)
(* Nothing keeps two calls about the same agent apart, so they overlap     *)
(* here in every way.  Left out: _channel_ids, which no action here reads. *)
(***************************************************************************)
EXTENDS SequencesExt

CONSTANTS
  Agents,      \* task agents
  Strategist,  \* the agent hired by the daemon itself
  Channels,    \* channels that can be made for task agents
  Home,        \* the channel of the Strategist
  MaxHandles,  \* handles in use at a time
  Tasks,       \* concurrent calls of the RuntimeAPI
  None

Names == Agents \cup {Strategist}
Handles == 1 .. MaxHandles

ASSUME GatewayAssumption ==
  /\ Strategist \notin Agents /\ Home \notin Channels
  /\ None \notin Names \cup Handles \cup Channels \cup {Home}
  /\ "absent" \notin Channels \cup {Home, None}
  /\ IsFiniteSet(Agents)
  /\ MaxHandles \in Nat /\ MaxHandles >= Cardinality(Names)

VARIABLES
  chan,      \* Discord: the channels named task-<a>, oldest first
  sys,       \* RuntimeAPI._channel_ids: strategist -> channel
  registry,  \* CompanyRoot._company_agents
  saved,     \* agents in routing.json, with their channel
  talk,      \* the handle each worker answers on
  home,      \* AgentHandle.channel_id
  open,      \* handles whose connection is open
  handleOf,  \* MentionRouterCog._agent_handles
  chanOf,    \* MentionRouterCog._handle_channels
  ownerOf,   \* MentionRouterCog._channel_handles
  op,        \* calls in progress
  raised,    \* handles whose hire raised after the worker had started
  overtaken, \* handles whose hire was not over when a later one had its worker
  msg        \* a message is being routed

tables == <<registry, saved, talk, home, open>>
router == <<handleOf, chanOf, ownerOf>>
history == <<raised, overtaken>>
vars == <<sys, chan, tables, router, op, history, msg>>

AllChannels == Channels \cup {Home}

Idle == [at |-> "idle", name |-> None, ch |-> None, h |-> None]

\* setup_system_channels finds or makes the channel of the Strategist; an
\* error of Discord is caught, and no system channel is known then.
SystemChannels == {Home, None}

Empty(S) == [x \in S |-> None]

\* create_strategist, up to the spawn of its worker.
Start(ch) == [Idle EXCEPT !.at = "spawn", !.name = Strategist, !.ch = ch]

Init ==
  /\ chan = [a \in Agents |-> <<>>]
  /\ registry = Empty(Names) /\ talk = Empty(Names)
  /\ saved = [n \in Names |-> "absent"]
  /\ home = Empty(Handles) /\ open = {}
  /\ handleOf = Empty(Names) /\ chanOf = Empty(Names) /\ ownerOf = Empty(AllChannels)
  /\ sys \in SystemChannels
  /\ \E t \in Tasks : op = [u \in Tasks |-> IF u = t THEN Start(sys) ELSE Idle]
  /\ raised = {} /\ overtaken = {}
  /\ msg = "none"

InUse == {registry[n] : n \in Names} \cup {handleOf[n] : n \in Names}
         \cup {talk[n] : n \in Names} \cup {op[t].h : t \in Tasks}
Fresh == Handles \ InUse

SetOp(t, o) == op' = [op EXCEPT ![t] = o]

-----------------------------------------------------------------------------
(* RuntimeAPI.hire                                                         *)

\* create_channel finds the channel of an earlier hire ...
HireFound(t, a) ==
  /\ op[t] = Idle
  /\ chan[a] # <<>>
  /\ SetOp(t, [at |-> "spawn", name |-> a, ch |-> Head(chan[a]), h |-> None])
  /\ UNCHANGED <<sys, chan, registry, saved, talk, home, open, router, history, msg>>

\* ... or does not, and waits for Discord to make one.
HireNew(t, a) ==
  /\ op[t] = Idle
  /\ chan[a] = <<>>
  /\ SetOp(t, [at |-> "create", name |-> a, ch |-> None, h |-> None])
  /\ UNCHANGED <<sys, chan, tables, router, history, msg>>

CreateChannel(t) ==
  /\ op[t].at = "create"
  /\ \E x \in Channels \ UNION {Range(chan[a]) : a \in Agents} :
       /\ chan' = [chan EXCEPT ![op[t].name] = Append(@, x)]
       /\ SetOp(t, [op[t] EXCEPT !.at = "spawn", !.ch = x])
  /\ UNCHANGED <<sys, registry, saved, talk, home, open, router, history, msg>>

\* Every error of Discord is caught: the agent is hired without a channel.
CreateFails(t) ==
  /\ op[t].at = "create"
  /\ SetOp(t, [op[t] EXCEPT !.at = "spawn"])
  /\ UNCHANGED <<sys, chan, tables, router, history, msg>>

SpawnFails(t) ==
  /\ op[t].at = "spawn"
  /\ SetOp(t, Idle)
  /\ UNCHANGED <<sys, chan, tables, router, history, msg>>

\* register_agent_handle; the old channel of the agent keeps its entry.
Register(n, h, ch) ==
  /\ handleOf' = [handleOf EXCEPT ![n] = h]
  /\ chanOf' = [chanOf EXCEPT ![n] = IF ch = None THEN @ ELSE ch]
  /\ ownerOf' = [x \in AllChannels |-> IF x = ch THEN n ELSE ownerOf[x]]

\* The hires of an agent that wait for Discord to post their message.
Confirming(n) == {u \in Tasks : op[u].at = "confirm" /\ op[u].name = n}

\* CompanyRoot.hire after the spawn.  The Strategist, and an agent without a
\* channel, are registered at once; the others after a message is posted.
Spawned(t) ==
  LET n == op[t].name
      ch == op[t].ch
      later == n # Strategist /\ ch # None
  IN
  /\ op[t].at = "spawn"
  /\ Fresh # {}
  /\ LET h == Min(Fresh) IN
       /\ registry' = [registry EXCEPT ![n] = h]
       /\ talk' = [talk EXCEPT ![n] = h]
       /\ home' = [x \in Handles |-> IF x = h THEN ch ELSE IF x \in InUse THEN home[x] ELSE None]
       /\ open' = (open \cap InUse) \cup {h}
       /\ saved' = [saved EXCEPT ![n] = ch]
       /\ IF later THEN UNCHANGED router ELSE Register(n, h, ch)
       /\ SetOp(t, IF later THEN [op[t] EXCEPT !.at = "confirm", !.h = h] ELSE Idle)
  /\ raised' = raised \cap InUse
  /\ overtaken' = (overtaken \cap InUse) \cup {op[u].h : u \in Confirming(n)}
  /\ UNCHANGED <<sys, chan, msg>>

\* Mutant: the router keeps the handle it has.
Confirmed_KeepsFirst(t) ==
  /\ op[t].at = "confirm"
  /\ IF handleOf[op[t].name] = None
     THEN Register(op[t].name, op[t].h, op[t].ch) ELSE UNCHANGED router
  /\ SetOp(t, Idle)
  /\ UNCHANGED <<sys, chan, tables, history, msg>>

Confirmed(t) ==
  /\ op[t].at = "confirm"
  /\ Register(op[t].name, op[t].h, op[t].ch)
  /\ SetOp(t, Idle)
  /\ UNCHANGED <<sys, chan, tables, history, msg>>

\* channel.send raises: the worker runs, the router does not know it.
ConfirmRaises(t) ==
  /\ op[t].at = "confirm"
  /\ raised' = raised \cup {op[t].h}
  /\ SetOp(t, Idle)
  /\ UNCHANGED <<sys, chan, tables, router, overtaken, msg>>

-----------------------------------------------------------------------------
(* dismiss, kill, relaunch, dispatch, /new-project and /remove-project.    *)

Dismiss(t, a) ==
  /\ op[t] = Idle
  /\ registry[a] # None
  /\ registry' = [registry EXCEPT ![a] = None]
  /\ SetOp(t, [at |-> "stop", name |-> a, ch |-> None, h |-> registry[a]])
  /\ UNCHANGED <<sys, chan, saved, talk, home, open, router, history, msg>>

Stopped(t) ==
  /\ op[t].at = "stop"
  /\ open' = open \ {op[t].h}
  /\ talk' = [talk EXCEPT ![op[t].name] = IF @ = op[t].h THEN None ELSE @]
  /\ saved' = [saved EXCEPT ![op[t].name] = "absent"]
  /\ SetOp(t, Idle)
  /\ UNCHANGED <<sys, chan, registry, home, router, history, msg>>

\* /kill waits for the owner's confirmation.  While the bot has no project
\* /kill, /dispatch and /relaunch only say so.
KillAsked(t, a) ==
  /\ op[t] = Idle
  /\ SetOp(t, [at |-> "ask", name |-> a, ch |-> None, h |-> None])
  /\ UNCHANGED <<sys, chan, tables, router, history, msg>>

\* The view is confirmed, and the agent is looked up; or it is cancelled or
\* times out.
Kill(t, confirmed) ==
  LET n == op[t].name
      h == registry[n]
      stops == confirmed /\ h # None
  IN
  /\ op[t].at = "ask"
  /\ open' = IF stops THEN open \ {h} ELSE open
  /\ talk' = IF stops /\ talk[n] = h THEN [talk EXCEPT ![n] = None] ELSE talk
  /\ SetOp(t, Idle)
  /\ UNCHANGED <<sys, chan, registry, saved, home, router, history, msg>>

\* /relaunch stops the worker at once; nothing starts it again.
RelaunchCmd(a) ==
  /\ registry[a] # None
  /\ open' = open \ {registry[a]}
  /\ talk' = [talk EXCEPT ![a] = IF @ = registry[a] THEN None ELSE @]
  /\ UNCHANGED <<sys, chan, registry, saved, home, router, op, history, msg>>

\* RuntimeAPI.dispatch, for one agent (of all, /dispatch only lists their
\* states): a worker that is not alive is spawned again ...
DispatchCmd(t, a) ==
  /\ op[t] = Idle
  /\ registry[a] # None
  /\ registry[a] \notin open
  /\ SetOp(t, [at |-> "respawn", name |-> a, ch |-> None, h |-> registry[a]])
  /\ UNCHANGED <<sys, chan, tables, router, history, msg>>

\* ... for the handle that was looked up before, or the spawn raises.
Dispatch(t) ==
  /\ op[t].at = "respawn"
  /\ \/ /\ open' = open \cup {op[t].h}
        /\ talk' = [talk EXCEPT ![op[t].name] = op[t].h]
     \/ UNCHANGED <<open, talk>>
  /\ SetOp(t, Idle)
  /\ UNCHANGED <<sys, chan, registry, saved, home, router, history, msg>>

\* /new-project: new_project_from_name loads agents.yaml and makes the
\* clones, in threads.
NewProjectCmd(t) ==
  /\ op[t] = Idle
  /\ SetOp(t, [Idle EXCEPT !.at = "clone", !.name = Strategist])
  /\ UNCHANGED <<sys, chan, tables, router, history, msg>>

\* There is no agents.yaml, or a template or the deployment raises.  A clone
\* that fails is passed over.
CloneRaises(t) ==
  /\ op[t].at = "clone"
  /\ SetOp(t, Idle)
  /\ UNCHANGED <<sys, chan, tables, router, history, msg>>

\* new_project hires the Strategist anew; add_project then raises for every
\* project that has agents, and the command reports the error.  The project
\* is not made known to the bot.
NewProject(t) ==
  /\ op[t].at = "clone"
  /\ SetOp(t, Start(sys))
  /\ UNCHANGED <<sys, chan, tables, router, history, msg>>

\* unregister_agent
Unregister(n) ==
  /\ handleOf' = [handleOf EXCEPT ![n] = None]
  /\ chanOf' = [chanOf EXCEPT ![n] = None]
  /\ ownerOf' = [x \in AllChannels |->
                   IF x = chanOf[n] THEN None ELSE ownerOf[x]]

\* remove_project unregisters the Strategist, also for a name that is not a
\* project.
RemoveProject == Unregister(Strategist)

\* /remove-project: a KeyError is passed over.
RemoveProjectCmd ==
  /\ RemoveProject
  /\ UNCHANGED <<sys, chan, tables, op, history, msg>>

\* The daemon restarts: CompanyRoot reconnects the workers that survive and
\* forgets the others, and the Strategist is hired again.
RestartDaemon ==
  \E alive \in SUBSET {n \in Names : saved[n] # "absent" /\ talk[n] # None}, t \in Tasks :
    LET g == CHOOSE f \in [Names -> Handles] : IsInjective(f) IN
    /\ sys' \in SystemChannels
    /\ registry' = [n \in Names |-> IF n \in alive THEN g[n] ELSE None]
    /\ talk' = registry'
    /\ saved' = [n \in Names |-> IF n \in alive THEN saved[n] ELSE "absent"]
    /\ home' = [h \in Handles |-> IF \E n \in alive : g[n] = h
                                  THEN saved[CHOOSE n \in alive : g[n] = h] ELSE None]
    /\ open' = {g[n] : n \in alive}
    /\ op' = [u \in Tasks |-> IF u = t THEN Start(sys') ELSE Idle]
    /\ handleOf' = Empty(Names) /\ chanOf' = Empty(Names) /\ ownerOf' = Empty(AllChannels)
    /\ raised' = {} /\ overtaken' = {}
    /\ msg' = "none"
    /\ UNCHANGED chan

-----------------------------------------------------------------------------
(* MentionRouterCog.on_message, _deliver_to_agent.                         *)

Deliver == msg = "none" /\ msg' = "routed"

\* A human writes in the channel of an agent, or mentions one elsewhere.
HumanMessage(ch) ==
  /\ ownerOf[ch] # None
  /\ handleOf[ownerOf[ch]] # None
  /\ Deliver
  /\ UNCHANGED <<sys, chan, tables, router, op, history>>

\* Mutant: the agent whose channel it is may be mentioned in it.
Report_Echo(n, m) ==
  /\ talk[n] \in open /\ home[talk[n]] # None
  /\ handleOf[m] # None
  /\ Deliver
  /\ UNCHANGED <<sys, chan, tables, router, op, history>>

\* The report of worker n, posted by the bot in its channel, mentions m.
Report(n, m) ==
  /\ talk[n] \in open /\ home[talk[n]] # None
  /\ handleOf[m] # None
  /\ m # ownerOf[home[talk[n]]]
  /\ Deliver
  /\ UNCHANGED <<sys, chan, tables, router, op, history>>

\* What reaches a worker through the RuntimeAPI is sent to the handle that
\* CompanyRoot has: give_task, relay_channel_message (the replies in standup
\* threads) and resolve_review.
Tell(a) ==
  /\ registry[a] # None
  /\ Deliver
  /\ UNCHANGED <<sys, chan, tables, router, op, history>>

GiveTask(a) == Tell(a)
RelayChannelMessage(a) == Tell(a)
ResolveReview(a) == Tell(a)

\* The attachments are loaded; the message is sent, or send() raises, which
\* is logged.
Delivered ==
  /\ msg = "routed"
  /\ msg' = "none"
  /\ UNCHANGED <<sys, chan, tables, router, op, history>>

Next ==
  \/ \E t \in Tasks :
       \/ \E a \in Agents : HireFound(t, a) \/ HireNew(t, a)
                            \/ Dismiss(t, a) \/ KillAsked(t, a) \/ DispatchCmd(t, a)
       \/ CreateChannel(t) \/ CreateFails(t) \/ SpawnFails(t) \/ Spawned(t)
       \/ Confirmed(t) \/ ConfirmRaises(t) \/ Stopped(t) \/ Dispatch(t)
       \/ NewProjectCmd(t) \/ CloneRaises(t) \/ NewProject(t)
       \/ \E c \in BOOLEAN : Kill(t, c)
  \/ \E a \in Agents : \/ RelaunchCmd(a)
                       \/ GiveTask(a) \/ RelayChannelMessage(a) \/ ResolveReview(a)
  \/ RemoveProjectCmd \/ RestartDaemon
  \/ \E ch \in AllChannels : HumanMessage(ch)
  \/ \E n, m \in Names : Report(n, m)
  \/ Delivered

Spec == Init /\ [][Next]_vars
-----------------------------------------------------------------------------
(* Properties.                                                             *)

\* The hire that made the handle in the registry is still waiting.
Pending(n) == \E t \in Confirming(n) : op[t].h = registry[n]

\* However hires, kills, dismissals, dispatches and restarts overlap, what
\* people write to an agent goes to the worker that CompanyRoot knows, once
\* its hire has returned without an error.  The exception is a router that
\* was told last by a hire which a later one had overtaken: hire registers
\* the handle only after the await of its message (runtime_api.py, hire).
RouterCurrent ==
  \A n \in Names :
    (/\ registry[n] # None /\ handleOf[n] # None
     /\ ~Pending(n) /\ registry[n] \notin raised /\ handleOf[n] \notin overtaken)
      => handleOf[n] = registry[n]

\* "prevents agents receiving their own output": a report does not come back
\* to the agent that made it, although the router's tables are rebuilt by
\* each hire, outlive dismissals and are changed by overlapping calls, if the
\* worker answers on the handle in the registry and the hire of that handle
\* has returned without an error.
NoEcho ==
  [][\A n \in Names :
       talk[n] = registry[n] /\ ~Pending(n) /\ registry[n] \notin raised
         => ~Report(n, n)]_vars
=============================================================================
