--------------------------- MODULE GatewayProofs ---------------------------
(***************************************************************************)
(* Proofs about Gateway, for any number of task agents, channels, handles  *)
(* and calls, however they overlap: what is written to an agent goes to    *)
(* the worker that CompanyRoot knows, unless a hire was overtaken or       *)
(* raised, and a report does not come back to its author.                  *)
(***************************************************************************)
EXTENDS Gateway, FiniteSetTheorems, WellFoundedInduction, TLAPS

Ops == [at : {"idle", "create", "spawn", "confirm", "stop", "ask", "respawn", "clone"},
        name : Names \cup {None}, ch : AllChannels \cup {None}, h : Handles \cup {None}]

HandleTypeOK ==
  /\ registry \in [Names -> Handles \cup {None}]
  /\ talk \in [Names -> Handles \cup {None}]
  /\ saved \in [Names -> AllChannels \cup {None, "absent"}]
  /\ home \in [Handles -> AllChannels \cup {None}]
  /\ open \subseteq Handles

RouterTypeOK ==
  /\ handleOf \in [Names -> Handles \cup {None}]
  /\ chanOf \in [Names -> AllChannels \cup {None}]
  /\ ownerOf \in [AllChannels -> Names \cup {None}]

OtherTypeOK ==
  /\ sys \in SystemChannels
  /\ chan \in [Agents -> Seq(Channels)]
  /\ op \in [Tasks -> Ops]
  /\ raised \subseteq Handles /\ overtaken \subseteq Handles
  /\ msg \in {"none", "routed"}

GatewayTypeOK == HandleTypeOK /\ RouterTypeOK /\ OtherTypeOK

-----------------------------------------------------------------------------
(* The invariant.                                                          *)

\* The channels that can be made for an agent.
OwnIn(c, n) == IF n = Strategist THEN {Home} ELSE Range(c[n])
Own(n) == OwnIn(chan, n)

\* A channel belongs to one agent, and a call about an agent works with a
\* channel of that agent.
ChannelsApart == \A a, b \in Agents : a # b => Range(chan[a]) \cap Range(chan[b]) = {}

CallsNameTheirs ==
  \A t \in Tasks :
    /\ op[t].at # "idle" => op[t].name \in Names
    /\ op[t].at = "create" => op[t].name \in Agents
    /\ op[t].at = "clone" => op[t].name = Strategist
    /\ op[t].at = "respawn" => op[t].h \in Handles
    /\ op[t].at \in {"create", "spawn", "confirm"} => op[t].ch \in Own(op[t].name) \cup {None}

\* A hire that has still to be made known works for the handle in the
\* registry, for one that was dismissed since, or was overtaken.
ConfirmsOwn ==
  \A t \in Tasks : op[t].at = "confirm" =>
    /\ op[t].h \in Handles /\ home[op[t].h] = op[t].ch /\ op[t].name \in Agents
    /\ registry[op[t].name] \in {None, op[t].h} \/ op[t].h \in overtaken

\* The hire of the handle in the registry is not over, or raised.
Excused(n) == Pending(n) \/ registry[n] \in raised

RouterFollows ==
  \A n \in Names : registry[n] # None /\ handleOf[n] # None =>
    handleOf[n] = registry[n] \/ Excused(n) \/ handleOf[n] \in overtaken

\* The router knows the agent or will: since the daemon's start it was hired.
Reached(n) == handleOf[n] # None \/ Confirming(n) # {}

\* Then the channel of the handle in the registry leads back to the agent.
OwnerKnown ==
  \A n \in Names : registry[n] # None /\ Reached(n) =>
    \/ Excused(n)
    \/ home[registry[n]] = None
    \/ home[registry[n]] \in Own(n) /\ ownerOf[home[registry[n]]] = n

StrategistAtHome == chanOf[Strategist] \in {Home, None}

CallInv == ChannelsApart /\ CallsNameTheirs
RouteInv == ConfirmsOwn /\ RouterFollows /\ OwnerKnown /\ StrategistAtHome

GatewayInv == GatewayTypeOK /\ CallInv /\ RouteInv

-----------------------------------------------------------------------------
(* Sequences and handles.                                                  *)

\* What Range holds before and after an Append.
LEMMA RangeFacts ==
  ASSUME NEW S, NEW s \in Seq(S)
  PROVE  /\ Range(s) \subseteq S
         /\ s # <<>> => Head(s) \in Range(s)
         /\ \A e \in S : Range(Append(s, e)) = Range(s) \cup {e}
<1>1. DOMAIN s = 1 .. Len(s) /\ Len(s) \in Nat
  OBVIOUS
<1>2. Range(s) \subseteq S
  BY <1>1 DEF Range
<1>3. s # <<>> => Head(s) \in Range(s)
  BY <1>1 DEF Range
<1>4. ASSUME NEW e \in S
      PROVE  Range(Append(s, e)) = Range(s) \cup {e}
  <2>1. /\ DOMAIN Append(s, e) = 1 .. Len(s) + 1
        /\ \A i \in 1 .. Len(s) : Append(s, e)[i] = s[i]
        /\ Append(s, e)[Len(s) + 1] = e
    BY <1>1
  <2>2. Range(Append(s, e)) \subseteq Range(s) \cup {e}
    BY <1>1, <2>1 DEF Range
  <2>3. Range(s) \cup {e} \subseteq Range(Append(s, e))
    BY <1>1, <2>1 DEF Range
  <2>4. QED BY <2>2, <2>3
<1>5. QED BY <1>2, <1>3, <1>4

\* A set of numbers that is not empty has a least one.
LEMMA LeastNumber ==
  ASSUME NEW S, S \subseteq Nat, S # {}
  PROVE  Min(S) \in S
<1>1. \E x \in S : \A y \in S : ~ (<<y, x>> \in OpToRel(<, Nat))
  BY NatLessThanWellFounded, WFMin
<1>2. \A x, y \in Nat : <<y, x>> \in OpToRel(<, Nat) <=> y < x
  BY DEF OpToRel
<1>3. PICK x \in S : \A y \in S : ~ (y < x)
  BY <1>1, <1>2
<1>4. \A y \in S : x =< y
  BY <1>3
<1>5. QED BY <1>4 DEF Min

\* The handle that a spawn takes is used by nothing else.
LEMMA FreshMin ==
  ASSUME Fresh # {}
  PROVE  Min(Fresh) \in Handles /\ Min(Fresh) \notin InUse
<1>1. Fresh \subseteq Nat
  BY GatewayAssumption DEF Fresh, Handles
<1>2. Min(Fresh) \in Fresh
  BY <1>1, LeastNumber
<1>3. QED BY <1>2 DEF Fresh

\* There are handles enough to give each agent one of its own.
LEMMA EnoughHandles ==
  \E g \in [Names -> Handles] : IsInjective(g)
<1>1. IsFiniteSet(Names)
  BY GatewayAssumption, FS_AddElement DEF Names
<1> DEFINE n == Cardinality(Names)
<1>2. n \in Nat /\ n <= MaxHandles /\ ExistsBijection(1 .. n, Names)
  BY <1>1, FS_CardinalityType, GatewayAssumption
<1> HIDE DEF n
<1>3. PICK f \in [1 .. n -> Names] : \A x \in Names : \E i \in 1 .. n : f[i] = x
  BY <1>2 DEF ExistsBijection, Bijection, Injection, Surjection
<1> DEFINE g == [x \in Names |-> CHOOSE i \in 1 .. n : f[i] = x]
<1>4. \A x \in Names : g[x] \in 1 .. n /\ f[g[x]] = x
  BY <1>3
<1>5. 1 .. n \subseteq Handles
  BY <1>2, GatewayAssumption DEF Handles
<1>6. g \in [Names -> Handles]
  BY <1>4, <1>5
<1> HIDE DEF g
<1>7. IsInjective(g)
  BY <1>4, <1>6 DEF IsInjective
<1>8. QED BY <1>6, <1>7

-----------------------------------------------------------------------------
(* The calls in progress.                                                  *)

\* Channels are made, never removed.
ChanGrows ==
  /\ chan' \in [Agents -> Seq(Channels)]
  /\ \A a \in Agents : Range(chan[a]) \subseteq Range(chan'[a])
  /\ ChannelsApart'

\* One call goes on, ends or begins.
Moves(t, o) ==
  /\ o \in Ops /\ SetOp(t, o)
  /\ o.at # "idle" => o.name \in Names
  /\ o.at = "create" => o.name \in Agents
  /\ o.at = "clone" => o.name = Strategist
  /\ o.at = "respawn" => o.h \in Handles
  /\ o.at \in {"create", "spawn", "confirm"} => o.ch \in OwnIn(chan', o.name) \cup {None}

LEMMA SameChannels ==
  ASSUME OtherTypeOK, CallInv, UNCHANGED chan
  PROVE  ChanGrows
BY DEF OtherTypeOK, CallInv, ChannelsApart, ChanGrows

LEMMA OwnGrows ==
  ASSUME ChanGrows, NEW n \in Names
  PROVE  Own(n) \subseteq Own(n)'
BY DEF ChanGrows, Own, OwnIn, Names

\* The channels of an agent are channels, and of no other agent.
LEMMA OwnFacts ==
  ASSUME OtherTypeOK, CallInv, NEW n \in Names
  PROVE  /\ Own(n) \subseteq AllChannels
         /\ \A m \in Names : m # n => Own(m) \cap Own(n) = {}
<1>1. \A a \in Agents : Range(chan[a]) \subseteq Channels
  BY RangeFacts DEF OtherTypeOK
<1>2. QED BY <1>1, GatewayAssumption DEF Own, OwnIn, CallInv, ChannelsApart, Names, AllChannels

\* The calls after one of them has moved.
LEMMA CallsAfter ==
  ASSUME OtherTypeOK, CallInv, ChanGrows, NEW t \in Tasks, NEW o, Moves(t, o)
  PROVE  CallInv' /\ op' \in [Tasks -> Ops]
<1>1. op' = [op EXCEPT ![t] = o] /\ o \in Ops /\ op \in [Tasks -> Ops]
  BY DEF Moves, SetOp, OtherTypeOK
<1>2. op' \in [Tasks -> Ops] /\ \A u \in Tasks : op'[u] = IF u = t THEN o ELSE op[u]
  BY <1>1
<1>4. CallsNameTheirs'
  <2> SUFFICES ASSUME NEW u \in Tasks
               PROVE  /\ op'[u].at # "idle" => op'[u].name \in Names
                      /\ op'[u].at = "create" => op'[u].name \in Agents
                      /\ op'[u].at = "clone" => op'[u].name = Strategist
                      /\ op'[u].at = "respawn" => op'[u].h \in Handles
                      /\ op'[u].at \in {"create", "spawn", "confirm"} =>
                           op'[u].ch \in OwnIn(chan', op'[u].name) \cup {None}
    BY DEF CallsNameTheirs, Own
  <2>1. CASE u = t
    <3>1. op'[u] = o
      BY <1>2, <2>1
    <3>2. QED BY <3>1 DEF Moves
  <2>2. CASE u # t
    <3>1. op'[u] = op[u]
      BY <1>2, <2>2
    <3>2. op[u].at \in {"create", "spawn", "confirm"} =>
            op[u].name \in Names /\ op[u].ch \in Own(op[u].name) \cup {None}
      BY DEF CallInv, CallsNameTheirs
    <3>3. op[u].at \in {"create", "spawn", "confirm"} =>
            op'[u].ch \in OwnIn(chan', op'[u].name) \cup {None}
      BY <3>1, <3>2 DEF ChanGrows, Own, OwnIn, Names
    <3>4. QED BY <3>1, <3>3 DEF CallInv, CallsNameTheirs
  <2>3. QED BY <2>1, <2>2
<1>5. QED BY <1>2, <1>4 DEF CallInv, ChanGrows

-----------------------------------------------------------------------------
(* Calls that leave handles and routes alone.                              *)

routes == <<registry, saved, talk, home, open, handleOf, chanOf, ownerOf>>

\* A hire until its worker has started, the beginnings of /kill, /dispatch and
\* /new-project, and the ends of calls that failed.
Prepares(t) ==
  \/ \E a \in Agents : HireFound(t, a) \/ HireNew(t, a) \/ KillAsked(t, a) \/ DispatchCmd(t, a)
  \/ CreateChannel(t) \/ CreateFails(t) \/ SpawnFails(t)
  \/ NewProjectCmd(t) \/ CloneRaises(t) \/ NewProject(t)

\* What such a call does to the calls and the channels.
LEMMA PrepareMoves ==
  ASSUME HandleTypeOK, OtherTypeOK, CallInv, NEW t \in Tasks, Prepares(t)
  PROVE  /\ ChanGrows
         /\ \E o : Moves(t, o) /\ o.at # "confirm"
         /\ op[t].at # "confirm"
         /\ UNCHANGED <<sys, routes, history, msg>>
<1>1. /\ op[t] \in Ops /\ sys \in {Home, None} /\ chan \in [Agents -> Seq(Channels)]
      /\ registry \in [Names -> Handles \cup {None}]
  BY DEF HandleTypeOK, OtherTypeOK, SystemChannels
<1>2. UNCHANGED <<sys, routes, history, msg>>
  BY DEF Prepares, HireFound, HireNew, KillAsked, DispatchCmd, CreateChannel, CreateFails, SpawnFails,
         NewProjectCmd, CloneRaises, NewProject, tables, router, routes
<1>3. ASSUME NEW a \in Agents, HireFound(t, a)
      PROVE  /\ ChanGrows
             /\ \E o : Moves(t, o) /\ o.at # "confirm"
             /\ op[t].at # "confirm"
  <2> DEFINE o == [at |-> "spawn", name |-> a, ch |-> Head(chan[a]), h |-> None]
  <2>1. Head(chan[a]) \in Range(chan[a]) /\ Range(chan[a]) \subseteq Channels
    BY <1>1, <1>3, RangeFacts DEF HireFound
  <2>2. ChanGrows /\ chan' = chan
    BY <1>3, SameChannels DEF HireFound
  <2>4. o \in Ops /\ a \in Names /\ a # Strategist
    BY <2>1, GatewayAssumption DEF Ops, Names, AllChannels
  <2>5. op[t] = Idle /\ SetOp(t, o)
    BY <1>3 DEF HireFound
  <2>6. Moves(t, o)
    BY <2>1, <2>2, <2>4, <2>5 DEF Moves, OwnIn
  <2>7. QED BY <2>2, <2>5, <2>6 DEF Idle
<1>4. ASSUME NEW a \in Agents, HireNew(t, a) \/ KillAsked(t, a) \/ DispatchCmd(t, a)
      PROVE  /\ ChanGrows
             /\ \E o : Moves(t, o) /\ o.at # "confirm"
             /\ op[t].at # "confirm"
  <2>0. registry[a] \in Handles \cup {None} /\ a \in Names
    BY <1>1 DEF Names
  <2>1. PICK l \in {"create", "ask", "respawn"}, h \in Handles \cup {None} :
          /\ SetOp(t, [at |-> l, name |-> a, ch |-> None, h |-> h])
          /\ l = "respawn" => h \in Handles
    BY <1>4, <2>0 DEF HireNew, KillAsked, DispatchCmd
  <2> DEFINE o == [at |-> l, name |-> a, ch |-> None, h |-> h]
  <2>2. ChanGrows
    BY <1>4, SameChannels DEF HireNew, KillAsked, DispatchCmd
  <2>3. o \in Ops /\ a \in Names
    BY <1>1 DEF Ops, Names
  <2>4. op[t] = Idle
    BY <1>4 DEF HireNew, KillAsked, DispatchCmd
  <2>5. Moves(t, o)
    BY <2>1, <2>3, <2>4 DEF Moves
  <2>6. o.at # "confirm"
    OBVIOUS
  <2>7. QED BY <2>2, <2>4, <2>5, <2>6 DEF Idle
<1>5. CASE CreateChannel(t)
  <2> DEFINE n == op[t].name
  <2>1. n \in Agents /\ n \in Names /\ n # Strategist
    BY <1>5, GatewayAssumption DEF CreateChannel, CallInv, CallsNameTheirs, Names
  <2>2. PICK x \in Channels :
          /\ \A a \in Agents : x \notin Range(chan[a])
          /\ chan' = [chan EXCEPT ![n] = Append(@, x)]
          /\ SetOp(t, [op[t] EXCEPT !.at = "spawn", !.ch = x])
    BY <1>5 DEF CreateChannel
  <2> DEFINE o == [op[t] EXCEPT !.at = "spawn", !.ch = x]
  <2>3. o \in Ops /\ o.at = "spawn" /\ o.name = n /\ o.ch = x
    BY <1>1 DEF Ops, AllChannels
  <2> HIDE DEF n
  <2>4. chan' \in [Agents -> Seq(Channels)] /\ chan'[n] = Append(chan[n], x)
        /\ \A a \in Agents : a # n => chan'[a] = chan[a]
    BY <1>1, <2>1, <2>2
  <2>5. /\ Range(chan'[n]) = Range(chan[n]) \cup {x}
        /\ \A a \in Agents : a # n => Range(chan'[a]) = Range(chan[a])
    BY <1>1, <2>1, <2>4, RangeFacts
  <2>6. ChanGrows
    BY <2>2, <2>4, <2>5 DEF ChanGrows, CallInv, ChannelsApart
  <2> HIDE DEF o
  <2>8. o.ch \in OwnIn(chan', o.name)
    BY <2>1, <2>3, <2>5 DEF OwnIn
  <2>9. Moves(t, o)
    BY <2>1, <2>2, <2>3, <2>8 DEF Moves, o, n
  <2>10. QED BY <1>2, <1>5, <2>3, <2>6, <2>9 DEF CreateChannel
<1>6. CASE CreateFails(t)
  <2> DEFINE o == [op[t] EXCEPT !.at = "spawn"]
  <2>1. o \in Ops /\ o.at = "spawn" /\ o.name = op[t].name /\ o.ch = op[t].ch
    BY <1>1 DEF Ops
  <2>2. chan' = chan /\ op[t].at = "create" /\ SetOp(t, o)
    BY <1>6 DEF CreateFails, tables
  <2>3. op[t].name \in Names /\ op[t].ch \in Own(op[t].name) \cup {None}
    BY <2>2 DEF CallInv, CallsNameTheirs
  <2> HIDE DEF o
  <2>4. o.ch \in OwnIn(chan', o.name) \cup {None}
    BY <2>1, <2>2, <2>3 DEF Own
  <2>5. Moves(t, o)
    BY <2>1, <2>2, <2>3, <2>4 DEF Moves
  <2>6. ChanGrows
    BY <2>2, SameChannels
  <2>7. QED BY <1>1, <1>2, <2>1, <2>2, <2>5, <2>6
<1>7. CASE SpawnFails(t) \/ CloneRaises(t)
  <2>1. chan' = chan /\ op[t].at \in {"spawn", "clone"} /\ SetOp(t, Idle)
    BY <1>7 DEF SpawnFails, CloneRaises, tables
  <2>2. Idle \in Ops
    BY DEF Idle, Ops
  <2>3. Moves(t, Idle) /\ Idle.at # "confirm"
    BY <2>1, <2>2 DEF Moves, Idle
  <2>4. ChanGrows
    BY <2>1, SameChannels
  <2>5. QED BY <1>1, <1>2, <2>1, <2>3, <2>4
<1>8. CASE NewProjectCmd(t)
  <2> DEFINE o == [Idle EXCEPT !.at = "clone", !.name = Strategist]
  <2>1. chan' = chan /\ op[t] = Idle /\ SetOp(t, o)
    BY <1>8 DEF NewProjectCmd
  <2>2. o \in Ops /\ o.at = "clone" /\ o.name = Strategist
    BY DEF Idle, Ops, Names
  <2> HIDE DEF o
  <2>3. Moves(t, o)
    BY <2>1, <2>2 DEF Moves, Names
  <2>4. ChanGrows
    BY <2>1, SameChannels
  <2>5. QED BY <1>1, <1>2, <2>1, <2>2, <2>3, <2>4 DEF Idle
<1>9. CASE NewProject(t)
  <2> DEFINE o == Start(sys)
  <2>1. chan' = chan /\ op[t].at = "clone" /\ SetOp(t, o)
    BY <1>9 DEF NewProject, tables
  <2>2. o \in Ops /\ o.at = "spawn" /\ o.name = Strategist /\ o.ch = sys
    BY <1>1 DEF Start, Idle, Ops, Names, AllChannels
  <2>3. op[t].name = Strategist
    BY <2>1 DEF CallInv, CallsNameTheirs
  <2> HIDE DEF o
  <2>4. Moves(t, o)
    BY <1>1, <2>1, <2>2, <2>3 DEF Moves, Names, OwnIn
  <2>5. ChanGrows
    BY <2>1, SameChannels
  <2>6. QED BY <1>1, <1>2, <2>1, <2>2, <2>4, <2>5
<1>10. QED BY <1>2, <1>3, <1>4, <1>5, <1>6, <1>7, <1>8, <1>9 DEF Prepares

\* Routes after a step of a call that registers nothing.
LEMMA QuietRoutes ==
  ASSUME GatewayTypeOK, RouteInv, ChanGrows, NEW t \in Tasks, NEW o, Moves(t, o),
         o.at # "confirm", op[t].at # "confirm",
         UNCHANGED <<home, handleOf, chanOf, ownerOf, history>>,
         \A n \in Names : registry'[n] \in {registry[n], None}
  PROVE  RouteInv'
<1>1. /\ \A u \in Tasks : op'[u] = IF u = t THEN o ELSE op[u]
      /\ UNCHANGED <<raised, overtaken>>
  BY DEF Moves, SetOp, GatewayTypeOK, OtherTypeOK, history
<1>2. ConfirmsOwn'
  <2> SUFFICES ASSUME NEW u \in Tasks, op'[u].at = "confirm"
               PROVE  /\ op'[u].h \in Handles /\ home[op'[u].h] = op'[u].ch /\ op'[u].name \in Agents
                      /\ registry'[op'[u].name] \in {None, op'[u].h} \/ op'[u].h \in overtaken
    BY <1>1 DEF ConfirmsOwn
  <2>1. op'[u] = op[u] /\ op[u].at = "confirm"
    BY <1>1
  <2>2. /\ op[u].h \in Handles /\ home[op[u].h] = op[u].ch /\ op[u].name \in Agents
        /\ registry[op[u].name] \in {None, op[u].h} \/ op[u].h \in overtaken
    BY <2>1 DEF RouteInv, ConfirmsOwn
  <2>3. QED BY <2>1, <2>2 DEF Names
<1>3. \A n \in Names : Confirming(n)' = Confirming(n)
  BY <1>1 DEF Confirming
<1>4. ASSUME NEW n \in Names, registry'[n] # None
      PROVE  registry'[n] = registry[n] /\ (Excused(n) => Excused(n)') /\ Reached(n)' = Reached(n)
  <2>1. registry'[n] = registry[n]
    BY <1>4
  <2>2. Pending(n) => Pending(n)'
    BY <1>1, <1>3, <2>1 DEF Pending, Confirming
  <2>3. QED BY <1>1, <1>3, <2>1, <2>2 DEF Excused, Reached
<1>5. RouterFollows'
  BY <1>1, <1>4 DEF RouteInv, RouterFollows
<1>6. OwnerKnown'
  BY <1>4, OwnGrows DEF RouteInv, OwnerKnown
<1>7. QED BY <1>2, <1>5, <1>6 DEF RouteInv, StrategistAtHome

LEMMA PrepareStep ==
  ASSUME GatewayInv, NEW t \in Tasks, Prepares(t)
  PROVE  GatewayInv'
<1>1. GatewayTypeOK /\ HandleTypeOK /\ OtherTypeOK /\ CallInv /\ RouteInv
  BY DEF GatewayInv, GatewayTypeOK
<1>2. ChanGrows /\ op[t].at # "confirm" /\ UNCHANGED <<sys, routes, history, msg>>
  BY <1>1, PrepareMoves
<1>3. PICK o : Moves(t, o) /\ o.at # "confirm"
  BY <1>1, PrepareMoves
<1>4. CallInv' /\ op' \in [Tasks -> Ops]
  BY <1>1, <1>2, <1>3, CallsAfter
<1>5. UNCHANGED <<registry, home, handleOf, chanOf, ownerOf, history>>
  BY <1>2 DEF routes
<1>6. RouteInv'
  BY <1>1, <1>2, <1>3, <1>5, QuietRoutes
<1>7. GatewayTypeOK'
  BY <1>1, <1>2, <1>4
  DEF GatewayTypeOK, HandleTypeOK, RouterTypeOK, OtherTypeOK, routes, history, ChanGrows
<1>8. QED BY <1>4, <1>6, <1>7 DEF GatewayInv

-----------------------------------------------------------------------------
(* The other steps of a call.                                              *)

\* The router after register_agent_handle: the channel leads to the agent, and
\* those of the other agents still lead to them.
LEMMA RegisterFacts ==
  ASSUME GatewayTypeOK, CallInv, StrategistAtHome,
         NEW n \in Names, NEW h \in Handles, NEW ch \in Own(n) \cup {None}, Register(n, h, ch)
  PROVE  /\ RouterTypeOK' /\ StrategistAtHome'
         /\ \A m \in Names : handleOf'[m] = IF m = n THEN h ELSE handleOf[m]
         /\ ch # None => ownerOf'[ch] = n
         /\ \A m \in Names : \A x \in Own(m) : ownerOf[x] = m => ownerOf'[x] = m
<1>1. RouterTypeOK /\ OtherTypeOK
  BY DEF GatewayTypeOK
<1>2. /\ \A m \in Names : Own(m) \subseteq AllChannels
      /\ \A m \in Names : m # n => Own(m) \cap Own(n) = {}
  BY <1>1, OwnFacts
<1>3. /\ handleOf' \in [Names -> Handles \cup {None}]
      /\ \A m \in Names : handleOf'[m] = IF m = n THEN h ELSE handleOf[m]
  BY <1>1 DEF Register, RouterTypeOK
<1>4. /\ chanOf' \in [Names -> AllChannels \cup {None}]
      /\ \A m \in Names : chanOf'[m] = IF m = n /\ ch # None THEN ch ELSE chanOf[m]
  BY <1>1, <1>2 DEF Register, RouterTypeOK
<1>5. /\ ownerOf' \in [AllChannels -> Names \cup {None}]
      /\ \A x \in AllChannels : ownerOf'[x] = IF x = ch THEN n ELSE ownerOf[x]
  BY <1>1 DEF Register, RouterTypeOK
<1>6. ch # None => ch \in AllChannels
  BY <1>2
<1>7. ASSUME NEW m \in Names, NEW x \in Own(m), ownerOf[x] = m
      PROVE  ownerOf'[x] = m
  <2>1. x \in AllChannels /\ (x = ch => m = n)
    BY <1>2, GatewayAssumption DEF AllChannels
  <2>2. QED BY <1>5, <1>7, <2>1
<1>8. StrategistAtHome'
  <2>1. n = Strategist => ch \in {Home, None}
    BY DEF Own, OwnIn
  <2>2. Strategist \in Names
    BY DEF Names
  <2>3. QED BY <1>4, <2>1, <2>2 DEF StrategistAtHome
<1>9. QED BY <1>3, <1>4, <1>5, <1>6, <1>7, <1>8 DEF RouterTypeOK

\* What the invariant says of the call that moves.
LEMMA CallFacts ==
  ASSUME GatewayInv, NEW t \in Tasks
  PROVE  /\ op[t] \in Ops
         /\ op[t].at # "idle" => op[t].name \in Names /\ op[t].name # None
         /\ op[t].at \in {"spawn", "confirm"} => op[t].ch \in Own(op[t].name) \cup {None}
BY GatewayAssumption
DEF GatewayInv, GatewayTypeOK, OtherTypeOK, CallInv, CallsNameTheirs

\* The calls after one of them has ended.
LEMMA CallEnds ==
  ASSUME GatewayInv, NEW t \in Tasks, SetOp(t, Idle), UNCHANGED chan
  PROVE  /\ CallInv' /\ op' \in [Tasks -> Ops] /\ ChanGrows /\ Moves(t, Idle)
         /\ \A u \in Tasks : op'[u] = IF u = t THEN Idle ELSE op[u]
<1>1. OtherTypeOK /\ CallInv /\ op \in [Tasks -> Ops]
  BY DEF GatewayInv, GatewayTypeOK, OtherTypeOK
<1>2. ChanGrows
  BY <1>1, SameChannels
<1>3. Idle \in Ops /\ Idle.at = "idle" /\ Idle.name = None
  BY DEF Idle, Ops
<1>4. Moves(t, Idle)
  BY <1>3 DEF Moves
<1>5. QED BY <1>1, <1>2, <1>4, CallsAfter DEF SetOp

\* A hire whose message was posted, or raised, is over: what is left of the
\* hires that wait.
LEMMA HireOver ==
  ASSUME GatewayInv, NEW t \in Tasks, op[t].at = "confirm", SetOp(t, Idle),
         UNCHANGED <<chan, registry, home, overtaken>>
  PROVE  /\ ConfirmsOwn'
         /\ \A m \in Names : m # op[t].name => Confirming(m)' = Confirming(m)
         /\ \A m \in Names : m # op[t].name => Pending(m)' = Pending(m)
         /\ \A m \in Names : Pending(m) /\ registry[m] # op[t].h => Pending(m)'
<1>1. /\ \A u \in Tasks : op'[u] = IF u = t THEN Idle ELSE op[u]
      /\ Idle.at = "idle" /\ op[t].name \in Names
  BY CallEnds, CallFacts DEF Idle
<1>2. ConfirmsOwn'
  BY <1>1 DEF GatewayInv, RouteInv, ConfirmsOwn
<1>3. \A m \in Names : m # op[t].name => Confirming(m)' = Confirming(m)
  BY <1>1 DEF Confirming
<1>4. \A m \in Names : m # op[t].name => Pending(m)' = Pending(m)
  BY <1>1, <1>3 DEF Pending, Confirming
<1>5. ASSUME NEW m \in Names, Pending(m), registry[m] # op[t].h
      PROVE  Pending(m)'
  <2>1. PICK u \in Tasks : op[u].at = "confirm" /\ op[u].name = m /\ op[u].h = registry[m]
    BY <1>5 DEF Pending, Confirming
  <2>2. op'[u] = op[u] /\ registry' = registry
    BY <1>1, <1>5, <2>1
  <2>3. u \in Confirming(m)'
    BY <2>1, <2>2 DEF Confirming
  <2>4. QED BY <2>1, <2>2, <2>3 DEF Pending
<1>6. QED BY <1>2, <1>3, <1>4, <1>5

LEMMA ConfirmedStep ==
  ASSUME GatewayInv, NEW t \in Tasks, Confirmed(t)
  PROVE  GatewayInv'
<1> DEFINE n == op[t].name
           h == op[t].h
           ch == op[t].ch
<1>1. /\ GatewayTypeOK /\ CallInv /\ RouteInv /\ HandleTypeOK /\ RouterTypeOK /\ OtherTypeOK
      /\ StrategistAtHome
  BY DEF GatewayInv, GatewayTypeOK, RouteInv
<1>2. /\ op[t].at = "confirm" /\ Register(n, h, ch) /\ SetOp(t, Idle)
      /\ UNCHANGED <<sys, chan, registry, saved, talk, home, open, raised, overtaken, msg>>
  BY DEF Confirmed, tables, history
<1>3. n \in Names /\ ch \in Own(n) \cup {None}
  BY <1>2, CallFacts
<1>4. h \in Handles /\ home[h] = ch /\ (registry[n] \in {None, h} \/ h \in overtaken)
  BY <1>1, <1>2 DEF RouteInv, ConfirmsOwn
<1>5. CallInv' /\ op' \in [Tasks -> Ops]
  BY <1>2, CallEnds
<1>6. /\ ConfirmsOwn'
      /\ \A m \in Names : m # n => Confirming(m)' = Confirming(m)
      /\ \A m \in Names : m # n => Pending(m)' = Pending(m)
      /\ \A m \in Names : Pending(m) /\ registry[m] # h => Pending(m)'
  BY <1>2, HireOver
<1>7. Reached(n)
  BY <1>2 DEF Reached, Confirming
<1> HIDE DEF n, h, ch
<1>8. /\ RouterTypeOK' /\ StrategistAtHome'
      /\ \A m \in Names : handleOf'[m] = IF m = n THEN h ELSE handleOf[m]
      /\ ch # None => ownerOf'[ch] = n
      /\ \A m \in Names : \A x \in Own(m) : ownerOf[x] = m => ownerOf'[x] = m
  BY <1>1, <1>2, <1>3, <1>4, RegisterFacts
<1>9. GatewayTypeOK'
  BY <1>1, <1>2, <1>5, <1>8 DEF GatewayTypeOK, HandleTypeOK, OtherTypeOK
<1>10. RouterFollows'
  <2> SUFFICES ASSUME NEW m \in Names, registry[m] # None, handleOf'[m] # None
               PROVE  \/ handleOf'[m] = registry[m] \/ Pending(m)' \/ registry[m] \in raised
                      \/ handleOf'[m] \in overtaken
    BY <1>2 DEF RouterFollows, Excused
  <2>1. CASE m = n
    BY <1>4, <1>8, <2>1
  <2>2. CASE m # n
    BY <1>1, <1>6, <1>8, <2>2 DEF RouteInv, RouterFollows, Excused
  <2>3. QED BY <2>1, <2>2
<1>11. OwnerKnown'
  <2> SUFFICES ASSUME NEW m \in Names, registry[m] # None, Reached(m)'
               PROVE  \/ Pending(m)' \/ registry[m] \in raised \/ home[registry[m]] = None
                      \/ home[registry[m]] \in Own(m) /\ ownerOf'[home[registry[m]]] = m
    BY <1>2 DEF OwnerKnown, Excused, Own
  <2>1. Reached(m)
    BY <1>6, <1>7, <1>8 DEF Reached
  <2>2. \/ Pending(m) \/ registry[m] \in raised \/ home[registry[m]] = None
        \/ home[registry[m]] \in Own(m) /\ ownerOf[home[registry[m]]] = m
    BY <1>1, <2>1 DEF RouteInv, OwnerKnown, Excused
  <2>3. CASE m = n /\ registry[m] = h
    BY <1>3, <1>4, <1>8, <2>3
  <2>4. CASE m # n \/ registry[m] # h
    BY <1>6, <1>8, <2>2, <2>4
  <2>5. QED BY <2>3, <2>4
<1>12. QED BY <1>5, <1>6, <1>8, <1>9, <1>10, <1>11 DEF GatewayInv, RouteInv

LEMMA ConfirmRaisesStep ==
  ASSUME GatewayInv, NEW t \in Tasks, ConfirmRaises(t)
  PROVE  GatewayInv'
<1> DEFINE n == op[t].name
<1>1. GatewayTypeOK /\ CallInv /\ RouteInv /\ HandleTypeOK /\ RouterTypeOK /\ OtherTypeOK
  BY DEF GatewayInv, GatewayTypeOK
<1>2. /\ op[t].at = "confirm" /\ SetOp(t, Idle) /\ raised' = raised \cup {op[t].h}
      /\ UNCHANGED <<sys, chan, registry, saved, talk, home, open, handleOf, chanOf,
                     ownerOf, overtaken, msg>>
  BY DEF ConfirmRaises, tables, router
<1>3. n \in Names /\ op[t].h \in Handles
  BY <1>1, <1>2, CallFacts DEF RouteInv, ConfirmsOwn
<1>4. CallInv' /\ op' \in [Tasks -> Ops]
  BY <1>2, CallEnds
<1>5. /\ ConfirmsOwn'
      /\ \A m \in Names : m # n => Confirming(m)' = Confirming(m)
      /\ \A m \in Names : m # n => Pending(m)' = Pending(m)
      /\ \A m \in Names : Pending(m) /\ registry[m] # op[t].h => Pending(m)'
  BY <1>2, HireOver
<1>6. Reached(n)
  BY <1>2 DEF Reached, Confirming
<1>7. GatewayTypeOK'
  BY <1>1, <1>2, <1>3, <1>4 DEF GatewayTypeOK, HandleTypeOK, RouterTypeOK, OtherTypeOK
<1> HIDE DEF n
<1>8. \A m \in Names : Excused(m) => Excused(m)'
  BY <1>2, <1>5 DEF Excused
<1>9. \A m \in Names : Reached(m)' => Reached(m)
  BY <1>2, <1>5, <1>6 DEF Reached
<1>10. RouterFollows'
  BY <1>1, <1>2, <1>8 DEF RouteInv, RouterFollows
<1>11. OwnerKnown' /\ StrategistAtHome'
  BY <1>1, <1>2, <1>8, <1>9 DEF RouteInv, OwnerKnown, StrategistAtHome, Own
<1>12. QED BY <1>4, <1>5, <1>7, <1>10, <1>11 DEF GatewayInv, RouteInv

\* The step that starts a worker takes a handle that nothing else uses.
LEMMA SpawnedStep ==
  ASSUME GatewayInv, NEW t \in Tasks, Spawned(t)
  PROVE  GatewayInv'
<1> DEFINE n == op[t].name
           ch == op[t].ch
           h == Min(Fresh)
           later == n # Strategist /\ ch # None
           o == IF later THEN [op[t] EXCEPT !.at = "confirm", !.h = h] ELSE Idle
<1>1. /\ GatewayTypeOK /\ CallInv /\ RouteInv /\ HandleTypeOK /\ RouterTypeOK /\ OtherTypeOK
      /\ op \in [Tasks -> Ops] /\ StrategistAtHome
  BY DEF GatewayInv, GatewayTypeOK, OtherTypeOK, RouteInv
<1>2. /\ op[t].at = "spawn" /\ Fresh # {}
      /\ registry' = [registry EXCEPT ![n] = h]
      /\ talk' = [talk EXCEPT ![n] = h]
      /\ home' = [x \in Handles |-> IF x = h THEN ch ELSE IF x \in InUse THEN home[x] ELSE None]
      /\ open' = (open \cap InUse) \cup {h}
      /\ saved' = [saved EXCEPT ![n] = ch]
      /\ SetOp(t, o)
      /\ raised' = raised \cap InUse
      /\ overtaken' = (overtaken \cap InUse) \cup {op[u].h : u \in Confirming(n)}
      /\ UNCHANGED <<sys, chan, msg>>
  BY DEF Spawned
<1>3. IF later THEN UNCHANGED <<handleOf, chanOf, ownerOf>> ELSE Register(n, h, ch)
  BY DEF Spawned, router
<1>4. h \in Handles /\ h \notin InUse /\ h # None
  BY <1>2, FreshMin, GatewayAssumption
<1>5. n \in Names /\ n # None /\ ch \in Own(n) \cup {None} /\ op[t] \in Ops
  BY <1>2, CallFacts
<1>6. ch \in AllChannels \cup {None}
  BY <1>1, <1>5, OwnFacts
<1>7. /\ o \in Ops /\ o.at \in {"idle", "confirm"}
      /\ later => o.at = "confirm" /\ o.name = n /\ o.ch = ch /\ o.h = h
      /\ ~later => o = Idle /\ o.at = "idle"
  <2>1. CASE later
    BY <1>4, <1>5, <2>1 DEF Ops
  <2>2. CASE ~later
    BY <2>2 DEF Ops, Idle
  <2>3. QED BY <2>1, <2>2
<1>8. later => n \in Agents
  BY <1>5 DEF Names
<1> HIDE DEF o, later, h, ch
<1>9. Moves(t, o)
  <2>1. o.at = "confirm" => o.ch \in OwnIn(chan', o.name) \cup {None}
    BY <1>2, <1>5, <1>7 DEF Own
  <2>2. QED BY <1>2, <1>5, <1>7, <2>1 DEF Moves
<1>10. CallInv' /\ op' \in [Tasks -> Ops]
  BY <1>1, <1>2, <1>9, SameChannels, CallsAfter
<1>11. \A u \in Tasks : op'[u] = IF u = t THEN o ELSE op[u]
  BY <1>1, <1>2 DEF SetOp
<1>12. \A u \in Tasks : op[u].at = "confirm" =>
         /\ op[u].h \in Handles \cap InUse /\ home[op[u].h] = op[u].ch /\ op[u].name \in Agents
         /\ registry[op[u].name] \in {None, op[u].h} \/ op[u].h \in overtaken
  BY <1>1 DEF RouteInv, ConfirmsOwn, InUse
<1> HIDE DEF n
<1>13. HandleTypeOK' /\ raised' \subseteq Handles /\ overtaken' \subseteq Handles
  <2>1. HandleTypeOK'
    BY <1>1, <1>2, <1>4, <1>5, <1>6 DEF HandleTypeOK
  <2>2. raised' \subseteq Handles /\ overtaken' \subseteq Handles
    BY <1>1, <1>2, <1>12 DEF OtherTypeOK, Confirming
  <2>3. QED BY <2>1, <2>2
<1>14. /\ \A m \in Names : registry'[m] = IF m = n THEN h ELSE registry[m]
       /\ home'[h] = ch /\ \A x \in Handles \cap InUse : home'[x] = home[x]
  BY <1>1, <1>2, <1>4 DEF HandleTypeOK
<1>15. ConfirmsOwn'
  <2> SUFFICES ASSUME NEW u \in Tasks, op'[u].at = "confirm"
               PROVE  /\ op'[u].h \in Handles /\ home'[op'[u].h] = op'[u].ch
                      /\ op'[u].name \in Agents
                      /\ \/ registry'[op'[u].name] \in {None, op'[u].h}
                         \/ op'[u].h \in overtaken'
    BY DEF ConfirmsOwn
  <2>1. CASE u = t
    <3>1. op'[u] = o /\ later
      BY <1>7, <1>11, <2>1
    <3>2. QED BY <1>4, <1>5, <1>7, <1>8, <1>14, <3>1
  <2>2. CASE u # t
    <3>1. op'[u] = op[u] /\ op[u].at = "confirm"
      BY <1>11, <2>2
    <3>2. /\ op[u].h \in Handles \cap InUse /\ home[op[u].h] = op[u].ch
          /\ op[u].name \in Agents /\ op[u].name \in Names
          /\ registry[op[u].name] \in {None, op[u].h} \/ op[u].h \in overtaken
      BY <1>12, <3>1 DEF Names
    <3>3. CASE op[u].name = n
      <4>1. op[u].h \in overtaken'
        BY <1>2, <3>1, <3>3 DEF Confirming
      <4>2. QED BY <1>14, <3>1, <3>2, <4>1
    <3>4. CASE op[u].name # n
      BY <1>2, <1>14, <3>1, <3>2, <3>4
    <3>5. QED BY <3>3, <3>4
  <2>3. QED BY <2>1, <2>2
\* the other agents
<1>16. /\ RouterTypeOK' /\ StrategistAtHome'
       /\ \A m \in Names : m # n => handleOf'[m] = handleOf[m]
       /\ ~later => handleOf'[n] = h /\ (ch # None => ownerOf'[ch] = n)
       /\ \A m \in Names : \A x \in Own(m) : ownerOf[x] = m => ownerOf'[x] = m
  <2>1. CASE later
    <3>1. UNCHANGED <<handleOf, chanOf, ownerOf>>
      BY <1>3, <2>1
    <3>2. QED BY <1>1, <2>1, <3>1 DEF RouterTypeOK, StrategistAtHome
  <2>2. CASE ~later
    <3>1. Register(n, h, ch)
      BY <1>3, <2>2
    <3>2. /\ RouterTypeOK' /\ StrategistAtHome'
          /\ \A m \in Names : handleOf'[m] = IF m = n THEN h ELSE handleOf[m]
          /\ ch # None => ownerOf'[ch] = n
          /\ \A m \in Names : \A x \in Own(m) : ownerOf[x] = m => ownerOf'[x] = m
      BY <1>1, <1>4, <1>5, <3>1, RegisterFacts
    <3>3. QED BY <1>5, <3>2
  <2>3. QED BY <2>1, <2>2
<1>17. ASSUME NEW m \in Names, m # n, registry[m] # None
       PROVE  /\ registry'[m] = registry[m] /\ home'[registry[m]] = home[registry[m]]
              /\ Excused(m) => Excused(m)'
              /\ Reached(m)' => Reached(m)
              /\ handleOf[m] \in overtaken => handleOf[m] \in overtaken'
  <2>1. registry'[m] = registry[m] /\ registry[m] \in Handles /\ registry[m] \in InUse
        /\ handleOf[m] \in InUse
    BY <1>1, <1>14, <1>17 DEF HandleTypeOK, InUse
  <2>2. Confirming(m)' = Confirming(m)
    BY <1>2, <1>7, <1>11, <1>17 DEF Confirming
  <2>3. Pending(m) => Pending(m)'
    <3>1. ASSUME NEW u \in Confirming(m), op[u].h = registry[m]
          PROVE  Pending(m)'
      <4>1. u \in Tasks /\ u # t /\ op'[u] = op[u]
        BY <1>2, <1>11, <3>1 DEF Confirming
      <4>2. QED BY <2>1, <2>2, <3>1, <4>1 DEF Pending
    <3>2. QED BY <3>1 DEF Pending
  <2>4. QED BY <1>2, <1>14, <1>16, <1>17, <2>1, <2>2, <2>3 DEF Excused, Reached
\* the agent that is hired
<1>18. registry'[n] = h /\ \A m \in Names : m = n /\ later => Excused(m)'
  <2>1. registry'[n] = h
    BY <1>5, <1>14
  <2>2. later => op'[t].at = "confirm" /\ op'[t].name = n /\ op'[t].h = h
    BY <1>7, <1>11
  <2>3. ASSUME NEW m \in Names, m = n, later
        PROVE  Pending(m)'
    <3>1. t \in Confirming(m)'
      BY <2>2, <2>3 DEF Confirming
    <3>2. QED BY <2>1, <2>2, <2>3, <3>1 DEF Pending
  <2>4. QED BY <2>1, <2>3 DEF Excused
<1>19. RouterFollows'
  <2> SUFFICES ASSUME NEW m \in Names, registry'[m] # None, handleOf'[m] # None
               PROVE  handleOf'[m] = registry'[m] \/ Excused(m)' \/ handleOf'[m] \in overtaken'
    BY DEF RouterFollows
  <2>1. CASE m = n
    BY <1>16, <1>18, <2>1
  <2>2. CASE m # n
    BY <1>1, <1>14, <1>16, <1>17, <2>2 DEF RouteInv, RouterFollows
  <2>3. QED BY <2>1, <2>2
<1>20. OwnerKnown'
  <2> SUFFICES ASSUME NEW m \in Names, registry'[m] # None, Reached(m)'
               PROVE  \/ Excused(m)' \/ home'[registry'[m]] = None
                      \/ home'[registry'[m]] \in Own(m) /\ ownerOf'[home'[registry'[m]]] = m
    BY <1>2 DEF OwnerKnown, Own
  <2>1. CASE m = n
    BY <1>5, <1>14, <1>16, <1>18, <2>1
  <2>2. CASE m # n
    <3>1. registry[m] # None
      BY <1>14, <2>2
    <3>2. QED BY <1>1, <1>16, <1>17, <2>2, <3>1 DEF RouteInv, OwnerKnown
  <2>3. QED BY <2>1, <2>2
<1>21. GatewayTypeOK'
  BY <1>1, <1>2, <1>10, <1>13, <1>16 DEF GatewayTypeOK, OtherTypeOK
<1>22. QED BY <1>10, <1>15, <1>16, <1>19, <1>20, <1>21 DEF GatewayInv, RouteInv

LEMMA DismissStep ==
  ASSUME GatewayInv, NEW t \in Tasks, NEW a \in Agents, Dismiss(t, a)
  PROVE  GatewayInv'
<1> DEFINE o == [at |-> "stop", name |-> a, ch |-> None, h |-> registry[a]]
<1>1. /\ GatewayTypeOK /\ CallInv /\ RouteInv /\ HandleTypeOK /\ RouterTypeOK /\ OtherTypeOK
      /\ a \in Names
  BY DEF GatewayInv, GatewayTypeOK, Names
<1>2. /\ op[t] = Idle /\ registry' = [registry EXCEPT ![a] = None] /\ SetOp(t, o)
      /\ UNCHANGED <<sys, chan, saved, talk, home, open, handleOf, chanOf, ownerOf,
                     history, msg>>
  BY DEF Dismiss, router
<1>3. o \in Ops /\ o.at = "stop" /\ o.name = a
  BY <1>1 DEF Ops, HandleTypeOK
<1> HIDE DEF o
<1>4. Moves(t, o) /\ ChanGrows /\ o.at # "confirm" /\ op[t].at # "confirm"
  BY <1>1, <1>2, <1>3, SameChannels DEF Moves, Idle
<1>5. CallInv' /\ op' \in [Tasks -> Ops]
  BY <1>1, <1>4, CallsAfter
<1>6. /\ registry' \in [Names -> Handles \cup {None}]
      /\ \A m \in Names : registry'[m] \in {registry[m], None}
  BY <1>1, <1>2 DEF HandleTypeOK
<1>7. RouteInv'
  BY <1>1, <1>2, <1>4, <1>6, QuietRoutes
<1>8. GatewayTypeOK'
  BY <1>1, <1>2, <1>5, <1>6 DEF GatewayTypeOK, HandleTypeOK, RouterTypeOK, OtherTypeOK, history
<1>9. QED BY <1>5, <1>7, <1>8 DEF GatewayInv

\* The ends of a dismissal, of /kill and of /dispatch.
LEMMA StopStep ==
  ASSUME GatewayInv, NEW t \in Tasks,
         Stopped(t) \/ Dispatch(t) \/ \E c \in BOOLEAN : Kill(t, c)
  PROVE  GatewayInv'
<1>1. GatewayTypeOK /\ CallInv /\ RouteInv /\ HandleTypeOK /\ RouterTypeOK /\ OtherTypeOK
  BY DEF GatewayInv, GatewayTypeOK
<1>2. /\ op[t].at \in {"stop", "ask", "respawn"} /\ SetOp(t, Idle)
      /\ UNCHANGED <<sys, chan, registry, home, handleOf, chanOf, ownerOf, history, msg>>
  BY DEF Stopped, Dispatch, Kill, router
<1>3. op[t].name \in Names /\ op[t].h \in Handles \cup {None}
  BY <1>2, CallFacts DEF Ops
<1>4. CallInv' /\ op' \in [Tasks -> Ops] /\ ChanGrows /\ Moves(t, Idle) /\ Idle.at # "confirm"
  BY <1>2, CallEnds DEF Idle
<1>5. /\ open' \subseteq Handles
      /\ saved' \in [Names -> AllChannels \cup {None, "absent"}]
      /\ talk' \in [Names -> Handles \cup {None}]
  <2>1. CASE Stopped(t)
    BY <1>1, <1>3, <2>1 DEF Stopped, HandleTypeOK
  <2>2. CASE \E c \in BOOLEAN : Kill(t, c)
    BY <1>1, <1>3, <2>2 DEF Kill, HandleTypeOK
  <2>3. CASE Dispatch(t)
    <3>1. op[t].h \in Handles
      BY <1>1, <2>3 DEF Dispatch, CallInv, CallsNameTheirs
    <3>2. QED BY <1>1, <1>3, <2>3, <3>1 DEF Dispatch, HandleTypeOK
  <2>4. QED BY <2>1, <2>2, <2>3
<1>6. RouteInv'
  BY <1>1, <1>2, <1>4, QuietRoutes
<1>7. GatewayTypeOK'
  BY <1>1, <1>2, <1>4, <1>5
  DEF GatewayTypeOK, HandleTypeOK, RouterTypeOK, OtherTypeOK, history
<1>8. QED BY <1>4, <1>6, <1>7 DEF GatewayInv

-----------------------------------------------------------------------------
(* The steps that are not calls in progress.                               *)

\* Nothing but the workers and the message being routed changes.
LEMMA SameStep ==
  ASSUME GatewayInv, UNCHANGED <<sys, chan, registry, saved, home, router, op, history>>,
         open' \subseteq Handles, talk' \in [Names -> Handles \cup {None}],
         msg' \in {"none", "routed"}
  PROVE  GatewayInv'
<1>1. /\ GatewayTypeOK /\ CallInv /\ RouteInv
      /\ UNCHANGED <<handleOf, chanOf, ownerOf, raised, overtaken>>
  BY DEF GatewayInv, router, history
<1>2. GatewayTypeOK'
  BY <1>1 DEF GatewayTypeOK, HandleTypeOK, RouterTypeOK, OtherTypeOK
<1>3. CallInv'
  BY <1>1 DEF CallInv, ChannelsApart, CallsNameTheirs, Own, OwnIn
<1>4. ConfirmsOwn' /\ StrategistAtHome'
  BY <1>1 DEF RouteInv, ConfirmsOwn, StrategistAtHome
<1>5. \A n \in Names : Excused(n)' = Excused(n) /\ Reached(n)' = Reached(n) /\ Own(n)' = Own(n)
  BY <1>1 DEF Excused, Pending, Confirming, Reached, Own
<1>6. RouterFollows'
  BY <1>1, <1>5 DEF RouteInv, RouterFollows
<1>7. OwnerKnown'
  BY <1>1, <1>5 DEF RouteInv, OwnerKnown
<1>8. QED BY <1>2, <1>3, <1>4, <1>6, <1>7 DEF GatewayInv, RouteInv

\* /relaunch: the worker goes.
LEMMA RelaunchStep ==
  ASSUME GatewayInv, NEW a \in Agents, RelaunchCmd(a)
  PROVE  GatewayInv'
<1>1. HandleTypeOK /\ a \in Names /\ msg \in {"none", "routed"}
  BY DEF GatewayInv, GatewayTypeOK, OtherTypeOK, Names
<1>2. open' \subseteq Handles /\ talk' \in [Names -> Handles \cup {None}]
  BY <1>1 DEF RelaunchCmd, HandleTypeOK
<1>3. QED BY <1>1, <1>2, SameStep DEF RelaunchCmd

\* /remove-project takes the Strategist out of the router, and only the
\* Strategist's channel.
LEMMA RemoveStep ==
  ASSUME GatewayInv, RemoveProjectCmd
  PROVE  GatewayInv'
<1>1. /\ GatewayTypeOK /\ CallInv /\ RouteInv /\ HandleTypeOK /\ RouterTypeOK /\ OtherTypeOK
      /\ Strategist \in Names /\ Strategist \notin Agents
  BY GatewayAssumption DEF GatewayInv, GatewayTypeOK, Names
<1>2. /\ Unregister(Strategist)
      /\ UNCHANGED <<sys, chan, registry, saved, talk, home, open, op, raised, overtaken, msg>>
  BY DEF RemoveProjectCmd, RemoveProject, tables, history
<1>3. /\ RouterTypeOK' /\ chanOf'[Strategist] = None
      /\ \A m \in Names : handleOf'[m] = IF m = Strategist THEN None ELSE handleOf[m]
      /\ \A x \in AllChannels : x # Home => ownerOf'[x] = ownerOf[x]
  BY <1>1, <1>2, GatewayAssumption
  DEF Unregister, RouterTypeOK, RouteInv, StrategistAtHome, AllChannels
<1>4. CallInv'
  BY <1>1, <1>2 DEF CallInv, ChannelsApart, CallsNameTheirs, Own, OwnIn
<1>5. ConfirmsOwn' /\ StrategistAtHome'
  BY <1>1, <1>2, <1>3 DEF RouteInv, ConfirmsOwn, StrategistAtHome
<1>6. \A m \in Names : Excused(m)' = Excused(m) /\ Confirming(m)' = Confirming(m)
  BY <1>2 DEF Excused, Pending, Confirming
<1>7. RouterFollows'
  BY <1>1, <1>2, <1>3, <1>6 DEF RouteInv, RouterFollows
<1>8. ~Reached(Strategist)'
  <2>1. Confirming(Strategist) = {}
    BY <1>1 DEF Confirming, RouteInv, ConfirmsOwn
  <2>2. QED BY <1>1, <1>3, <1>6, <2>1 DEF Reached
<1>9. OwnerKnown'
  <2> SUFFICES ASSUME NEW m \in Names, registry[m] # None, Reached(m)'
               PROVE  \/ Excused(m) \/ home[registry[m]] = None
                      \/ home[registry[m]] \in Own(m) /\ ownerOf'[home[registry[m]]] = m
    BY <1>2, <1>6 DEF OwnerKnown, Own
  <2>1. m # Strategist /\ Reached(m)
    BY <1>3, <1>6, <1>8 DEF Reached
  <2>2. \/ Excused(m) \/ home[registry[m]] = None
        \/ home[registry[m]] \in Own(m) /\ ownerOf[home[registry[m]]] = m
    BY <1>1, <2>1 DEF RouteInv, OwnerKnown
  <2>3. Own(Strategist) = {Home} /\ Own(m) \cap Own(Strategist) = {} /\ Own(m) \subseteq AllChannels
    BY <1>1, <2>1, OwnFacts DEF Own, OwnIn
  <2>4. QED BY <1>3, <2>2, <2>3
<1>10. GatewayTypeOK'
  BY <1>1, <1>2, <1>3 DEF GatewayTypeOK, HandleTypeOK, OtherTypeOK
<1>11. QED BY <1>4, <1>5, <1>7, <1>9, <1>10 DEF GatewayInv, RouteInv

\* The steps that only route a message.
Routes ==
  \/ \E ch \in AllChannels : HumanMessage(ch)
  \/ \E n, m \in Names : Report(n, m)
  \/ \E a \in Agents : GiveTask(a) \/ RelayChannelMessage(a) \/ ResolveReview(a)
  \/ Delivered

LEMMA RouteStep ==
  ASSUME GatewayInv, Routes
  PROVE  GatewayInv'
<1>1. UNCHANGED <<sys, chan, tables, router, op, history>> /\ msg' \in {"none", "routed"}
  BY DEF Routes, HumanMessage, Report, GiveTask, RelayChannelMessage, ResolveReview, Tell,
         Delivered, Deliver
<1>2. open' \subseteq Handles /\ talk' \in [Names -> Handles \cup {None}]
  BY <1>1 DEF tables, GatewayInv, GatewayTypeOK, HandleTypeOK
<1>3. QED BY <1>1, <1>2, SameStep DEF tables

\* The router is empty and the Strategist is being hired: the state in which
\* the daemon starts, for any workers that it found again.
LEMMA StartInv ==
  ASSUME HandleTypeOK', OtherTypeOK', ChannelsApart', NEW t \in Tasks,
         op' = [u \in Tasks |-> IF u = t THEN Start(sys') ELSE Idle],
         handleOf' = Empty(Names), chanOf' = Empty(Names), ownerOf' = Empty(AllChannels),
         talk' = registry'
  PROVE  GatewayInv'
<1>1. sys' \in {Home, None}
  BY DEF OtherTypeOK, SystemChannels
<1>2. /\ \A u \in Tasks : u # t => op'[u].at = "idle" /\ op'[u].name = None
      /\ op'[t].at = "spawn" /\ op'[t].name = Strategist /\ op'[t].ch = sys'
  BY DEF Start, Idle
<1>3. Strategist \in Names /\ Strategist # None
  BY GatewayAssumption DEF Names
<1>4. CallsNameTheirs'
  <2> SUFFICES ASSUME NEW u \in Tasks
               PROVE  /\ op'[u].at # "idle" => op'[u].name \in Names
                      /\ op'[u].at = "create" => op'[u].name \in Agents
                      /\ op'[u].at = "clone" => op'[u].name = Strategist
                      /\ op'[u].at = "respawn" => op'[u].h \in Handles
                      /\ op'[u].at \in {"create", "spawn", "confirm"} =>
                           op'[u].ch \in OwnIn(chan', op'[u].name) \cup {None}
    BY DEF CallsNameTheirs, Own
  <2>1. CASE u = t
    BY <1>1, <1>2, <1>3, <2>1 DEF OwnIn
  <2>2. CASE u # t
    BY <1>2, <2>2
  <2>3. QED BY <2>1, <2>2
<1>6. RouterTypeOK' /\ StrategistAtHome' /\ \A n \in Names : handleOf'[n] = None
  BY <1>3 DEF RouterTypeOK, StrategistAtHome, Empty
<1>7. ConfirmsOwn' /\ \A n \in Names : ~Reached(n)'
  BY <1>2, <1>6 DEF ConfirmsOwn, Reached, Confirming
<1>8. RouterFollows' /\ OwnerKnown'
  BY <1>6, <1>7 DEF RouterFollows, OwnerKnown
<1>9. QED
  BY <1>4, <1>6, <1>7, <1>8 DEF GatewayInv, GatewayTypeOK, CallInv, RouteInv

LEMMA RestartStep ==
  ASSUME GatewayInv, RestartDaemon
  PROVE  GatewayInv'
<1> DEFINE g == CHOOSE f \in [Names -> Handles] : IsInjective(f)
<1>1. /\ HandleTypeOK /\ chan \in [Agents -> Seq(Channels)] /\ ChannelsApart
  BY DEF GatewayInv, GatewayTypeOK, OtherTypeOK, CallInv
<1>2. g \in [Names -> Handles]
  BY EnoughHandles
<1> HIDE DEF g
<1>3. PICK alive \in SUBSET {n \in Names : saved[n] # "absent" /\ talk[n] # None},
           t \in Tasks :
    /\ sys' \in SystemChannels
    /\ registry' = [n \in Names |-> IF n \in alive THEN g[n] ELSE None]
    /\ talk' = registry'
    /\ saved' = [n \in Names |-> IF n \in alive THEN saved[n] ELSE "absent"]
    /\ home' = [h \in Handles |-> IF \E n \in alive : g[n] = h
                                  THEN saved[CHOOSE n \in alive : g[n] = h] ELSE None]
    /\ open' = {g[n] : n \in alive}
    /\ op' = [u \in Tasks |-> IF u = t THEN Start(sys') ELSE Idle]
    /\ handleOf' = Empty(Names) /\ chanOf' = Empty(Names) /\ ownerOf' = Empty(AllChannels)
    /\ raised' = {} /\ overtaken' = {} /\ msg' = "none" /\ UNCHANGED chan
  BY DEF RestartDaemon, g
<1>4. \A n \in alive : n \in Names /\ saved[n] \in AllChannels \cup {None}
  BY <1>1 DEF HandleTypeOK
<1>5. /\ registry' \in [Names -> Handles \cup {None}] /\ open' \subseteq Handles
      /\ saved' \in [Names -> AllChannels \cup {None, "absent"}]
  BY <1>2, <1>3, <1>4
<1>6. home' \in [Handles -> AllChannels \cup {None}]
  <2>1. ASSUME NEW h \in Handles, \E n \in alive : g[n] = h
        PROVE  saved[CHOOSE n \in alive : g[n] = h] \in AllChannels \cup {None}
    BY <1>4, <2>1
  <2>2. QED BY <1>3, <2>1
<1>7. HandleTypeOK'
  BY <1>3, <1>5, <1>6 DEF HandleTypeOK
<1>8. OtherTypeOK'
  <2>1. sys' \in {Home, None}
    BY <1>3 DEF SystemChannels
  <2>2. Idle \in Ops /\ Start(sys') \in Ops
    BY <2>1 DEF Start, Idle, Ops, Names, AllChannels
  <2>3. op' \in [Tasks -> Ops]
    BY <1>3, <2>2
  <2>4. QED BY <1>1, <1>3, <2>3 DEF OtherTypeOK
<1>9. ChannelsApart'
  BY <1>1, <1>3 DEF ChannelsApart
<1>10. QED BY <1>3, <1>7, <1>8, <1>9, StartInv

LEMMA GatewayInit == Init => GatewayInv
<1> SUFFICES ASSUME Init PROVE GatewayInv
  OBVIOUS
<1>1. PICK t \in Tasks : op = [u \in Tasks |-> IF u = t THEN Start(sys) ELSE Idle]
  BY DEF Init
<1>2. sys \in {Home, None} /\ Strategist \in Names /\ Strategist # None
  BY GatewayAssumption DEF Init, SystemChannels, Names
<1>3. /\ \A u \in Tasks : u # t => op[u].at = "idle" /\ op[u].name = None
      /\ op[t].at = "spawn" /\ op[t].name = Strategist /\ op[t].ch = sys
  BY <1>1 DEF Start, Idle
<1>4. HandleTypeOK /\ RouterTypeOK
  BY DEF Init, Empty, HandleTypeOK, RouterTypeOK
<1>5. OtherTypeOK
  <2>1. Idle \in Ops /\ Start(sys) \in Ops
    BY <1>2 DEF Start, Idle, Ops, AllChannels
  <2>2. op \in [Tasks -> Ops]
    BY <1>1, <2>1
  <2>3. chan \in [Agents -> Seq(Channels)]
    BY DEF Init
  <2>4. QED BY <2>2, <2>3 DEF Init, OtherTypeOK
<1>6. ChannelsApart
  BY DEF Init, ChannelsApart, Range
<1>7. CallsNameTheirs
  BY <1>2, <1>3 DEF CallsNameTheirs, Own, OwnIn
<1>8. ConfirmsOwn
  BY <1>3 DEF ConfirmsOwn
<1>9. RouterFollows /\ OwnerKnown /\ StrategistAtHome
  BY <1>2 DEF Init, Empty, RouterFollows, OwnerKnown, StrategistAtHome
<1>10. QED
  BY <1>4, <1>5, <1>6, <1>7, <1>8, <1>9 DEF GatewayInv, GatewayTypeOK, CallInv, RouteInv

LEMMA GatewayNext ==
  ASSUME GatewayInv, [Next]_vars
  PROVE  GatewayInv'
<1>1. CASE \E t \in Tasks : Prepares(t)
  BY <1>1, PrepareStep
<1>2. CASE \E t \in Tasks : Spawned(t) \/ Confirmed(t) \/ ConfirmRaises(t)
  BY <1>2, SpawnedStep, ConfirmedStep, ConfirmRaisesStep
<1>3. CASE \E t \in Tasks, a \in Agents : Dismiss(t, a)
  BY <1>3, DismissStep
<1>4. CASE \E t \in Tasks : Stopped(t) \/ Dispatch(t) \/ \E c \in BOOLEAN : Kill(t, c)
  BY <1>4, StopStep
<1>5. CASE \E a \in Agents : RelaunchCmd(a)
  BY <1>5, RelaunchStep
<1>6. CASE RemoveProjectCmd
  BY <1>6, RemoveStep
<1>7. CASE RestartDaemon
  BY <1>7, RestartStep
<1>8. CASE Routes
  BY <1>8, RouteStep
<1>9. CASE UNCHANGED vars
  <2>1. /\ UNCHANGED <<sys, chan, registry, saved, home, router, op, history>>
        /\ UNCHANGED <<open, talk, msg>>
    BY <1>9 DEF vars, tables
  <2>2. QED BY <2>1, SameStep DEF GatewayInv, GatewayTypeOK, HandleTypeOK, OtherTypeOK
<1>10. QED
  BY <1>1, <1>2, <1>3, <1>4, <1>5, <1>6, <1>7, <1>8, <1>9 DEF Next, Prepares, Routes

-----------------------------------------------------------------------------
(* The theorems.                                                           *)

\* However the calls about an agent overlap, registry, router, channels and
\* the calls in progress agree as GatewayInv says.
THEOREM GatewaySafety == Spec => []GatewayInv
<1>1. Init => GatewayInv
  BY GatewayInit
<1>2. GatewayInv /\ [Next]_vars => GatewayInv'
  BY GatewayNext
<1>3. QED BY <1>1, <1>2, PTL DEF Spec

\* What people write to an agent goes to the worker that CompanyRoot knows,
\* after any overlapping hires, kills, dismissals, dispatches and restarts,
\* unless its hire is not over or raised, or the router was told last by a
\* hire that a later one had overtaken.
THEOREM RouterAlwaysCurrent == Spec => []RouterCurrent
<1>1. GatewayInv => RouterCurrent
  BY DEF GatewayInv, RouteInv, RouterFollows, RouterCurrent, Excused
<1>2. QED BY <1>1, GatewaySafety, PTL

\* No agent receives its own output, if its worker answers on the handle in
\* the registry and the hire of that handle is over and did not raise.
THEOREM NeverEchoes == Spec => NoEcho
<1> DEFINE Silent == \A n \in Names :
             talk[n] = registry[n] /\ ~Pending(n) /\ registry[n] \notin raised => ~Report(n, n)
<1>1. GatewayInv => Silent
  <2> SUFFICES ASSUME GatewayInv, NEW n \in Names, talk[n] = registry[n], ~Pending(n),
                      registry[n] \notin raised, Report(n, n)
               PROVE  FALSE
    OBVIOUS
  <2>1. /\ registry[n] \in open /\ home[registry[n]] # None /\ handleOf[n] # None
        /\ n # ownerOf[home[registry[n]]]
    BY DEF Report
  <2>2. registry[n] # None /\ Reached(n) /\ ~Excused(n)
    BY <2>1, GatewayAssumption
    DEF GatewayInv, GatewayTypeOK, HandleTypeOK, Reached, Excused
  <2>3. QED BY <2>1, <2>2 DEF GatewayInv, RouteInv, OwnerKnown
<1>2. GatewayInv => [Silent]_vars
  BY <1>1
<1>3. QED BY <1>2, GatewaySafety, PTL DEF NoEcho
=============================================================================
