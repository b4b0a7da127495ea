--------------------------- MODULE CompanyProofs ----------------------------
(***************************************************************************)
(* The schedules and the watch of CompanyRoot, for any number of agents    *)
(* and calls.                                                              *)
(*                                                                         *)
(* That an acknowledged schedule survives rests on the order in which the  *)
(* connection's thread serves its queue: once the statement of an add has  *)
(* been executed, neither the row nor any statement still queued can lack  *)
(* the entry, unless another call that failed took it back (Kept,          *)
(* CommitSafe, Coming).  That the stored row is current   *)
(* rests on two facts about the same queue: the last statement in it is    *)
(* what the scheduler holds (Newest), and a row that was not committed has *)
(* a commit or a close coming (Uncommitted).                               *)
(***************************************************************************)
EXTENDS Company, TLAPS

Rows == [Agents -> Nat]
Calls == [kind : {"write", "commit", "close"}, user : Users,
          op : {"add", "remove", "pass", "close"}, row : Rows]

StoreTypes ==
  /\ mem \in Rows /\ table \in Rows /\ stored \in Rows
  /\ now \in Nat
  /\ sched \in [at : {"off", "sleep", "pass", "persist"}, todo : SUBSET Agents, now : Nat]
  /\ at \in [Users -> {"idle", "write", "commit"}]
  /\ queue \in Seq(Calls)
  /\ open \in BOOLEAN
  /\ acked \subseteq Agents

\* A store that is closed has nothing to do; neither has a process that is
\* not there.
ClosedIsIdle ==
  /\ ~open => queue = <<>> /\ at[Loop] = "idle"
  /\ phase = "off" => ~open

Index == 1 .. Len(queue)
Closing == \E i \in Index : queue[i].kind = "close"

\* A queued call is the one its caller waits for, and the only one, unless it
\* is a call of the pass that was cancelled.
Awaited ==
  \A i \in Index :
    (queue[i].user \in Agents \/ ~Closing) =>
      /\ queue[i].kind = at[queue[i].user]
      /\ \A j \in Index : queue[j].user = queue[i].user => j = i

AddsByAgents == \A i \in Index : queue[i].op = "add" => queue[i].user \in Agents

\* The pass waits for its call, and the scheduler is off before the close.
PassWaits ==
  /\ at[Loop] # "idle" => sched.at = "persist"
  /\ Closing => sched.at = "off"

\* No row that is or will be written lacks the schedule of a.
Safe(a) ==
  /\ mem[a] # 0 /\ table[a] # 0
  /\ \A i \in Index : queue[i].kind = "write" => queue[i].row[a] # 0

Kept == open => \A a \in acked : Safe(a)

CommitSafe ==
  \A i \in Index, a \in Agents :
    (queue[i].kind = "commit" /\ queue[i].op = "add" /\ queue[i].user = a /\ a \notin rolled)
      => Safe(a)

Coming ==
  \A i \in Index :
    (queue[i].kind = "write" /\ queue[i].op = "add") =>
      /\ mem[queue[i].user] # 0
      /\ \A j \in Index : (j >= i /\ queue[j].kind = "write") => queue[j].row[queue[i].user] # 0

Newest ==
  /\ (open /\ ~unsaved /\ \A i \in Index : queue[i].kind # "write") => table = mem
  /\ \A i \in Index :
       (queue[i].kind = "write" /\ \A j \in Index : j > i => queue[j].kind # "write")
         => queue[i].row = mem

Uncommitted ==
  (open /\ ~unsaved /\ table # stored) => \E i \in Index : queue[i].kind \in {"commit", "close"}

QueueInv == Awaited /\ AddsByAgents /\ PassWaits
KeptInv == Kept /\ CommitSafe /\ Coming /\ AckedSurvives
CurrentInv == Newest /\ Uncommitted
StoreInv == StoreTypes /\ ClosedIsIdle /\ QueueInv /\ KeptInv /\ CurrentInv

-----------------------------------------------------------------------------
LEMMA UserFacts == Loop \in Users /\ Loop \notin Agents /\ Agents \subseteq Users
BY CompanyAssumption DEF Users, Loop

LEMMA AppendFacts ==
  ASSUME NEW S, NEW q \in Seq(S), NEW c \in S
  PROVE  /\ Append(q, c) \in Seq(S)
         /\ Len(q) \in Nat
         /\ Len(Append(q, c)) = Len(q) + 1
         /\ \A i \in 1 .. Len(q) : Append(q, c)[i] = q[i]
         /\ Append(q, c)[Len(q) + 1] = c
OBVIOUS

LEMMA TailFacts ==
  ASSUME NEW S, NEW q \in Seq(S), q # <<>>
  PROVE  /\ Tail(q) \in Seq(S)
         /\ Len(q) \in Nat /\ Len(q) > 0
         /\ Head(q) = q[1] /\ q[1] \in S
         /\ Len(Tail(q)) = Len(q) - 1
         /\ \A i \in 1 .. Len(q) - 1 : Tail(q)[i] = q[i + 1]
OBVIOUS

LEMMA StoreInitInv == Init => StoreInv
<1>1. SUFFICES ASSUME Init PROVE StoreInv OBVIOUS
<1>2. NoSchedules \in Rows BY DEF NoSchedules, Rows
<1>3. StoreTypes
  <2>1. at \in [Users -> {"idle", "write", "commit"}]
    BY <1>1 DEF Init, Idle
  <2>2. queue \in Seq(Calls)
    BY <1>1 DEF Init
  <2>3. sched \in [at : {"off", "sleep", "pass", "persist"}, todo : SUBSET Agents, now : Nat]
    BY <1>1 DEF Init
  <2>4. QED BY <1>1, <1>2, <2>1, <2>2, <2>3 DEF Init, StoreTypes
<1>4. Index = {} /\ ~open /\ at[Loop] = "idle" /\ sched.at = "off" /\ acked = {}
  BY <1>1, UserFacts DEF Init, Index, Idle
<1>5. ClosedIsIdle BY <1>1, <1>4 DEF Init, ClosedIsIdle
<1>6. QueueInv BY <1>4 DEF QueueInv, Awaited, AddsByAgents, PassWaits, Closing
<1>7. KeptInv /\ CurrentInv
  BY <1>4 DEF KeptInv, CurrentInv, Kept, CommitSafe, Coming, AckedSurvives, Newest, Uncommitted
<1>8. QED BY <1>3, <1>5, <1>6, <1>7 DEF StoreInv

\* Steps that leave the store and the schedules alone.
LEMMA StoreFrame ==
  ASSUME StoreInv, UNCHANGED <<mem, at, queue, open, table, stored, history>>,
         phase' = "off" => phase = "off", now' \in Nat,
         sched' \in [at : {"off", "sleep", "pass", "persist"}, todo : SUBSET Agents, now : Nat],
         at[Loop] # "idle" => sched'.at = "persist",
         Closing => sched'.at = "off"
  PROVE  StoreInv'
<1>0. UNCHANGED <<acked, rolled, unsaved>> BY DEF history
<1>1. StoreTypes' BY <1>0 DEF StoreInv, StoreTypes
<1>2. ClosedIsIdle' BY DEF StoreInv, ClosedIsIdle
<1>3. QueueInv'
  BY DEF StoreInv, QueueInv, Awaited, AddsByAgents, PassWaits, Closing, Index
<1>4. KeptInv'
  BY <1>0 DEF StoreInv, KeptInv, Kept, CommitSafe, Coming, AckedSurvives, Safe, Index
<1>5. CurrentInv'
  BY <1>0 DEF StoreInv, CurrentInv, Newest, Uncommitted, Index
<1>6. QED BY <1>1, <1>2, <1>3, <1>4, <1>5 DEF StoreInv

\* A closed store: whatever was in memory is lost or will be loaded again.
LEMMA StoreClosed ==
  ASSUME StoreInv, StoreTypes', ~open', queue' = <<>>, at'[Loop] = "idle",
         acked' \subseteq acked, stored' = stored
  PROVE  StoreInv'
<1>1. Index' = {} BY DEF Index
<1>2. ClosedIsIdle' BY DEF ClosedIsIdle
<1>3. QueueInv' BY <1>1 DEF QueueInv, Awaited, AddsByAgents, PassWaits, Closing
<1>4. KeptInv'
  BY <1>1 DEF StoreInv, KeptInv, Kept, CommitSafe, Coming, AckedSurvives
<1>5. CurrentInv' BY <1>1 DEF CurrentInv, Newest, Uncommitted
<1>6. QED BY <1>2, <1>3, <1>4, <1>5 DEF StoreInv

\* A statement with the schedules as they are is queued by a caller that
\* waits for nothing else.
LEMMA Enqueued ==
  ASSUME StoreInv, StoreTypes', open, NEW u \in Users, at[u] = "idle",
         NEW op \in {"add", "remove", "pass"},
         op = "add" => u \in Agents /\ mem'[u] # 0,
         queue' = Append(queue, Write(u, op, mem')),
         at' = [at EXCEPT ![u] = "write"],
         u = Loop => sched.at = "pass" /\ sched'.at = "persist",
         u # Loop => sched' = sched,
         phase' = phase,
         acked' \subseteq acked,
         \A b \in Agents : (mem[b] # 0 /\ (b # u \/ b \in acked')) => mem'[b] # 0,
         UNCHANGED <<open, table, stored, rolled, unsaved>>
  PROVE  StoreInv'
<1> DEFINE c == Write(u, op, mem')
           n == Len(queue)
<1>1. /\ c \in Calls /\ c.kind = "write" /\ c.user = u /\ c.op = op /\ c.row = mem'
  BY DEF Write, Calls, StoreTypes
<1>2. /\ n \in Nat /\ Len(queue') = n + 1 /\ queue'[n + 1] = c
      /\ \A i \in 1 .. n : queue'[i] = queue[i]
  BY <1>1, AppendFacts DEF StoreInv, StoreTypes
<1> HIDE DEF c, n
<1>3. Index = 1 .. n /\ Index' = Index \cup {n + 1} /\ n + 1 \notin Index
      /\ \A i \in Index : i < n + 1 /\ i \in Int
  BY <1>2 DEF Index, n
<1>4. \A i \in Index : queue'[i] = queue[i] /\ queue[i] \in Calls
  BY <1>2, <1>3 DEF StoreInv, StoreTypes, n
<1>5. Closing' <=> Closing
  BY <1>1, <1>2, <1>3, <1>4 DEF Closing
<1>6. Closing => u # Loop
  BY DEF StoreInv, QueueInv, PassWaits
<1>7. \A i \in Index : queue[i].user = u => FALSE
  <2>1. SUFFICES ASSUME NEW i \in Index, queue[i].user = u PROVE FALSE OBVIOUS
  <2>2. u \in Agents \/ ~Closing
    BY <1>6 DEF Users
  <2>3. queue[i].kind = "idle"
    BY <2>1, <2>2 DEF StoreInv, QueueInv, Awaited
  <2>4. QED BY <2>1, <2>3, <1>4 DEF Calls
<1>8. at'[u] = "write" /\ \A v \in Users : v # u => at'[v] = at[v]
  BY DEF StoreInv, StoreTypes
<1>9. ClosedIsIdle' BY DEF StoreInv, ClosedIsIdle
<1>10. Awaited'
  <2>1. SUFFICES ASSUME NEW i \in Index', queue'[i].user \in Agents \/ ~Closing
                 PROVE  /\ queue'[i].kind = at'[queue'[i].user]
                        /\ \A j \in Index' : queue'[j].user = queue'[i].user => j = i
    BY <1>5 DEF Awaited
  <2>2. CASE i = n + 1
    BY <2>2, <1>1, <1>2, <1>3, <1>4, <1>7, <1>8
  <2>3. CASE i \in Index
    <3>1. queue[i].user \in Users /\ queue[i].user # u
      BY <2>3, <1>4, <1>7 DEF Calls
    <3>2. queue[i].kind = at[queue[i].user]
          /\ \A j \in Index : queue[j].user = queue[i].user => j = i
      BY <2>1, <2>3, <1>4 DEF StoreInv, QueueInv, Awaited
    <3>3. QED BY <2>3, <3>1, <3>2, <1>1, <1>2, <1>3, <1>4, <1>8
  <2>4. QED BY <2>2, <2>3, <1>3
<1>11. AddsByAgents'
  BY <1>1, <1>2, <1>3, <1>4 DEF StoreInv, QueueInv, AddsByAgents
<1>12. PassWaits'
  BY <1>5, <1>6, <1>8, UserFacts DEF StoreInv, QueueInv, PassWaits
<1>13. ASSUME NEW a \in Agents, a # u \/ a \in acked', Safe(a) PROVE Safe(a)'
  BY <1>13, <1>1, <1>2, <1>3, <1>4 DEF Safe
<1>14. Kept'
  BY <1>13, UserFacts DEF StoreInv, KeptInv, Kept, StoreTypes
<1>15. CommitSafe'
  <2>1. SUFFICES ASSUME NEW i \in Index', NEW a \in Agents, queue'[i].kind = "commit",
                        queue'[i].op = "add", queue'[i].user = a, a \notin rolled'
                 PROVE  Safe(a)'
    BY DEF CommitSafe
  <2>2. i \in Index BY <2>1, <1>1, <1>2, <1>3
  <2>3. a # u /\ Safe(a)
    BY <2>1, <2>2, <1>4, <1>7 DEF StoreInv, KeptInv, CommitSafe
  <2>4. QED BY <2>3, <1>13
<1>16. Coming'
  <2>1. SUFFICES ASSUME NEW i \in Index', queue'[i].kind = "write", queue'[i].op = "add"
                 PROVE  /\ mem'[queue'[i].user] # 0
                        /\ \A j \in Index' : (j >= i /\ queue'[j].kind = "write")
                             => queue'[j].row[queue'[i].user] # 0
    BY DEF Coming
  <2>2. CASE i = n + 1
    BY <2>1, <2>2, <1>1, <1>2, <1>3
  <2>3. CASE i \in Index
    <3>1. queue'[i] = queue[i] /\ queue[i].user \in Agents /\ queue[i].user # u
          /\ mem[queue[i].user] # 0
      BY <2>1, <2>3, <1>4, <1>7 DEF StoreInv, QueueInv, KeptInv, AddsByAgents, Coming
    <3>2. mem'[queue[i].user] # 0
      BY <3>1
    <3>3. QED BY <2>1, <2>3, <3>1, <3>2, <1>1, <1>2, <1>3, <1>4 DEF StoreInv, KeptInv, Coming
  <2>4. QED BY <2>2, <2>3, <1>3
<1>17. CurrentInv'
  <2>1. Newest'
    BY <1>1, <1>2, <1>3, <1>4 DEF Newest
  <2>2. Uncommitted'
    BY <1>3, <1>4 DEF StoreInv, CurrentInv, Uncommitted
  <2>3. QED BY <2>1, <2>2 DEF CurrentInv
<1>18. AckedSurvives' BY DEF StoreInv, KeptInv, AckedSurvives
<1>19. QED
  BY <1>9, <1>10, <1>11, <1>12, <1>14, <1>15, <1>16, <1>17, <1>18 DEF StoreInv, QueueInv, KeptInv
\* A call other than a close leaves the head of the queue; at most the commit
\* that its caller asks for is queued behind the others.
LEMMA Shifted ==
  ASSUME StoreInv, queue # <<>>, queue[1].kind # "close", queue' \in Seq(Calls),
         Len(queue') \in {Len(queue) - 1, Len(queue)},
         \A i \in 1 .. Len(queue) - 1 : queue'[i] = queue[i + 1],
         Len(queue') = Len(queue) =>
           /\ queue'[Len(queue)].kind = "commit" /\ at'[queue[1].user] = "commit"
           /\ queue'[Len(queue)].user = queue[1].user /\ queue'[Len(queue)].op = queue[1].op,
         \A v \in Users : v # queue[1].user => at'[v] = at[v]
  PROVE  /\ 1 \in Index
         /\ \A i \in Index' : /\ i \in Nat /\ i # Len(queue) => i + 1 \in Index /\ i + 1 > 1
                                                               /\ queue'[i] = queue[i + 1]
                              /\ i = Len(queue) => Len(queue') = Len(queue)
         /\ \A i \in Index : i = 1 \/ (i - 1 \in Index' /\ i - 1 # Len(queue) /\ queue'[i - 1] = queue[i])
         /\ Closing' <=> Closing
         /\ Awaited' /\ AddsByAgents'
<1> DEFINE n == Len(queue)
<1>1. n \in Nat /\ n > 0 /\ queue \in Seq(Calls) /\ Len(queue') \in Nat
  BY DEF StoreInv, StoreTypes
<1>2. 1 \in Index BY <1>1 DEF Index
<1>3. \A i \in Index' : /\ i \in Nat /\ i # n => i + 1 \in Index /\ i + 1 > 1
                                                 /\ queue'[i] = queue[i + 1]
                        /\ i = n => Len(queue') = n
  BY <1>1 DEF Index
<1>4. \A i \in Index : i = 1 \/ (i - 1 \in Index' /\ i - 1 # n /\ queue'[i - 1] = queue[i])
  BY <1>1 DEF Index
<1>5. \A i \in Index : queue[i].user \in Users
  <2>1. \A i \in Index : queue[i] \in Calls
    BY <1>1 DEF Index
  <2>2. QED BY <2>1 DEF Calls
<1>6. \A i \in Index' : i \in Nat
  BY <1>1 DEF Index
<1> HIDE DEF n
<1>7. Closing => Closing'
  BY <1>2, <1>4 DEF Closing
<1>8. Closing' => Closing
  BY <1>3, <1>6 DEF Closing, n
<1>9. Awaited'
  <2>1. SUFFICES ASSUME NEW i \in Index', queue'[i].user \in Agents \/ ~Closing
                 PROVE  /\ queue'[i].kind = at'[queue'[i].user]
                        /\ \A j \in Index' : queue'[j].user = queue'[i].user => j = i
    BY <1>7, <1>8 DEF Awaited
  <2>2. ASSUME NEW k \in Index, queue[k].user \in Agents \/ ~Closing
        PROVE  /\ queue[k].kind = at[queue[k].user]
               /\ \A j \in Index : queue[j].user = queue[k].user => j = k
    BY <2>2 DEF StoreInv, QueueInv, Awaited
  <2>3. CASE i = n
    <3>1. queue'[i].kind = "commit" /\ queue'[i].user = queue[1].user
          /\ at'[queue[1].user] = "commit"
      BY <1>3, <2>3 DEF n
    <3>2. ASSUME NEW j \in Index', queue'[j].user = queue'[i].user, j # n PROVE FALSE
      <4>1. j + 1 \in Index /\ j + 1 > 1 /\ queue'[j] = queue[j + 1]
        BY <3>2, <1>3, <1>6
      <4>2. j + 1 = 1
        BY <4>1, <3>1, <3>2, <2>1, <2>2, <1>2
      <4>3. QED BY <4>1, <4>2
    <3>3. QED BY <3>1, <3>2, <2>3
  <2>4. CASE i # n
    <3>1. i + 1 \in Index /\ i + 1 > 1 /\ queue'[i] = queue[i + 1] /\ i \in Nat
      BY <2>4, <1>3, <1>6
    <3>2. queue[1].user # queue[i + 1].user
      BY <3>1, <2>1, <2>2, <1>2
    <3>3. queue'[i].kind = at'[queue'[i].user]
      BY <3>1, <3>2, <2>1, <2>2, <1>5
    <3>4. ASSUME NEW j \in Index', queue'[j].user = queue'[i].user PROVE j = i
      <4>1. j # n
        BY <3>1, <3>2, <3>4, <1>3 DEF n
      <4>2. j + 1 \in Index /\ queue'[j] = queue[j + 1] /\ j \in Nat
        BY <4>1, <1>3, <1>6
      <4>3. j + 1 = i + 1
        BY <4>2, <3>1, <3>4, <2>1, <2>2
      <4>4. QED BY <4>2, <4>3, <3>1
    <3>5. QED BY <3>3, <3>4
  <2>5. QED BY <2>3, <2>4
<1>10. AddsByAgents'
  BY <1>2, <1>3, <1>6 DEF StoreInv, QueueInv, AddsByAgents, n
<1>11. QED BY <1>2, <1>3, <1>4, <1>6, <1>7, <1>8, <1>9, <1>10 DEF n

\* A statement replaces the row; its caller, unless it was cancelled, queues
\* the commit.
LEMMA StatementDone ==
  ASSUME StoreInv, WriteDone PROVE StoreInv'
<1> DEFINE c == queue[1]
           n == Len(queue)
           d == [c EXCEPT !.kind = "commit"]
<1>1. /\ queue # <<>> /\ queue \in Seq(Calls) /\ c.kind = "write" /\ Head(queue) = c
      /\ n \in Nat /\ n > 0 /\ c \in Calls
      /\ Tail(queue) \in Seq(Calls) /\ Len(Tail(queue)) = n - 1
      /\ \A i \in 1 .. n - 1 : Tail(queue)[i] = queue[i + 1]
  BY TailFacts DEF WriteDone, NextCall, StoreInv, StoreTypes
<1>2. open /\ open' = open /\ table' = c.row /\ stored' = stored /\ mem' = mem
      /\ sched' = sched /\ phase' = phase /\ acked' = acked /\ now' = now /\ rolled' = rolled
  BY <1>1 DEF WriteDone, StoreInv, ClosedIsIdle, schedVars, rootVars
<1>3. c.user \in Users /\ c.row \in Rows
  BY <1>1 DEF Calls
<1>4. d \in Calls /\ d.kind = "commit" /\ d.user = c.user /\ d.op = c.op
  BY <1>1 DEF Calls
<1>5. /\ queue' \in Seq(Calls)
      /\ \A i \in 1 .. n - 1 : queue'[i] = queue[i + 1]
      /\ \/ at[c.user] = "write" /\ Len(queue') = n /\ queue'[n] = d
            /\ at' = [at EXCEPT ![c.user] = "commit"]
         \/ at[c.user] # "write" /\ Len(queue') = n - 1 /\ at' = at
  <2>1. CASE at[c.user] = "write"
    <3>1. queue' = Append(Tail(queue), d) /\ at' = [at EXCEPT ![c.user] = "commit"]
      BY <1>1, <2>1 DEF WriteDone
    <3>2. Len(Tail(queue)) + 1 = n BY <1>1
    <3> HIDE DEF d
    <3>3. QED BY <1>1, <1>4, <2>1, <3>1, <3>2, AppendFacts
  <2>2. CASE at[c.user] # "write"
    BY <1>1, <2>2 DEF WriteDone
  <2>3. QED BY <2>1, <2>2
<1> HIDE DEF d
<1>6. /\ at' \in [Users -> {"idle", "write", "commit"}]
      /\ \A v \in Users : v # c.user => at'[v] = at[v]
      /\ Len(queue') = n => at'[c.user] = "commit" /\ queue'[n] = d /\ at[c.user] = "write"
  <2>1. at \in [Users -> {"idle", "write", "commit"}] BY DEF StoreInv, StoreTypes
  <2>2. CASE at[c.user] = "write"
    BY <2>1, <2>2, <1>3, <1>5
  <2>3. CASE at[c.user] # "write"
    <3>1. Len(queue') = n - 1 BY <2>3, <1>5
    <3>2. Len(queue') # n BY <3>1, <1>1
    <3>3. QED BY <2>1, <2>3, <3>2, <1>5
  <2>4. QED BY <2>2, <2>3
<1>7. /\ 1 \in Index
      /\ \A i \in Index' : /\ i \in Nat /\ i # n => i + 1 \in Index /\ i + 1 > 1
                                                    /\ queue'[i] = queue[i + 1]
                           /\ i = n => Len(queue') = n
      /\ \A i \in Index : i = 1 \/ (i - 1 \in Index' /\ i - 1 # n /\ queue'[i - 1] = queue[i])
      /\ Closing' <=> Closing
      /\ Awaited' /\ AddsByAgents'
  BY <1>1, <1>4, <1>5, <1>6, Shifted
<1>8. \A i \in Index' : i \in Nat /\ (i = n => queue'[i] = d)
  BY <1>5, <1>6, <1>7 DEF Index, StoreTypes
<1> HIDE DEF n
<1>9. StoreTypes'
  BY <1>2, <1>3, <1>5, <1>6 DEF StoreInv, StoreTypes
<1>10. ClosedIsIdle'
  BY <1>2 DEF StoreInv, ClosedIsIdle
<1>11. PassWaits'
  BY <1>2, <1>5, <1>6, <1>7, UserFacts DEF StoreInv, QueueInv, PassWaits, StoreTypes
<1>12. ASSUME NEW a, Safe(a) PROVE Safe(a)'
  BY <1>1, <1>2, <1>4, <1>7, <1>8, <1>12 DEF Safe
<1>13. Kept'
  BY <1>2, <1>12 DEF StoreInv, KeptInv, Kept
<1>14. CommitSafe'
  <2>1. SUFFICES ASSUME NEW i \in Index', NEW a \in Agents, queue'[i].kind = "commit",
                        queue'[i].op = "add", queue'[i].user = a, a \notin rolled'
                 PROVE  Safe(a)'
    BY DEF CommitSafe
  <2>2. CASE i # n
    <3>1. i + 1 \in Index /\ queue'[i] = queue[i + 1] /\ a \notin rolled
      BY <2>1, <2>2, <1>2, <1>7, <1>8
    <3>2. Safe(a)
      BY <2>1, <3>1 DEF StoreInv, KeptInv, CommitSafe
    <3>3. QED BY <3>2, <1>12
  <2>3. CASE i = n
    <3>1. c.op = "add" /\ c.user = a
      BY <2>1, <2>3, <1>4, <1>8
    <3>2. mem[a] # 0 /\ c.row[a] # 0
          /\ \A j \in Index : (j >= 1 /\ queue[j].kind = "write") => queue[j].row[a] # 0
      BY <3>1, <1>1, <1>7 DEF StoreInv, KeptInv, Coming
    <3>3. QED BY <3>2, <1>2, <1>4, <1>7, <1>8 DEF Safe
  <2>4. QED BY <2>2, <2>3
<1>15. Coming'
  <2>1. SUFFICES ASSUME NEW i \in Index', queue'[i].kind = "write", queue'[i].op = "add"
                 PROVE  /\ mem'[queue'[i].user] # 0
                        /\ \A j \in Index' : (j >= i /\ queue'[j].kind = "write")
                             => queue'[j].row[queue'[i].user] # 0
    BY DEF Coming
  <2>2. i # n BY <2>1, <1>4, <1>8
  <2>3. i + 1 \in Index /\ queue'[i] = queue[i + 1] /\ i \in Nat
    BY <2>2, <1>7, <1>8
  <2>4. mem[queue[i + 1].user] # 0
        /\ \A j \in Index : (j >= i + 1 /\ queue[j].kind = "write")
                              => queue[j].row[queue[i + 1].user] # 0
    BY <2>1, <2>3 DEF StoreInv, KeptInv, Coming
  <2>5. ASSUME NEW j \in Index', j >= i, queue'[j].kind = "write"
        PROVE  queue'[j].row[queue'[i].user] # 0
    <3>1. j # n BY <2>5, <1>4, <1>8
    <3>2. j + 1 \in Index /\ queue'[j] = queue[j + 1] /\ j \in Nat /\ j + 1 >= i + 1
      BY <3>1, <2>3, <2>5, <1>7, <1>8
    <3>3. QED BY <3>2, <2>3, <2>4, <2>5
  <2>6. QED BY <2>3, <2>4, <2>5, <1>2
<1>16. AckedSurvives'
  BY <1>2 DEF StoreInv, KeptInv, AckedSurvives
<1>17. Newest'
  <2>1. ASSUME \A i \in Index' : queue'[i].kind # "write" PROVE table' = mem'
    <3>1. \A j \in Index : j > 1 => queue[j].kind # "write"
      BY <2>1, <1>7
    <3>2. QED BY <3>1, <1>1, <1>2, <1>7 DEF StoreInv, CurrentInv, Newest
  <2>2. ASSUME NEW i \in Index', queue'[i].kind = "write",
               \A j \in Index' : j > i => queue'[j].kind # "write"
        PROVE  queue'[i].row = mem'
    <3>1. i # n BY <2>2, <1>4, <1>8
    <3>2. i + 1 \in Index /\ queue'[i] = queue[i + 1] /\ i \in Nat
      BY <3>1, <1>7, <1>8
    <3>3. ASSUME NEW j \in Index, j > i + 1 PROVE queue[j].kind # "write"
      <4>1. j # 1 /\ j \in Int BY <3>2, <3>3 DEF Index
      <4>2. j - 1 \in Index' /\ queue'[j - 1] = queue[j] /\ j - 1 > i
        BY <4>1, <3>2, <3>3, <1>7
      <4>3. QED BY <4>2, <2>2
    <3>4. QED BY <3>2, <3>3, <2>2, <1>2 DEF StoreInv, CurrentInv, Newest
  <2>3. QED BY <2>1, <2>2 DEF Newest
<1>18. Uncommitted'
  <2>1. CASE at[c.user] = "write"
    <3>1. n \in Index' /\ queue'[n].kind = "commit"
      BY <1>1, <1>4, <1>5, <2>1 DEF Index, n
    <3>2. QED BY <3>1 DEF Uncommitted
  <2>2. CASE at[c.user] # "write"
    <3>1. Closing
      BY <2>2, <1>1, <1>7 DEF StoreInv, QueueInv, Awaited
    <3>2. QED BY <3>1, <1>7 DEF Uncommitted, Closing
  <2>3. QED BY <2>1, <2>2
<1>19. QED
  BY <1>7, <1>9, <1>10, <1>11, <1>13, <1>14, <1>15, <1>16, <1>17, <1>18
     DEF StoreInv, QueueInv, KeptInv, CurrentInv

\* The commit makes the row what a restart finds, and the caller returns.
LEMMA Committed ==
  ASSUME StoreInv, CommitDone PROVE StoreInv'
<1> DEFINE c == queue[1]
           n == Len(queue)
<1>1. /\ queue # <<>> /\ queue \in Seq(Calls) /\ c.kind = "commit" /\ Head(queue) = c
      /\ n \in Nat /\ n > 0 /\ c \in Calls
      /\ queue' \in Seq(Calls) /\ Len(queue') = n - 1 /\ Len(queue') # n
      /\ \A i \in 1 .. n - 1 : queue'[i] = queue[i + 1]
  BY TailFacts DEF CommitDone, NextCall, StoreInv, StoreTypes
<1>2. open /\ open' = open /\ table' = table /\ stored' = table /\ mem' = mem
      /\ phase' = phase /\ now' = now /\ unsaved' = unsaved
  BY <1>1 DEF CommitDone, StoreInv, ClosedIsIdle, rootVars
<1>3. c.user \in Users
  BY <1>1 DEF Calls
<1>4. /\ at' = [at EXCEPT ![c.user] = "idle"]
      /\ acked' = IF c.op = "add" /\ c.user \notin rolled THEN acked \cup {c.user} ELSE acked
      /\ rolled' = rolled \ {c.user}
      /\ sched' = IF at[c.user] # "idle" /\ c.user = Loop
                  THEN [sched EXCEPT !.at = "pass"] ELSE sched
  BY <1>1 DEF CommitDone, Returned
<1>5. /\ at' \in [Users -> {"idle", "write", "commit"}]
      /\ at'[c.user] = "idle"
      /\ \A v \in Users : v # c.user => at'[v] = at[v]
  BY <1>3, <1>4 DEF StoreInv, StoreTypes
<1>6. /\ 1 \in Index
      /\ \A i \in Index' : /\ i \in Nat /\ i # n => i + 1 \in Index /\ i + 1 > 1
                                                    /\ queue'[i] = queue[i + 1]
                           /\ i = n => Len(queue') = n
      /\ \A i \in Index : i = 1 \/ (i - 1 \in Index' /\ i - 1 # n /\ queue'[i - 1] = queue[i])
      /\ Closing' <=> Closing
      /\ Awaited' /\ AddsByAgents'
  BY <1>1, <1>5, Shifted
<1>7. \A i \in Index' : i \in Nat /\ i + 1 \in Index /\ i + 1 > 1 /\ queue'[i] = queue[i + 1]
  <2>1. \A i \in Index' : i \in Nat BY <1>1 DEF Index
  <2>2. QED BY <2>1, <1>1, <1>6
<1>8. c.op = "add" => c.user \in Agents /\ (c.user \notin rolled => Safe(c.user))
  BY <1>1, <1>6 DEF StoreInv, QueueInv, AddsByAgents, KeptInv, CommitSafe
<1> HIDE DEF n
<1>9. StoreTypes'
  <2>1. sched' \in [at : {"off", "sleep", "pass", "persist"}, todo : SUBSET Agents, now : Nat]
    BY <1>4 DEF StoreInv, StoreTypes
  <2>2. acked' \subseteq Agents
    BY <1>4, <1>8 DEF StoreInv, StoreTypes
  <2>3. QED BY <1>1, <1>2, <1>5, <2>1, <2>2 DEF StoreInv, StoreTypes
<1>10. ClosedIsIdle'
  BY <1>2 DEF StoreInv, ClosedIsIdle
<1>11. PassWaits'
  <2>1. CASE at[c.user] # "idle" /\ c.user = Loop
    BY <2>1, <1>4, <1>5, <1>6 DEF StoreInv, QueueInv, PassWaits
  <2>2. CASE ~(at[c.user] # "idle" /\ c.user = Loop)
    BY <2>2, <1>4, <1>5, <1>6, UserFacts DEF StoreInv, QueueInv, PassWaits
  <2>3. QED BY <2>1, <2>2
<1>12. ASSUME NEW a, Safe(a) PROVE Safe(a)'
  BY <1>2, <1>7, <1>12 DEF Safe
<1>13. \A a \in acked' : Safe(a)
  BY <1>2, <1>4, <1>8 DEF StoreInv, KeptInv, Kept
<1>14. Kept' /\ AckedSurvives'
  BY <1>2, <1>12, <1>13 DEF Kept, AckedSurvives, Safe
<1>15. CommitSafe'
  <2>1. SUFFICES ASSUME NEW i \in Index', NEW a \in Agents, queue'[i].kind = "commit",
                        queue'[i].op = "add", queue'[i].user = a, a \notin rolled'
                 PROVE  Safe(a)'
    BY DEF CommitSafe
  <2>2. i + 1 \in Index /\ queue'[i] = queue[i + 1] /\ i + 1 # 1
    BY <1>7
  <2>3. a # c.user
    BY <2>1, <2>2, <1>6 DEF StoreInv, QueueInv, Awaited
  <2>4. a \notin rolled
    BY <2>1, <2>3, <1>4
  <2>5. QED BY <2>1, <2>2, <2>4, <1>12 DEF StoreInv, KeptInv, CommitSafe
<1>16. Coming'
  BY <1>2, <1>7 DEF StoreInv, KeptInv, Coming
<1>17. Newest'
  <2>1. ASSUME ~unsaved', \A i \in Index' : queue'[i].kind # "write" PROVE table' = mem'
    <3>1. \A j \in Index : queue[j].kind # "write"
      BY <2>1, <1>1, <1>6
    <3>2. QED BY <2>1, <3>1, <1>2 DEF StoreInv, CurrentInv, Newest
  <2>2. ASSUME NEW i \in Index', queue'[i].kind = "write",
               \A j \in Index' : j > i => queue'[j].kind # "write"
        PROVE  queue'[i].row = mem'
    <3>1. i + 1 \in Index /\ queue'[i] = queue[i + 1] /\ i \in Nat
      BY <1>7
    <3>2. ASSUME NEW j \in Index, j > i + 1 PROVE queue[j].kind # "write"
      <4>1. j # 1 /\ j \in Int BY <3>1, <3>2 DEF Index
      <4>2. j - 1 \in Index' /\ queue'[j - 1] = queue[j] /\ j - 1 > i
        BY <4>1, <3>1, <3>2, <1>6
      <4>3. QED BY <4>2, <2>2
    <3>3. QED BY <3>1, <3>2, <2>2, <1>2 DEF StoreInv, CurrentInv, Newest
  <2>3. QED BY <2>1, <2>2 DEF Newest
<1>18. Uncommitted'
  BY <1>2 DEF Uncommitted
<1>19. QED
  BY <1>6, <1>9, <1>10, <1>11, <1>14, <1>15, <1>16, <1>17, <1>18
     DEF StoreInv, QueueInv, KeptInv, CurrentInv

\* A statement or a commit fails; what others wrote may be taken back.
LEMMA Failed ==
  ASSUME StoreInv, NEW r \in BOOLEAN, CallFails(r) PROVE StoreInv'
<1> DEFINE c == queue[1]
           n == Len(queue)
<1>1. /\ queue # <<>> /\ queue \in Seq(Calls) /\ c.kind # "close" /\ Head(queue) = c
      /\ n \in Nat /\ n > 0 /\ c \in Calls
      /\ queue' \in Seq(Calls) /\ Len(queue') = n - 1 /\ Len(queue') # n
      /\ \A i \in 1 .. n - 1 : queue'[i] = queue[i + 1]
  BY TailFacts DEF CallFails, NextCall, StoreInv, StoreTypes
<1>2. /\ open /\ open' = open /\ stored' = stored /\ mem' = mem /\ acked' = acked
      /\ phase' = phase /\ now' = now /\ unsaved' = TRUE
  BY <1>1 DEF CallFails, StoreInv, ClosedIsIdle, rootVars
<1>3. c.user \in Users
  BY <1>1 DEF Calls
<1>4. /\ at' = [at EXCEPT ![c.user] = "idle"]
      /\ sched' = IF at[c.user] # "idle" /\ c.user = Loop
                  THEN [sched EXCEPT !.at = "sleep", !.todo = {}] ELSE sched
      /\ \/ table' = table /\ rolled' = rolled \ {c.user}
         \/ /\ table' = stored
            /\ rolled' = (rolled \cup {v \in Users : at[v] = "commit"}) \ {c.user}
  BY <1>1 DEF CallFails
<1>5. /\ at' \in [Users -> {"idle", "write", "commit"}]
      /\ at'[c.user] = "idle"
      /\ \A v \in Users : v # c.user => at'[v] = at[v]
  BY <1>3, <1>4 DEF StoreInv, StoreTypes
<1>6. /\ 1 \in Index
      /\ \A i \in Index' : /\ i \in Nat /\ i # n => i + 1 \in Index /\ i + 1 > 1
                                                    /\ queue'[i] = queue[i + 1]
                           /\ i = n => Len(queue') = n
      /\ \A i \in Index : i = 1 \/ (i - 1 \in Index' /\ i - 1 # n /\ queue'[i - 1] = queue[i])
      /\ Closing' <=> Closing
      /\ Awaited' /\ AddsByAgents'
  BY <1>1, <1>5, Shifted
<1>7. \A i \in Index' : i \in Nat /\ i + 1 \in Index /\ i + 1 > 1 /\ queue'[i] = queue[i + 1]
  <2>1. \A i \in Index' : i \in Nat BY <1>1 DEF Index
  <2>2. QED BY <2>1, <1>1, <1>6
<1> HIDE DEF n
<1>8. StoreTypes'
  <2>1. sched' \in [at : {"off", "sleep", "pass", "persist"}, todo : SUBSET Agents, now : Nat]
    BY <1>4 DEF StoreInv, StoreTypes
  <2>2. table' \in Rows
    BY <1>4 DEF StoreInv, StoreTypes
  <2>3. QED BY <1>1, <1>2, <1>5, <2>1, <2>2 DEF StoreInv, StoreTypes
<1>9. ClosedIsIdle'
  BY <1>2 DEF StoreInv, ClosedIsIdle
<1>10. PassWaits'
  <2>1. CASE at[c.user] # "idle" /\ c.user = Loop
    BY <2>1, <1>4, <1>5, <1>6 DEF StoreInv, QueueInv, PassWaits
  <2>2. CASE ~(at[c.user] # "idle" /\ c.user = Loop)
    BY <2>2, <1>4, <1>5, <1>6, UserFacts DEF StoreInv, QueueInv, PassWaits
  <2>3. QED BY <2>1, <2>2
<1>11. ASSUME NEW a, Safe(a), table'[a] # 0 PROVE Safe(a)'
  BY <1>2, <1>7, <1>11 DEF Safe
<1>12. Kept' /\ AckedSurvives'
  <2>1. AckedSurvives'
    BY <1>2 DEF StoreInv, KeptInv, AckedSurvives
  <2>2. \A a \in acked : Safe(a) /\ table'[a] # 0
    BY <1>2, <1>4 DEF StoreInv, KeptInv, Kept, AckedSurvives, Safe
  <2>3. QED BY <2>1, <2>2, <1>2, <1>11 DEF Kept
<1>13. CommitSafe'
  <2>1. SUFFICES ASSUME NEW i \in Index', NEW a \in Agents, queue'[i].kind = "commit",
                        queue'[i].op = "add", queue'[i].user = a, a \notin rolled'
                 PROVE  Safe(a)'
    BY DEF CommitSafe
  <2>2. i + 1 \in Index /\ queue'[i] = queue[i + 1] /\ i + 1 # 1
    BY <1>7
  <2>3. a # c.user /\ at[a] = "commit"
    BY <2>1, <2>2, <1>6 DEF StoreInv, QueueInv, Awaited
  <2>4. a \notin rolled /\ table' = table
    BY <2>1, <2>3, <1>4, UserFacts
  <2>5. Safe(a)
    BY <2>1, <2>2, <2>4 DEF StoreInv, KeptInv, CommitSafe
  <2>6. QED BY <2>4, <2>5, <1>11 DEF Safe
<1>14. Coming'
  BY <1>2, <1>7 DEF StoreInv, KeptInv, Coming
<1>15. Newest'
  <2>1. ASSUME NEW i \in Index', queue'[i].kind = "write",
               \A j \in Index' : j > i => queue'[j].kind # "write"
        PROVE  queue'[i].row = mem'
    <3>1. i + 1 \in Index /\ queue'[i] = queue[i + 1] /\ i \in Nat
      BY <1>7
    <3>2. ASSUME NEW j \in Index, j > i + 1 PROVE queue[j].kind # "write"
      <4>1. j # 1 /\ j \in Int BY <3>1, <3>2 DEF Index
      <4>2. j - 1 \in Index' /\ queue'[j - 1] = queue[j] /\ j - 1 > i
        BY <4>1, <3>1, <3>2, <1>6
      <4>3. QED BY <4>2, <2>1
    <3>3. QED BY <3>1, <3>2, <2>1, <1>2 DEF StoreInv, CurrentInv, Newest
  <2>2. QED BY <2>1, <1>2 DEF Newest
<1>16. Uncommitted'
  BY <1>2 DEF Uncommitted
<1>17. QED
  BY <1>6, <1>8, <1>9, <1>10, <1>12, <1>13, <1>14, <1>15, <1>16
     DEF StoreInv, QueueInv, KeptInv, CurrentInv

-----------------------------------------------------------------------------
\* add_schedule, remove_schedule and the wakes of a pass: memory changes, and
\* the new schedules are queued unless the store is closed.
LEMMA Persisted ==
  ASSUME StoreInv, NEW u \in Users, at[u] = "idle",
         NEW op \in {"add", "remove", "pass"},
         open => queue' = Append(queue, Write(u, op, mem')) /\ at' = [at EXCEPT ![u] = "write"],
         ~open => UNCHANGED <<queue, at>>,
         mem' \in Rows, op = "add" => u \in Agents /\ mem'[u] # 0,
         u = Loop => sched.at = "pass" /\ sched'.at = "persist",
         sched' \in [at : {"off", "sleep", "pass", "persist"}, todo : SUBSET Agents, now : Nat],
         u # Loop => sched' = sched,
         phase' = phase,
         acked' \subseteq acked,
         \A b \in Agents : (mem[b] # 0 /\ (b # u \/ b \in acked')) => mem'[b] # 0,
         UNCHANGED <<now, open, table, stored, rolled, unsaved>>
  PROVE  StoreInv'
<1>1. CASE open
  <2>1. queue' = Append(queue, Write(u, op, mem')) /\ at' = [at EXCEPT ![u] = "write"]
    BY <1>1
  <2>2. Write(u, op, mem') \in Calls
    BY DEF Write, Calls
  <2>3. queue' \in Seq(Calls)
    BY <2>1, <2>2, AppendFacts DEF StoreInv, StoreTypes
  <2>4. StoreTypes'
    BY <2>1, <2>3 DEF StoreInv, StoreTypes
  <2>5. QED BY <1>1, <2>1, <2>4, Enqueued
<1>2. CASE ~open
  <2>1. queue' = <<>> /\ at' = at /\ at[Loop] = "idle"
    BY <1>2 DEF StoreInv, ClosedIsIdle
  <2>2. StoreTypes'
    BY <2>1 DEF StoreInv, StoreTypes
  <2>3. QED BY <1>2, <2>1, <2>2, StoreClosed
<1>3. QED BY <1>1, <1>2 DEF StoreInv, StoreTypes

\* stop() queues the close of the store, and its commits are nobody's any more.
LEMMA CloseQueued ==
  ASSUME StoreInv, open, queue' = Append(queue, CloseCall),
         at' = [at EXCEPT ![Loop] = "idle"], sched'.at = "off",
         sched' \in [at : {"off", "sleep", "pass", "persist"}, todo : SUBSET Agents, now : Nat],
         phase' # "off", UNCHANGED <<now, mem, open, table, stored, acked, rolled, unsaved>>
  PROVE  StoreInv'
<1> DEFINE n == Len(queue)
<1>1. CloseCall \in Calls /\ CloseCall.kind = "close" /\ CloseCall.op = "close"
      /\ CloseCall.user = Loop
  BY UserFacts DEF CloseCall, Calls, NoSchedules, Rows
<1>2. /\ queue' \in Seq(Calls) /\ n \in Nat /\ Len(queue') = n + 1 /\ queue'[n + 1] = CloseCall
      /\ \A i \in 1 .. n : queue'[i] = queue[i]
  BY <1>1, AppendFacts DEF StoreInv, StoreTypes
<1>3. Index' = Index \cup {n + 1} /\ \A i \in Index : queue'[i] = queue[i] /\ i \in Int /\ i < n + 1
  BY <1>2 DEF Index
<1>4. at' \in [Users -> {"idle", "write", "commit"}] /\ at'[Loop] = "idle"
      /\ \A v \in Users : v # Loop => at'[v] = at[v]
  BY UserFacts DEF StoreInv, StoreTypes
<1> HIDE DEF n
<1>5. StoreTypes' BY <1>2, <1>4 DEF StoreInv, StoreTypes
<1>6. ClosedIsIdle' BY DEF ClosedIsIdle
<1>7. Closing' BY <1>1, <1>2, <1>3 DEF Closing
<1>8. Awaited'
  <2>1. SUFFICES ASSUME NEW i \in Index', queue'[i].user \in Agents
                 PROVE  /\ queue'[i].kind = at'[queue'[i].user]
                        /\ \A j \in Index' : queue'[j].user = queue'[i].user => j = i
    BY <1>7 DEF Awaited
  <2>2. i \in Index
    BY <2>1, <1>1, <1>2, <1>3, UserFacts
  <2>3. /\ queue[i].kind = at[queue[i].user]
        /\ \A j \in Index : queue[j].user = queue[i].user => j = i
    BY <2>1, <2>2, <1>3 DEF StoreInv, QueueInv, Awaited
  <2>4. queue'[i] = queue[i] /\ queue[i].user \in Users /\ queue[i].user # Loop
    BY <2>1, <2>2, <1>3, UserFacts
  <2>5. ASSUME NEW j \in Index', queue'[j].user = queue'[i].user PROVE j = i
    <3>1. j \in Index BY <2>4, <2>5, <1>1, <1>2, <1>3
    <3>2. QED BY <2>3, <2>4, <2>5, <3>1, <1>3
  <2>6. QED BY <2>3, <2>4, <2>5, <1>4
<1>9. AddsByAgents' /\ PassWaits'
  BY <1>1, <1>2, <1>3, <1>4 DEF StoreInv, QueueInv, AddsByAgents, PassWaits
<1>10. ASSUME NEW a, Safe(a) PROVE Safe(a)'
  BY <1>1, <1>2, <1>3, <1>10 DEF Safe
<1>11. Kept' /\ AckedSurvives'
  BY <1>10 DEF StoreInv, KeptInv, Kept, AckedSurvives
<1>12. CommitSafe'
  BY <1>1, <1>2, <1>3, <1>10 DEF StoreInv, KeptInv, CommitSafe
<1>13. \A i \in Index' : queue'[i].kind = "write" => i \in Index /\ queue'[i] = queue[i]
  BY <1>1, <1>2, <1>3
<1>14. Coming'
  <2>1. SUFFICES ASSUME NEW i \in Index', queue'[i].kind = "write", queue'[i].op = "add"
                 PROVE  /\ mem'[queue'[i].user] # 0
                        /\ \A j \in Index' : (j >= i /\ queue'[j].kind = "write")
                             => queue'[j].row[queue'[i].user] # 0
    BY DEF Coming
  <2>2. i \in Index /\ queue'[i] = queue[i] BY <2>1, <1>13
  <2>3. /\ mem[queue[i].user] # 0
        /\ \A j \in Index : (j >= i /\ queue[j].kind = "write") => queue[j].row[queue[i].user] # 0
    BY <2>1, <2>2 DEF StoreInv, KeptInv, Coming
  <2>4. QED BY <2>2, <2>3, <1>13
<1>15. Newest'
  <2>1. (\A i \in Index' : queue'[i].kind # "write") => \A i \in Index : queue[i].kind # "write"
    BY <1>3
  <2>2. ASSUME NEW i \in Index', queue'[i].kind = "write",
               \A j \in Index' : j > i => queue'[j].kind # "write"
        PROVE  queue'[i].row = mem
    <3>1. \A j \in Index : j > i => queue[j].kind # "write"
      BY <2>2, <1>3
    <3>2. QED BY <2>2, <3>1, <1>13 DEF StoreInv, CurrentInv, Newest
  <2>3. QED BY <2>1, <2>2 DEF StoreInv, CurrentInv, Newest
<1>16. Uncommitted'
  BY <1>1, <1>2, <1>3 DEF Uncommitted
<1>17. QED
  BY <1>5, <1>6, <1>8, <1>9, <1>11, <1>12, <1>14, <1>15, <1>16
     DEF StoreInv, QueueInv, KeptInv, CurrentInv

LEMMA StoreNext == StoreInv /\ [Next]_vars => StoreInv'
<1> SUFFICES ASSUME StoreInv, [Next]_vars PROVE StoreInv' OBVIOUS
<1>0. /\ StoreTypes /\ ClosedIsIdle /\ PassWaits
      /\ sched.at \in {"off", "sleep", "pass", "persist"} /\ sched.now \in Nat
      /\ sched.todo \subseteq Agents
  BY DEF StoreInv, StoreTypes, QueueInv
<1>1. ASSUME Start PROVE StoreInv'
  <2>1. ~open /\ queue = <<>> /\ at[Loop] = "idle"
    BY <1>0, <1>1 DEF Start, ClosedIsIdle
  <2>2. CASE "data" \in conf
    <3>1. /\ open' = TRUE /\ table' = stored /\ mem' = stored /\ queue' = <<>> /\ at' = at
          /\ sched' = [at |-> "sleep", todo |-> {}, now |-> 0]
          /\ UNCHANGED <<now, stored, acked>> /\ phase' = "running"
      BY <1>1, <2>1, <2>2 DEF Start, Load
    <3>2. Index' = {} BY <3>1 DEF Index
    <3>3. StoreTypes' BY <3>1, <1>0 DEF StoreTypes
    <3>4. ClosedIsIdle' /\ QueueInv'
      BY <3>1, <3>2, <2>1 DEF ClosedIsIdle, QueueInv, Awaited, AddsByAgents, PassWaits, Closing
    <3>5. KeptInv'
      BY <3>1, <3>2 DEF StoreInv, KeptInv, Kept, CommitSafe, Coming, AckedSurvives, Safe
    <3>6. CurrentInv' BY <3>1, <3>2 DEF CurrentInv, Newest, Uncommitted
    <3>7. QED BY <3>3, <3>4, <3>5, <3>6 DEF StoreInv
  <2>3. CASE "data" \notin conf
    BY <1>0, <1>1, <2>1, <2>3, StoreFrame DEF Start, Load, schedVars, history, StoreTypes, PassWaits
  <2>4. QED BY <2>2, <2>3
<1>2. ASSUME ProcessEnds PROVE StoreInv'
  <2>1. /\ ~open' /\ queue' = <<>> /\ at' = Idle /\ table' = stored /\ mem' = NoSchedules
        /\ sched' = [at |-> "off", todo |-> {}, now |-> 0] /\ UNCHANGED <<now, stored, acked>>
    BY <1>2 DEF ProcessEnds
  <2>2. at' \in [Users -> {"idle", "write", "commit"}] /\ at'[Loop] = "idle"
    BY <2>1, UserFacts DEF Idle
  <2>3. mem' \in Rows BY <2>1 DEF NoSchedules, Rows
  <2>4. open' \in BOOLEAN BY <1>2 DEF ProcessEnds
  <2>5. StoreTypes' BY <1>0, <2>1, <2>2, <2>3, <2>4 DEF StoreTypes
  <2>6. QED BY <2>1, <2>2, <2>5, StoreClosed
<1>3. ASSUME StopScheduler PROVE StoreInv'
  <2>1. /\ UNCHANGED <<now, mem, open, table, stored, acked, rolled, unsaved>>
        /\ phase' # "off" /\ phase # "off"
        /\ sched' = [sched EXCEPT !.at = "off", !.todo = {}]
    BY <1>3 DEF StopScheduler, history
  <2>2. sched' \in [at : {"off", "sleep", "pass", "persist"}, todo : SUBSET Agents, now : Nat]
        /\ sched'.at = "off"
    BY <2>1, <1>0 DEF StoreTypes
  <2>3. CASE ~open
    BY <2>1, <2>2, <2>3, <1>0, <1>3, StoreFrame DEF StopScheduler, history, ClosedIsIdle, StoreTypes
  <2>4. CASE open
    <3>1. queue' = Append(queue, CloseCall) /\ at' = [at EXCEPT ![Loop] = "idle"]
      BY <1>3, <2>4 DEF StopScheduler
    <3>2. QED BY <2>1, <2>2, <2>4, <3>1, CloseQueued
  <2>5. QED BY <2>3, <2>4 DEF StoreTypes
<1>4. ASSUME CloseDone PROVE StoreInv'
  <2>1. /\ ~open' /\ queue' = <<>> /\ at' = Idle /\ table' = stored
        /\ UNCHANGED <<now, stored, acked, mem, sched>> /\ open' \in BOOLEAN
    BY <1>4 DEF CloseDone, schedVars
  <2>2. at' \in [Users -> {"idle", "write", "commit"}] /\ at'[Loop] = "idle"
    BY <2>1, UserFacts DEF Idle
  <2>3. StoreTypes' BY <1>0, <2>1, <2>2 DEF StoreTypes
  <2>4. QED BY <2>1, <2>2, <2>3, StoreClosed
<1>5. ASSUME NEW a \in Agents, AddSchedule(a) PROVE StoreInv'
  <2>1. now + 1 \in Nat /\ now + 1 # 0 BY <1>0 DEF StoreTypes
  <2>2. mem \in Rows BY <1>0 DEF StoreTypes
  <2>3. mem' \in Rows /\ mem'[a] # 0 /\ \A b \in Agents : b # a => mem'[b] = mem[b]
    <3>1. mem' = [mem EXCEPT ![a] = now + 1] BY <1>5 DEF AddSchedule
    <3>2. QED BY <2>1, <2>2, <3>1 DEF Rows
  <2>4. /\ open => queue' = Append(queue, Write(a, "add", mem')) /\ at' = [at EXCEPT ![a] = "write"]
        /\ ~open => UNCHANGED <<queue, at>>
        /\ at[a] = "idle" /\ a \in Users /\ a # Loop
        /\ UNCHANGED <<phase, now, sched, open, table, stored, acked, rolled, unsaved>>
    BY <1>5, UserFacts DEF AddSchedule, Persist, Callable, rootVars, history
  <2>5. sched' \in [at : {"off", "sleep", "pass", "persist"}, todo : SUBSET Agents, now : Nat]
    BY <1>0, <2>4 DEF StoreTypes
  <2>6. QED BY <2>3, <2>4, <2>5, Persisted
<1>6. ASSUME NEW a \in Agents, RemoveSchedule(a) PROVE StoreInv'
  <2>1. mem \in Rows /\ 0 \in Nat BY <1>0 DEF StoreTypes
  <2>2. mem' \in Rows /\ \A b \in Agents : b # a => mem'[b] = mem[b]
    <3>1. mem' = [mem EXCEPT ![a] = 0] BY <1>6 DEF RemoveSchedule
    <3>2. QED BY <2>1, <3>1 DEF Rows
  <2>3. /\ open => queue' = Append(queue, Write(a, "remove", mem')) /\ at' = [at EXCEPT ![a] = "write"]
        /\ ~open => UNCHANGED <<queue, at>>
        /\ at[a] = "idle" /\ a \in Users
        /\ a # Loop /\ UNCHANGED <<phase, now, sched, open, table, stored, rolled, unsaved>>
        /\ acked' \subseteq acked /\ a \notin acked'
    BY <1>6, UserFacts DEF RemoveSchedule, Persist, Callable, rootVars
  <2>4. sched' \in [at : {"off", "sleep", "pass", "persist"}, todo : SUBSET Agents, now : Nat]
    BY <1>0, <2>3 DEF StoreTypes
  <2>5. QED BY <2>2, <2>3, <2>4, Persisted
<1>7. ASSUME PassAgent PROVE StoreInv'
  <2>1. PICK a \in sched.todo :
          /\ mem' = [mem EXCEPT ![a] = sched.now + 1]
          /\ sched' = [sched EXCEPT !.at = "persist", !.todo = @ \ {a}]
          /\ open => queue' = Append(queue, Write(Loop, "pass", mem')) /\ at' = [at EXCEPT ![Loop] = "write"]
          /\ ~open => UNCHANGED <<queue, at>>
    BY <1>7 DEF PassAgent, Persist
  <2>2. sched.at = "pass" /\ UNCHANGED <<phase, now, open, table, stored, acked, rolled, unsaved>>
    BY <1>7 DEF PassAgent, rootVars, history
  <2>3. a \in Agents /\ mem \in Rows /\ sched.now + 1 \in Nat /\ sched.now + 1 # 0
    BY <1>0 DEF StoreTypes
  <2>4. mem' \in Rows /\ mem'[a] # 0 /\ \A b \in Agents : b # a => mem'[b] = mem[b]
    <3>1. mem' = [mem EXCEPT ![a] = sched.now + 1] BY <2>1
    <3>2. QED BY <2>3, <3>1 DEF Rows
  <2>5. sched' \in [at : {"off", "sleep", "pass", "persist"}, todo : SUBSET Agents, now : Nat]
        /\ sched'.at = "persist"
    BY <1>0, <2>1 DEF StoreTypes
  <2>6. at[Loop] = "idle" /\ Loop \in Users
    BY <1>0, <2>2, UserFacts DEF PassWaits
  <2>7. QED BY <2>1, <2>2, <2>4, <2>5, <2>6, Persisted
<1>8. ASSUME BeginPass PROVE StoreInv'
  <2>1. sched' \in [at : {"off", "sleep", "pass", "persist"}, todo : SUBSET Agents, now : Nat]
    BY <1>0, <1>8 DEF BeginPass, StoreTypes
  <2>2. QED
    BY <1>0, <1>8, <2>1, StoreFrame DEF BeginPass, dbVars, rootVars, StoreTypes, PassWaits
<1>9. ASSUME EndPass PROVE StoreInv'
  <2>1. sched' \in [at : {"off", "sleep", "pass", "persist"}, todo : SUBSET Agents, now : Nat]
    BY <1>0, <1>9 DEF EndPass, StoreTypes
  <2>2. QED
    BY <1>0, <1>9, <2>1, StoreFrame DEF EndPass, dbVars, rootVars, StoreTypes, PassWaits
<1>10. ASSUME WriteDone \/ CommitDone \/ \E r \in BOOLEAN : CallFails(r) PROVE StoreInv'
  BY <1>10, StatementDone, Committed, Failed
<1>11. ASSUME Tick PROVE StoreInv'
  <2>1. now' \in Nat BY <1>0, <1>11 DEF Tick, StoreTypes
  <2>2. QED
    BY <1>0, <1>11, <2>1, StoreFrame DEF Tick, schedVars, dbVars, rootVars, StoreTypes, PassWaits
<1>12. ASSUME UNCHANGED <<now, schedVars, dbVars>>, phase' = "off" => phase = "off"
       PROVE  StoreInv'
  BY <1>0, <1>12, StoreFrame DEF schedVars, dbVars, history, StoreTypes, PassWaits
<1>13. ASSUME StopWatch \/ StopEnds \/ (\E a \in Agents : StopAgent(a)) PROVE StoreInv'
  BY <1>12, <1>13 DEF StopWatch, StopEnds, StopAgent
<1>14. ASSUME ApiChanges \/ Watch \/ Operational PROVE StoreInv'
  BY <1>12, <1>14 DEF ApiChanges, Watch, Operational, CheckDone, AlertSent, AlertRaises, CheckAgain, rootVars
<1>15. ASSUME NEW a \in Agents,
              Hire(a) \/ Dismiss(a) \/ \E s \in {"awake", "sleeping"} : Report(a, s)
       PROVE  StoreInv'
  BY <1>12, <1>15 DEF Hire, Dismiss, Report
<1>16. ASSUME NEW p \in Projects, RemoveProject(p) \/ AddProject(p) PROVE StoreInv'
  BY <1>12, <1>16 DEF RemoveProject, AddProject
<1>17. ASSUME UNCHANGED vars PROVE StoreInv'
  BY <1>12, <1>17 DEF vars, rootVars
<1>18. QED
  BY <1>1, <1>2, <1>3, <1>4, <1>5, <1>6, <1>7, <1>8, <1>9, <1>10, <1>11, <1>13, <1>14, <1>15,
     <1>16, <1>17 DEF Next, Stop, Db, Scheduler

\* The store's invariant holds of every behaviour of CompanyRoot.
THEOREM StoreSafety == Spec => []StoreInv
BY StoreInitInv, StoreNext, PTL DEF Spec

\* A schedule whose add_schedule has returned is in the committed row until
\* somebody asks to remove it, wherever the process dies and however passes,
\* calls, cancellation and close overlap.
THEOREM AckedAlwaysSurvives == Spec => []AckedSurvives
<1>1. StoreInv => AckedSurvives BY DEF StoreInv, KeptInv
<1>2. QED BY <1>1, StoreSafety, PTL

\* When no call is queued and no call failed after the last statement the
\* committed row is what the scheduler holds.
THEOREM StoredAlwaysCurrent == Spec => []StoredIsCurrent
<1>1. StoreInv => StoredIsCurrent
  <2>1. SUFFICES ASSUME StoreInv, open, queue = <<>>, ~unsaved PROVE stored = mem
    BY DEF StoredIsCurrent
  <2>2. Index = {} BY <2>1 DEF Index
  <2>3. QED BY <2>1, <2>2 DEF StoreInv, CurrentInv, Newest, Uncommitted
<1>2. QED BY <1>1, StoreSafety, PTL

-----------------------------------------------------------------------------
(* The watch.                                                              *)

Results == {"none", "up", "down"}

\* The counters count the last results: the failures in normal mode, the
\* successes in degraded mode.
Counted ==
  /\ mode = "normal" =>
       /\ fails >= 1 => results[3] = "down"
       /\ fails >= 2 => results[2] = "down"
  /\ mode = "degraded" =>
       /\ succs < RecoveryThreshold
       /\ succs = 1 => results[3] = "up"

WatchInv ==
  /\ api \in BOOLEAN
  /\ mode \in {"normal", "degraded"}
  /\ fails \in 0 .. FailureThreshold - 1 /\ succs \in 0 .. RecoveryThreshold
  /\ results \in Results \X Results \X Results
  /\ phase = "off" => mode = "normal" /\ loop = "off"
  /\ Counted

\* One result is recorded.
LEMMA WatchStep ==
  ASSUME WatchInv, RecordResult, UNCHANGED <<api, phase>>, phase # "off"
  PROVE  /\ WatchInv'
         /\ (mode = "normal" /\ mode' = "degraded") => results' = <<"down", "down", "down">>
         /\ (mode = "degraded" /\ mode' = "normal") => results'[2] = "up" /\ results'[3] = "up"
<1>1. /\ api' = api /\ api \in BOOLEAN /\ phase' = phase
      /\ mode \in {"normal", "degraded"} /\ fails \in 0 .. 2 /\ succs \in 0 .. 2
      /\ phase # "off"
  BY DEF WatchInv, FailureThreshold, RecoveryThreshold
<1>2. /\ mode = "normal" => (fails >= 1 => results[3] = "down") /\ (fails >= 2 => results[2] = "down")
      /\ mode = "degraded" => succs < 2 /\ (succs = 1 => results[3] = "up")
  BY DEF WatchInv, Counted, RecoveryThreshold
<1>3. CASE api
  <2>1. results' = <<results[2], results[3], "up">>
    BY <1>3 DEF RecordResult, Remember
  <2>2. results' \in Results \X Results \X Results /\ results'[3] = "up" /\ results'[2] = results[3]
    BY <2>1 DEF WatchInv, Results
  <2>3. /\ fails' = 0
        /\ IF mode = "degraded" /\ succs + 1 >= 2
           THEN mode' = "normal" /\ succs' = 0
           ELSE succs' = (IF succs < 2 THEN succs + 1 ELSE succs) /\ mode' = mode
    BY <1>3 DEF RecordResult, RecordSuccess, RecoveryThreshold
  <2>4. mode' \in {"normal", "degraded"} /\ fails' \in 0 .. 2 /\ succs' \in 0 .. 2
    BY <1>1, <2>3
  <2>5. Counted'
    BY <1>1, <1>2, <2>2, <2>3 DEF Counted, RecoveryThreshold
  <2>6. (mode = "degraded" /\ mode' = "normal") => results'[2] = "up"
    BY <1>1, <1>2, <2>2, <2>3
  <2>7. QED
    BY <1>1, <2>2, <2>3, <2>4, <2>5, <2>6 DEF WatchInv, FailureThreshold, RecoveryThreshold
<1>4. CASE ~api
  <2>1. results' = <<results[2], results[3], "down">>
    BY <1>4 DEF RecordResult, Remember
  <2>2. results' \in Results \X Results \X Results /\ results'[3] = "down" /\ results'[2] = results[3]
    BY <2>1 DEF WatchInv, Results
  <2>3. /\ succs' = 0
        /\ IF mode = "normal" /\ fails + 1 >= 3
           THEN mode' = "degraded" /\ fails' = 0
           ELSE fails' = (IF mode = "normal" THEN fails + 1 ELSE fails) /\ mode' = mode
    BY <1>4 DEF RecordResult, RecordFailure, FailureThreshold
  <2>4. mode' \in {"normal", "degraded"} /\ fails' \in 0 .. 2 /\ succs' \in 0 .. 2
    BY <1>1, <2>3
  <2>5. Counted'
    BY <1>1, <1>2, <2>2, <2>3 DEF Counted, RecoveryThreshold
  <2>6. (mode = "normal" /\ mode' = "degraded") => results' = <<"down", "down", "down">>
    <3>1. SUFFICES ASSUME mode = "normal", mode' = "degraded"
                   PROVE  results' = <<"down", "down", "down">>
      OBVIOUS
    <3>2. fails >= 1 /\ fails >= 2
      BY <1>1, <2>3, <3>1
    <3>3. results[2] = "down" /\ results[3] = "down"
      BY <1>2, <3>1, <3>2
    <3>4. QED BY <2>1, <3>3
  <2>7. QED
    BY <1>1, <2>2, <2>3, <2>4, <2>5, <2>6 DEF WatchInv, FailureThreshold, RecoveryThreshold
<1>5. QED BY <1>3, <1>4

\* The step of a watch may do no more than the check allows.
RightStep ==
  /\ WatchInv'
  /\ (mode = "normal" /\ mode' = "degraded") => results' = <<"down", "down", "down">>
  /\ (mode = "degraded" /\ mode' = "normal" /\ phase' # "off") =>
       results'[2] = "up" /\ results'[3] = "up"

LEMMA WatchNext == WatchInv /\ [Next]_vars => RightStep
<1> SUFFICES ASSUME WatchInv, [Next]_vars PROVE RightStep OBVIOUS
<1>1. ASSUME CheckDone \/ Operational PROVE RightStep
  <2>1. RecordResult /\ UNCHANGED <<api, phase>> /\ phase # "off"
    BY <1>1 DEF CheckDone, Operational, Serving, rootVars, WatchInv
  <2>2. QED BY <2>1, WatchStep DEF RightStep
<1>2. ASSUME Start \/ ProcessEnds PROVE RightStep
  <2>1. /\ mode' = "normal" /\ fails' = 0 /\ succs' = 0 /\ results' = NoResults /\ api' = api
        /\ phase = "off" \/ phase' = "off"
        /\ phase' = "off" => loop' = "off"
    BY <1>2 DEF Start, StartWatch, ProcessEnds
  <2>2. results' \in Results \X Results \X Results
    BY <2>1 DEF NoResults, Results
  <2>3. Counted' BY <2>1, <2>2 DEF Counted
  <2>4. WatchInv'
    BY <2>1, <2>2, <2>3 DEF WatchInv, FailureThreshold, RecoveryThreshold
  <2>5. QED BY <2>1, <2>4 DEF WatchInv, RightStep
<1>3. ASSUME UNCHANGED <<mode, fails, succs, results>>, api' \in BOOLEAN,
             phase' = "off" => phase = "off" /\ loop' = loop
      PROVE  RightStep
  BY <1>3 DEF WatchInv, Counted, RightStep
<1>4. ASSUME ApiChanges \/ AlertSent \/ AlertRaises \/ CheckAgain PROVE RightStep
  BY <1>3, <1>4 DEF ApiChanges, AlertSent, AlertRaises, CheckAgain, rootVars, WatchInv
<1>5. ASSUME UNCHANGED healthVars, phase' = "off" => phase = "off" PROVE RightStep
  BY <1>3, <1>5 DEF healthVars, WatchInv
<1>6. ASSUME StopWatch \/ Stop PROVE RightStep
  <2>1. UNCHANGED <<api, mode, fails, succs, results>> /\ phase' # "off"
    BY <1>6 DEF StopWatch, Stop, StopScheduler, StopEnds, StopAgent, healthVars
  <2>2. QED BY <2>1, <1>3 DEF WatchInv
<1>7. ASSUME Tick \/ Db \/ Scheduler PROVE RightStep
  BY <1>5, <1>7 DEF Tick, Db, Scheduler, WriteDone, CommitDone, CallFails, CloseDone, BeginPass, PassAgent,
                    EndPass, rootVars
<1>8. ASSUME NEW a \in Agents,
             \/ Hire(a) \/ Dismiss(a) \/ \E s \in {"awake", "sleeping"} : Report(a, s)
             \/ AddSchedule(a) \/ RemoveSchedule(a)
      PROVE  RightStep
  BY <1>5, <1>8 DEF Hire, Dismiss, Report, AddSchedule, RemoveSchedule, rootVars
<1>9. ASSUME NEW p \in Projects, RemoveProject(p) \/ AddProject(p) PROVE RightStep
  BY <1>5, <1>9 DEF RemoveProject, AddProject
<1>10. ASSUME UNCHANGED vars PROVE RightStep
  BY <1>5, <1>10 DEF vars, rootVars
<1>11. QED
  BY <1>1, <1>2, <1>4, <1>6, <1>7, <1>8, <1>9, <1>10 DEF Next, Watch

\* The system enters degraded mode only after three results in a row that were
\* failures, and while it runs it leaves it only after two that were successes.
THEOREM AlwaysConsecutive == Spec => Consecutive
<1>1. Init => WatchInv
  BY DEF Init, NoWatch, NoResults, Results, WatchInv, Counted, FailureThreshold, RecoveryThreshold
<1>2. WatchInv /\ [Next]_vars => WatchInv'
  BY WatchNext DEF RightStep
<1>3. WatchInv /\ [Next]_vars =>
        [/\ (mode = "normal" /\ mode' = "degraded") => results' = <<"down", "down", "down">>
         /\ (mode = "degraded" /\ mode' = "normal" /\ phase' # "off") =>
              results'[2] = "up" /\ results'[3] = "up"]_vars
  BY WatchNext DEF RightStep
<1>4. QED BY <1>1, <1>2, <1>3, PTL DEF Spec, Consecutive
=============================================================================
