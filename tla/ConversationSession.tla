------------------------ MODULE ConversationSession ------------------------
(***************************************************************************)
(* ConversationSession.send (vco_worker/conversation.py): one lock, a      *)
(* first call that tries to resume and otherwise creates the Claude CLI    *)
(* session with its persona, later calls that resume.  The CLI and its     *)
(* session store are external: a command succeeds, fails, or is given up   *)
(* after 600 s, and then goes on by itself because nobody kills it.        *)
(*                                                                         *)
(* The session lives in a worker, where bootstrap_container makes it with  *)
(* the container, or in the daemon as the workflow-master's, which the cog *)
(* of bot/cogs/workflow_master.py talks to.  There it is made by on_ready, *)
(* if RuntimeAPI exists by then: it does only for an on_ready that         *)
(* overlapped the first one (client.py, _initialized).  Each of those      *)
(* replaces the ConversationSession, and calls that are inside the old one *)
(* go on with its lock, on the same session of the CLI.  Bound:            *)
(* Conversations, the objects that are current or in use at a time.        *)
(*                                                                         *)
(* Left out: the text of the messages and the style reminder (it changes   *)
(* the text only, and no caller configures one); messages the cog filters. *)
(***************************************************************************)
EXTENDS FiniteSets

CONSTANTS
  Callers,   \* coroutines that call send()
  NoCaller,  \* the lock is free
  Conversations,  \* ConversationSession objects
  NoConversation  \* _wm_conversation is not set

ASSUME SessionAssumption ==
  NoCaller \notin Callers /\ NoConversation \notin Conversations

VARIABLES
  host,         \* the process the session lives in
  current,      \* the ConversationSession that messages are sent to
  initialized,  \* _initialized of each object
  lock,         \* its _lock
  at,           \* where each call is
  of,           \* the object it is in
  reply,        \* what it has returned
  session,      \* the CLI's store has the session, with its persona
  late          \* a create command that was given up still runs

vars == <<host, current, initialized, lock, at, of, reply, session, late>>

TypeOK ==
  /\ host \in {"worker", "daemon"}
  /\ current \in Conversations \cup {NoConversation}
  /\ initialized \in [Conversations -> BOOLEAN]
  /\ lock \in [Conversations -> Callers \cup {NoCaller}]
  /\ at \in [Callers -> {"none", "attaching", "notice", "waiting", "probing",
                       "creating", "asking"}]
  /\ of \in [Callers -> Conversations \cup {NoConversation}]
  /\ reply \in [Callers -> {"none", "answer", "apology"}]
  /\ session \in BOOLEAN
  /\ late \in BOOLEAN

\* bootstrap_container makes the conversation, the daemon's start does not.
Made(h) == IF h = "worker" THEN Conversations ELSE {NoConversation}

Init ==
  /\ host \in {"worker", "daemon"}
  /\ current \in Made(host)
  /\ initialized = [s \in Conversations |-> FALSE]
  /\ lock = [s \in Conversations |-> NoCaller]
  /\ at = [c \in Callers |-> "none"]
  /\ of = [c \in Callers |-> NoConversation]
  /\ reply = [c \in Callers |-> "none"]
  /\ session \in BOOLEAN    \* left by an earlier worker, or not
  /\ late = FALSE

Goto(c, where) == at' = [at EXCEPT ![c] = where]

\* The call is in send() of the conversation of this moment.
Enter(c) ==
  /\ Goto(c, "waiting")
  /\ of' = [of EXCEPT ![c] = current]

\* A message for a conversation agent: send() waits for the lock.
Send(c) ==
  /\ host = "worker"
  /\ at[c] = "none" /\ reply[c] = "none"
  /\ Enter(c)
  /\ UNCHANGED <<host, current, initialized, lock, reply, session, late>>

\* A message of the owner in #workflow-master: the cog saves its attachments,
OwnerMessage(c) ==
  /\ host = "daemon"
  /\ at[c] = "none" /\ reply[c] = "none"
  /\ Goto(c, "attaching")
  /\ UNCHANGED <<host, current, initialized, lock, of, reply, session, late>>

\* each of which may fail alone and becomes a line of the text,
Attached(c) ==
  /\ at[c] = "attaching"
  /\ Goto(c, "notice")
  /\ UNCHANGED <<host, current, initialized, lock, of, reply, session, late>>

\* posts "working on it...", which may raise and then ends it,
NoticeRaises(c) ==
  /\ at[c] = "notice"
  /\ Goto(c, "none")
  /\ UNCHANGED <<host, current, initialized, lock, of, reply, session, late>>

\* and relays to the conversation, if there is one.
RelayWorkflowMasterMessage(c) ==
  /\ at[c] = "notice"
  /\ \/ current # NoConversation /\ Enter(c) /\ UNCHANGED reply
     \/ /\ current = NoConversation /\ Goto(c, "none")
        /\ reply' = [reply EXCEPT ![c] = "apology"] /\ UNCHANGED of
  /\ UNCHANGED <<host, current, initialized, lock, session, late>>

\* An on_ready that overlapped the first one finds a RuntimeAPI and makes a
\* conversation, in the place of one that is there.
InitializeWorkflowMaster ==
  /\ host = "daemon"
  /\ \E s \in Conversations \ {current} :
       /\ \A c \in Callers : of[c] # s
       /\ current' = s
       /\ initialized' = [initialized EXCEPT ![s] = FALSE]
       /\ lock' = [lock EXCEPT ![s] = NoCaller]
  /\ UNCHANGED <<host, at, of, reply, session, late>>

Hold(c) ==
  /\ lock' = [lock EXCEPT ![of[c]] = c]
  /\ Goto(c, IF initialized[of[c]] THEN "asking" ELSE "probing")
  /\ UNCHANGED <<host, current, initialized, of, reply, session, late>>

\* Mutant: the first call does not wait for the lock.
TakeLock_FirstUnlocked(c) ==
  /\ at[c] = "waiting" /\ (lock[of[c]] = NoCaller \/ ~initialized[of[c]])
  /\ Hold(c)

TakeLock(c) ==
  /\ at[c] = "waiting" /\ lock[of[c]] = NoCaller
  /\ Hold(c)

\* Mutant: an apology returns without leaving the "async with" block.
Return_KeepsLock(c, what) ==
  /\ reply' = [reply EXCEPT ![c] = what]
  /\ lock' = IF what = "apology" THEN lock ELSE [lock EXCEPT ![of[c]] = NoCaller]
  /\ Goto(c, "none")
  /\ of' = [of EXCEPT ![c] = NoConversation]

Return(c, what) ==
  /\ reply' = [reply EXCEPT ![c] = what]
  /\ lock' = [lock EXCEPT ![of[c]] = NoCaller]
  /\ Goto(c, "none")
  /\ of' = [of EXCEPT ![c] = NoConversation]

\* The first call's --resume: it answers if the session exists ...
Resumed(c) ==
  /\ at[c] = "probing" /\ session
  /\ initialized' = [initialized EXCEPT ![of[c]] = TRUE]
  /\ Return(c, "answer")
  /\ UNCHANGED <<host, current, session, late>>

\* ... and any failure or timeout, with allow_failure, leads to a create.
NotResumed(c) ==
  /\ at[c] = "probing"
  /\ Goto(c, "creating")
  /\ UNCHANGED <<host, current, initialized, lock, of, reply, session, late>>

\* _exec_claude returns a text in every case, so the call goes on as if the
\* persona had been loaded.  A session that exists is not created again.
Created(c) ==
  /\ at[c] = "creating"
  /\ \/ ~session /\ session' = TRUE /\ UNCHANGED late
     \/ UNCHANGED <<session, late>>
     \/ ~session /\ late' = TRUE /\ UNCHANGED session
  /\ initialized' = [initialized EXCEPT ![of[c]] = TRUE]
  /\ Goto(c, "asking")
  /\ UNCHANGED <<host, current, lock, of, reply>>

\* --resume with the user's message: _exec_claude returns a text.
Asked(c) ==
  /\ at[c] = "asking"
  /\ (session /\ Return(c, "answer")) \/ Return(c, "apology")
  /\ UNCHANGED <<host, current, initialized, session, late>>

\* A create that was given up ends after all.
LateCreate ==
  /\ late
  /\ late' = FALSE
  /\ session' \in {session, TRUE}
  /\ UNCHANGED <<host, current, initialized, lock, at, of, reply>>

\* The worker's handler is done with the reply (send_report) ...
Deliver(c) ==
  /\ host = "worker"
  /\ at[c] = "none" /\ reply[c] # "none"
  /\ reply' = [reply EXCEPT ![c] = "none"]
  /\ UNCHANGED <<host, current, initialized, lock, at, of, session, late>>

\* ... and the cog, which removes its notice and posts the reply in pieces; a
\* piece that cannot be posted ends it as well.
PostResponse(c) ==
  /\ host = "daemon"
  /\ at[c] = "none" /\ reply[c] # "none"
  /\ reply' = [reply EXCEPT ![c] = "none"]
  /\ UNCHANGED <<host, current, initialized, lock, at, of, session, late>>

\* The process is restarted: the CLI's session survives it.
Restart ==
  /\ current' \in Made(host)
  /\ initialized' = [s \in Conversations |-> FALSE]
  /\ lock' = [s \in Conversations |-> NoCaller]
  /\ at' = [c \in Callers |-> "none"]
  /\ of' = [c \in Callers |-> NoConversation]
  /\ reply' = [c \in Callers |-> "none"]
  /\ UNCHANGED <<host, session, late>>

CogStep(c) == Attached(c) \/ NoticeRaises(c) \/ RelayWorkflowMasterMessage(c)

CommandEnds(c) == Resumed(c) \/ NotResumed(c) \/ Created(c) \/ Asked(c)

Next ==
  \/ \E c \in Callers :
       \/ Send(c) \/ CogStep(c) \/ OwnerMessage(c)
       \/ TakeLock(c) \/ CommandEnds(c) \/ Deliver(c) \/ PostResponse(c)
  \/ InitializeWorkflowMaster \/ LateCreate \/ Restart

\* Downloads and posts end, every command ends within 600 s, and asyncio.Lock
\* serves in turn.
Fairness ==
  /\ \A c \in Callers : WF_vars(CogStep(c))
  /\ \A c \in Callers : WF_vars(CommandEnds(c))
  /\ \A c \in Callers : SF_vars(TakeLock(c))

Spec == Init /\ [][Next]_vars /\ Fairness
-----------------------------------------------------------------------------
(* Properties.                                                             *)

\* The lock of a conversation is held by exactly the call that has a command
\* of it running: two commands of one conversation never work on the session
\* at once, unless one was given up, and a conversation that was replaced
\* keeps its callers apart as before (send, "async with self._lock").
OneCommand ==
  \A c \in Callers, s \in Conversations :
    lock[s] = c <=> of[c] = s /\ at[c] \in {"probing", "creating", "asking"}

\* Every message, of a worker's channel or of #workflow-master, is through in
\* the end, if the process lives: a timeout or a failure of the CLI at any of
\* the three commands, and a conversation that was never made, still end in a
\* reply or in an error of Discord.
EverySendReturns ==
  \A c \in Callers : at[c] # "none" ~> at[c] = "none"
=============================================================================
