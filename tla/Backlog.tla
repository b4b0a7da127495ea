------------------------------ MODULE Backlog ------------------------------
(***************************************************************************)
(* BacklogQueue (autonomy/backlog.py): the milestone's work items in       *)
(* order, mutated under one asyncio.Lock and written as a whole to the     *)
(* PM's MemoryStore.  A mutation changes memory, then suspends in the      *)
(* write with the lock held; the process may die, or the write may raise,  *)
(* in between.                                                             *)
(*                                                                         *)
(* Left out: titles, priorities and timestamps (nothing reads them), the   *)
(* notification callback (it never raises and changes nothing), IN_PROGRESS *)
(* (no code sets it).  Item ids are fresh uuids: an id is added once.      *)
(***************************************************************************)
EXTENDS SequencesExt

CONSTANTS
  Items,    \* item ids
  Agents,   \* agent ids
  Nobody,   \* assigned_to is None
  Tasks,    \* coroutines that use the queue
  NoTask    \* the lock is free

ASSUME BacklogAssumption == Nobody \notin Agents /\ NoTask \notin Tasks

VARIABLES
  items,    \* _items: ids in queue order
  status,   \* status of each item
  owner,    \* assigned_to of each item
  lock,     \* the coroutine that holds _lock
  disk,     \* the value under BACKLOG_KEY
  unsaved   \* a write has raised since the last one that succeeded

queueVars == <<items, status, owner>>
backlogVars == <<items, status, owner, lock, disk, unsaved>>

Status == {"pending", "assigned", "completed", "cancelled"}

\* What _persist serialises.
Mem == [items |-> items, status |-> status, owner |-> owner]

BacklogTypeOK ==
  /\ items \in Seq(Items)
  /\ status \in [Items -> Status]
  /\ owner \in [Items -> Agents \cup {Nobody}]
  /\ lock \in Tasks \cup {NoTask}
  /\ disk.items \in Seq(Items)
  /\ disk.status \in [Items -> Status]
  /\ disk.owner \in [Items -> Agents \cup {Nobody}]
  /\ unsaved \in BOOLEAN

BacklogInit ==
  /\ items = <<>>
  /\ status = [i \in Items |-> "pending"]
  /\ owner = [i \in Items |-> Nobody]
  /\ lock = NoTask
  /\ disk = Mem
  /\ unsaved = FALSE

-----------------------------------------------------------------------------
Listed(i) == i \in ToSet(items)

\* _find_index, of a listed item: the first position that holds it.
FindIndex(i) ==
  CHOOSE k \in DOMAIN items : items[k] = i /\ \A j \in 1 .. k - 1 : items[j] # i

\* "async with self._lock", up to the write.
Locked(t) ==
  /\ lock = NoTask
  /\ lock' = t
  /\ UNCHANGED <<disk, unsaved>>

Place(t, i, pos) ==
  /\ Locked(t)
  /\ ~Listed(i)
  /\ items' = InsertAt(items, pos, i)
  /\ UNCHANGED <<status, owner>>

AppendItem(t, i) == Place(t, i, Len(items) + 1)

InsertUrgent(t, i) == Place(t, i, 1)

InsertAfter(t, after, i) ==
  /\ Listed(after)
  /\ Place(t, i, FindIndex(after) + 1)

\* Mutants: the item is not popped first; it is popped and not put back.
Reorder_Copies(t, i, newPosition) ==
  /\ Locked(t)
  /\ Listed(i)
  /\ items' = InsertAt(items, newPosition + 1, i)
  /\ UNCHANGED <<status, owner>>

Reorder_Drops(t, i, newPosition) ==
  /\ Locked(t)
  /\ Listed(i)
  /\ items' = RemoveAt(items, FindIndex(i))
  /\ UNCHANGED <<status, owner>>

\* new_position counts from 0 and is clipped to the end of the queue.
Reorder(t, i, newPosition) ==
  LET rest == RemoveAt(items, FindIndex(i))
      pos  == IF newPosition < Len(rest) THEN newPosition ELSE Len(rest)
  IN /\ Locked(t)
     /\ Listed(i)
     /\ items' = InsertAt(rest, pos + 1, i)
     /\ UNCHANGED <<status, owner>>

SetStatus(t, i, s) ==
  /\ Locked(t)
  /\ Listed(i)
  /\ status' = [status EXCEPT ![i] = s]
  /\ UNCHANGED items

Cancel(t, i) == SetStatus(t, i, "cancelled") /\ UNCHANGED owner

MarkCompleted(t, i) == SetStatus(t, i, "completed") /\ UNCHANGED owner

MarkPending(t, i) ==
  /\ SetStatus(t, i, "pending")
  /\ owner' = [owner EXCEPT ![i] = Nobody]

\* Mutants: any open item may be claimed, or any that is not assigned.
FirstPending_Open ==
  SelectInSeq(items, LAMBDA i : status[i] \in {"pending", "assigned"})

FirstPending_Kept ==
  SelectInSeq(items, LAMBDA i : status[i] \in {"pending", "completed"})

FirstPending == SelectInSeq(items, LAMBDA i : status[i] = "pending")

\* claim_next, when there is a pending item (position 0: there is none).
ClaimNext(t, a) ==
  /\ FirstPending # 0
  /\ SetStatus(t, items[FirstPending], "assigned")
  /\ owner' = [owner EXCEPT ![items[FirstPending]] = a]

\* Mutant: the lock is released without a write.
Persist_Skipped(t) ==
  /\ lock = t
  /\ lock' = NoTask
  /\ UNCHANGED <<queueVars, disk, unsaved>>

\* The write under the lock returns.
Persist(t) ==
  /\ lock = t
  /\ disk' = Mem
  /\ lock' = NoTask
  /\ unsaved' = FALSE
  /\ UNCHANGED queueVars

\* The write raises: the lock is released, memory keeps the mutation.
PersistFails(t) ==
  /\ lock = t
  /\ lock' = NoTask
  /\ unsaved' = TRUE
  /\ UNCHANGED <<queueVars, disk>>

\* The process dies and load() reads the stored queue.
Restart ==
  /\ items' = disk.items
  /\ status' = disk.status
  /\ owner' = disk.owner
  /\ lock' = NoTask
  /\ unsaved' = FALSE
  /\ UNCHANGED disk

Edit(t) ==
  \/ \E i \in Items : AppendItem(t, i) \/ InsertUrgent(t, i) \/ Cancel(t, i)
  \/ \E i, j \in Items : InsertAfter(t, j, i)
  \/ \E i \in Items, n \in 0 .. Len(items) : Reorder(t, i, n)

BacklogNext ==
  \/ \E t \in Tasks :
       \/ Edit(t) \/ Persist(t) \/ PersistFails(t)
       \/ \E i \in Items : MarkCompleted(t, i) \/ MarkPending(t, i)
       \/ \E a \in Agents : ClaimNext(t, a)
  \/ Restart

BacklogSpec == BacklogInit /\ [][BacklogNext]_backlogVars
-----------------------------------------------------------------------------
(* Properties.                                                             *)

\* "All mutations persist immediately": whenever no operation is under way,
\* a restart would find exactly the queue in memory, unless the store
\* itself has refused the last write.
Saved == lock = NoTask /\ ~unsaved => disk = Mem

\* An item keeps one place in the queue, whatever is inserted, moved,
\* claimed or interrupted, in memory and in the store.
OncePerItem == IsInjective(items) /\ IsInjective(disk.items)

\* An item that can be claimed belongs to nobody, and an assigned one to
\* somebody: claim_next never takes work away from an agent.
PendingUnowned ==
  \A i \in Items : /\ status[i] = "pending" => owner[i] = Nobody
                   /\ status[i] = "assigned" => owner[i] # Nobody

\* Work that was stored once is never lost from the store, by crashes,
\* failed writes or edits.
NothingLost == [][ToSet(disk.items) \subseteq ToSet(disk'.items)]_backlogVars

\* The entries of a queue: an id that is not listed has none.
Entries(q) ==
  [i \in Items |-> IF i \in ToSet(q.items)
                     THEN [status |-> q.status[i], owner |-> q.owner[i]]
                     ELSE [status |-> "absent", owner |-> Nobody]]

Ledger == INSTANCE WorkLedger WITH
  Items <- Items, Agents <- Agents, Nobody <- Nobody,
  working <- Entries(Mem), saved <- Entries(disk)

\* The queue implements the ledger: whatever the interleaving of claims,
\* edits, sweeps, failed writes and crashes, one entry changes at a time,
\* only unowned pending work is given out, and a crash falls back to a state
\* that was whole.
KeepsLedger == Ledger!LedgerSpec
=============================================================================
