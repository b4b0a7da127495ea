----------------------------- MODULE WorkLedger -----------------------------
(***************************************************************************)
(* What the PM's backlog promises to those who only ask what becomes of a  *)
(* work item, not in which order items wait, who holds the lock or when a  *)
(* write is made: a table of entries that is changed one entry at a time,  *)
(* is saved as a whole, and falls back as a whole to what was saved last.  *)
(***************************************************************************)
CONSTANTS Items, Agents, Nobody

VARIABLES
  working,  \* entries the process works with: [status, owner]
  saved     \* entries that survive it

Entry(s, a) == [status |-> s, owner |-> a]
Absent == Entry("absent", Nobody)

LedgerInit ==
  /\ working = [i \in Items |-> Absent]
  /\ saved = working

\* One entry changes from one of the entries in "from" to "to".
Change(i, from, to) ==
  /\ working[i] \in from
  /\ working' = [working EXCEPT ![i] = to]
  /\ UNCHANGED saved

Present == [status : {"pending", "assigned", "completed", "cancelled"},
            owner : Agents \cup {Nobody}]

Add(i) == Change(i, {Absent}, Entry("pending", Nobody))

\* Only unowned work is given out.
Give(i, a) == Change(i, {Entry("pending", Nobody)}, Entry("assigned", a))

\* Completed and cancelled work remembers its agent; returned work does not.
\* The queue lets any entry be closed or returned whatever its status is
\* (mark_pending and cancel do not look at it): that only work in hand goes
\* back is up to its callers (ProjectState!CompletionStays).
Close(i, s) == Change(i, Present, Entry(s, working[i].owner))

Return(i) == Change(i, Present, Entry("pending", Nobody))

Save == saved' = working /\ UNCHANGED working

FallBack == working' = saved /\ UNCHANGED saved

LedgerNext ==
  \/ \E i \in Items :
       \/ Add(i) \/ Return(i) \/ Close(i, "completed") \/ Close(i, "cancelled")
       \/ \E a \in Agents : Give(i, a)
  \/ Save \/ FallBack

LedgerSpec == LedgerInit /\ [][LedgerNext]_<<working, saved>>
=============================================================================
