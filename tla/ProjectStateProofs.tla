------------------------- MODULE ProjectStateProofs -------------------------
(***************************************************************************)
(* Proofs about Backlog and ProjectState, for any set of items, agents and *)
(* coroutines.  First the queue by itself: what is stored, who owns what,  *)
(* and that edits neither lose nor duplicate work, whatever is interrupted *)
(* and whichever writes fail.  Then the PM, which uses the backlog only    *)
(* through its operations: whatever its handler, the sweep, the editors,   *)
(* failing writes and crashes do, the queue sees steps of BacklogSpec, and *)
(* what was shown of every use of the queue holds of theirs.               *)
(***************************************************************************)
EXTENDS ProjectState, WellFoundedInduction, TLAPS

-----------------------------------------------------------------------------
(* Sequences: what list.insert and list.pop do.                            *)

LEMMA ConcatFacts ==
  ASSUME NEW S, NEW a \in Seq(S), NEW b \in Seq(S)
  PROVE  /\ a \o b \in Seq(S) /\ Len(a \o b) = Len(a) + Len(b)
         /\ \A k \in 1 .. Len(a) + Len(b) :
              (a \o b)[k] = IF k <= Len(a) THEN a[k] ELSE b[k - Len(a)]
OBVIOUS

LEMMA InsertAtFacts ==
  ASSUME NEW S, NEW s \in Seq(S), NEW p \in 1 .. Len(s) + 1, NEW e \in S
  PROVE  /\ InsertAt(s, p, e) \in Seq(S)
         /\ Len(InsertAt(s, p, e)) = Len(s) + 1
         /\ \A k \in 1 .. Len(s) + 1 : InsertAt(s, p, e)[k] =
              IF k < p THEN s[k] ELSE IF k = p THEN e ELSE s[k - 1]
<1> DEFINE a == SubSeq(s, 1, p - 1)
           b == SubSeq(s, p, Len(s))
           c == a \o <<e>>
<1>1. a \in Seq(S) /\ Len(a) = p - 1 /\ \A k \in 1 .. p - 1 : a[k] = s[k]
  OBVIOUS
<1>2. b \in Seq(S) /\ Len(b) = Len(s) - p + 1
      /\ \A k \in 1 .. Len(s) - p + 1 : b[k] = s[p + k - 1]
  OBVIOUS
<1>3. InsertAt(s, p, e) = c \o b
  BY DEF InsertAt
<1> HIDE DEF a, b
<1>4. <<e>> \in Seq(S) /\ Len(<<e>>) = 1 /\ <<e>>[1] = e
  OBVIOUS
<1>5. c \in Seq(S) /\ Len(c) = p
      /\ \A k \in 1 .. p : c[k] = IF k < p THEN s[k] ELSE e
  BY <1>1, <1>4, ConcatFacts
<1> HIDE DEF c
<1>6. /\ c \o b \in Seq(S) /\ Len(c \o b) = Len(s) + 1
      /\ \A k \in 1 .. Len(s) + 1 : (c \o b)[k] = IF k <= p THEN c[k] ELSE b[k - p]
  BY <1>2, <1>5, ConcatFacts
<1>7. \A k \in p + 1 .. Len(s) + 1 : b[k - p] = s[k - 1]
  BY <1>2
<1>8. QED BY <1>3, <1>5, <1>6, <1>7

LEMMA RemoveAtFacts ==
  ASSUME NEW S, NEW s \in Seq(S), NEW p \in 1 .. Len(s)
  PROVE  /\ RemoveAt(s, p) \in Seq(S)
         /\ Len(RemoveAt(s, p)) = Len(s) - 1
         /\ \A k \in 1 .. Len(s) - 1 :
              RemoveAt(s, p)[k] = IF k < p THEN s[k] ELSE s[k + 1]
<1> DEFINE a == SubSeq(s, 1, p - 1)
           b == SubSeq(s, p + 1, Len(s))
<1>1. a \in Seq(S) /\ Len(a) = p - 1 /\ \A k \in 1 .. p - 1 : a[k] = s[k]
  OBVIOUS
<1>2. b \in Seq(S) /\ Len(b) = Len(s) - p
      /\ \A k \in 1 .. Len(s) - p : b[k] = s[p + k]
  OBVIOUS
<1>3. RemoveAt(s, p) = a \o b
  BY DEF RemoveAt
<1> HIDE DEF a, b
<1>4. /\ a \o b \in Seq(S) /\ Len(a \o b) = Len(s) - 1
      /\ \A k \in 1 .. Len(s) - 1 :
           (a \o b)[k] = IF k <= p - 1 THEN a[k] ELSE b[k - (p - 1)]
  BY <1>1, <1>2, ConcatFacts
<1>5. \A k \in p .. Len(s) - 1 : b[k - (p - 1)] = s[k + 1]
  BY <1>2
<1>6. ASSUME NEW k \in 1 .. Len(s) - 1
      PROVE  (a \o b)[k] = IF k < p THEN s[k] ELSE s[k + 1]
  <2>1. CASE k < p
    BY <1>1, <1>4, <2>1
  <2>2. CASE k >= p
    BY <1>4, <1>5, <2>2
  <2>3. k < p \/ k >= p
    OBVIOUS
  <2>4. QED BY <2>1, <2>2, <2>3
<1>7. QED BY <1>3, <1>4, <1>6

LEMMA InsertKeeps ==
  ASSUME NEW S, NEW s \in Seq(S), NEW p \in 1 .. Len(s) + 1, NEW e \in S,
         IsInjective(s), e \notin ToSet(s)
  PROVE  /\ IsInjective(InsertAt(s, p, e))
         /\ ToSet(InsertAt(s, p, e)) = ToSet(s) \cup {e}
<1> DEFINE r == InsertAt(s, p, e)
<1>1. /\ r \in Seq(S) /\ Len(r) = Len(s) + 1 /\ DOMAIN r = 1 .. Len(s) + 1
      /\ \A k \in 1 .. Len(s) + 1 : r[k] =
              IF k < p THEN s[k] ELSE IF k = p THEN e ELSE s[k - 1]
  BY InsertAtFacts
<1> HIDE DEF r
<1>2. \A k \in 1 .. Len(s) : s[k] # e /\ s[k] \in ToSet(s)
  BY DEF ToSet
<1>3. \A j, k \in 1 .. Len(s) : s[j] = s[k] => j = k
  BY DEF IsInjective
<1>4. IsInjective(r)
  <2> SUFFICES ASSUME NEW j \in 1 .. Len(s) + 1, NEW k \in 1 .. Len(s) + 1,
                      r[j] = r[k]
               PROVE  j = k
    BY <1>1 DEF IsInjective
  <2> DEFINE old(n) == IF n < p THEN n ELSE n - 1
  <2>1. \A n \in 1 .. Len(s) + 1 : n # p => old(n) \in 1 .. Len(s) /\ r[n] = s[old(n)]
    <3> SUFFICES ASSUME NEW n \in 1 .. Len(s) + 1, n # p
                 PROVE  old(n) \in 1 .. Len(s) /\ r[n] = s[old(n)]
      OBVIOUS
    <3>1. Len(s) \in Nat /\ p \in Nat /\ n \in Nat
      OBVIOUS
    <3>2. old(n) \in 1 .. Len(s)
      BY <3>1
    <3>3. QED BY <1>1, <3>1, <3>2
  <2>2. CASE j = p \/ k = p
    <3>1. r[p] = e
      BY <1>1
    <3>2. \A n \in 1 .. Len(s) + 1 : n # p => r[n] # e
      BY <1>2, <2>1
    <3>3. QED BY <2>2, <3>1, <3>2
  <2>3. CASE j # p /\ k # p
    <3>1. old(j) = old(k)
      BY <1>3, <2>1, <2>3
    <3>2. QED BY <2>3, <3>1
  <2>4. QED BY <2>2, <2>3
<1>5. ToSet(r) \subseteq ToSet(s) \cup {e}
  BY <1>1, <1>2 DEF ToSet
<1>6. ASSUME NEW x \in ToSet(s) \cup {e} PROVE x \in ToSet(r)
  <2>1. CASE x = e
    BY <1>1, <2>1 DEF ToSet
  <2>2. CASE x \in ToSet(s)
    <3>1. PICK k \in 1 .. Len(s) : s[k] = x
      BY <2>2 DEF ToSet
    <3>2. CASE k < p
      <4>1. k \in DOMAIN r /\ r[k] = x
        BY <1>1, <3>1, <3>2
      <4>2. QED BY <4>1 DEF ToSet
    <3>3. CASE k >= p
      <4>1. k + 1 \in DOMAIN r /\ r[k + 1] = x
        BY <1>1, <3>1, <3>3
      <4>2. QED BY <4>1 DEF ToSet
    <3>4. QED BY <3>2, <3>3
  <2>3. QED BY <2>1, <2>2
<1>7. QED BY <1>4, <1>5, <1>6 DEF r

LEMMA RemoveKeeps ==
  ASSUME NEW S, NEW s \in Seq(S), NEW p \in 1 .. Len(s), IsInjective(s)
  PROVE  /\ IsInjective(RemoveAt(s, p))
         /\ ToSet(RemoveAt(s, p)) = ToSet(s) \ {s[p]}
<1> DEFINE r == RemoveAt(s, p)
<1>1. /\ r \in Seq(S) /\ Len(r) = Len(s) - 1 /\ DOMAIN r = 1 .. Len(s) - 1
      /\ \A k \in 1 .. Len(s) - 1 : r[k] = IF k < p THEN s[k] ELSE s[k + 1]
  <2>1. r \in Seq(S) /\ Len(r) = Len(s) - 1
    BY RemoveAtFacts
  <2>2. DOMAIN r = 1 .. Len(s) - 1
    BY <2>1
  <2>3. QED BY <2>1, <2>2, RemoveAtFacts
<1> HIDE DEF r
<1>2. \A j, k \in 1 .. Len(s) : s[j] = s[k] => j = k
  BY DEF IsInjective
<1>3. IsInjective(r)
  BY <1>1, <1>2 DEF IsInjective
<1>4. ToSet(r) \subseteq ToSet(s) \ {s[p]}
  BY <1>1, <1>2 DEF ToSet
<1>5. ASSUME NEW x \in ToSet(s) \ {s[p]} PROVE x \in ToSet(r)
  <2>1. PICK k \in 1 .. Len(s) : s[k] = x /\ k # p
    BY DEF ToSet
  <2>2. CASE k < p
    BY <1>1, <2>1, <2>2 DEF ToSet
  <2>3. CASE k > p
    <3>1. k - 1 \in DOMAIN r /\ r[k - 1] = x
      BY <1>1, <2>1, <2>3
    <3>2. QED BY <3>1 DEF ToSet
  <2>4. QED BY <2>1, <2>2, <2>3
<1>6. QED BY <1>3, <1>4, <1>5 DEF r

-----------------------------------------------------------------------------
(* The invariant.                                                          *)

\* Ownership as PendingUnowned states it, of any pair of status and owner.
Owned(st, ow) ==
  \A i \in Items : /\ st[i] = "pending" => ow[i] = Nobody
                   /\ st[i] = "assigned" => ow[i] # Nobody

\* The stored value is what _persist writes.
DiskShape ==
  disk = [items |-> disk.items, status |-> disk.status, owner |-> disk.owner]

\* Memory never runs behind the store.
StoredListed == ToSet(disk.items) \subseteq ToSet(items)

\* A restart makes the stored queue the one in memory, so the stored one
\* must satisfy the invariant too, also while a write is under way.
BacklogInv ==
  /\ BacklogTypeOK
  /\ DiskShape
  /\ Saved
  /\ Owned(status, owner)
  /\ Owned(disk.status, disk.owner)
  /\ OncePerItem
  /\ StoredListed

LEMMA BacklogInitInv == BacklogInit => BacklogInv
<1> SUFFICES ASSUME BacklogInit PROVE BacklogInv
  OBVIOUS
<1>1. items = <<>> /\ disk.items = <<>>
  BY DEF BacklogInit, Mem
<1>2. OncePerItem /\ StoredListed
  BY <1>1 DEF OncePerItem, StoredListed, IsInjective, ToSet
<1>3. BacklogTypeOK
  <2>1. disk.status = status /\ disk.owner = owner /\ <<>> \in Seq(Items)
    BY DEF BacklogInit, Mem
  <2>2. /\ status \in [Items -> Status]
        /\ owner \in [Items -> Agents \cup {Nobody}]
        /\ lock \in Tasks \cup {NoTask} /\ unsaved \in BOOLEAN
    BY DEF BacklogInit, Status
  <2>3. QED BY <1>1, <2>1, <2>2 DEF BacklogTypeOK
<1>4. QED
  BY <1>2, <1>3 DEF BacklogInit, BacklogInv, DiskShape, Saved, Owned, Mem

\* A mutation under the lock: the store does not change, and Saved says
\* nothing until the lock is released.
LEMMA MutationInv ==
  ASSUME BacklogInv, NEW t \in Tasks, Locked(t),
         items' \in Seq(Items), IsInjective(items'),
         ToSet(items) \subseteq ToSet(items'),
         status' \in [Items -> Status], owner' \in [Items -> Agents \cup {Nobody}],
         Owned(status', owner')
  PROVE  BacklogInv'
<1>1. lock' = t /\ t # NoTask /\ disk' = disk /\ unsaved' = unsaved
  BY BacklogAssumption DEF Locked
<1>2. Saved'
  BY <1>1 DEF Saved
<1>3. BacklogTypeOK' /\ DiskShape'
  BY <1>1 DEF BacklogInv, BacklogTypeOK, DiskShape
<1>4. Owned(disk.status, disk.owner)' /\ Owned(status, owner)'
  BY <1>1 DEF BacklogInv, Owned
<1>5. OncePerItem' /\ StoredListed'
  BY <1>1 DEF BacklogInv, OncePerItem, StoredListed
<1>6. QED BY <1>2, <1>3, <1>4, <1>5 DEF BacklogInv

\* One item changes its status and possibly its owner.
LEMMA StatusInv ==
  ASSUME BacklogInv, NEW t \in Tasks, NEW i, NEW s \in Status,
         SetStatus(t, i, s), owner' \in [Items -> Agents \cup {Nobody}],
         \A j \in Items : j # i => owner'[j] = owner[j],
         i \in Items => /\ s = "pending" => owner'[i] = Nobody
                        /\ s = "assigned" => owner'[i] # Nobody
  PROVE  BacklogInv'
<1>1. Locked(t) /\ status' = [status EXCEPT ![i] = s] /\ items' = items
  BY DEF SetStatus
<1>2. status' \in [Items -> Status]
  BY <1>1 DEF BacklogInv, BacklogTypeOK
<1>3. Owned(status', owner')
  BY <1>1 DEF BacklogInv, BacklogTypeOK, Owned
<1>4. items' \in Seq(Items) /\ IsInjective(items') /\ ToSet(items) \subseteq ToSet(items')
  BY <1>1 DEF BacklogInv, BacklogTypeOK, OncePerItem
<1>5. QED BY <1>1, <1>2, <1>3, <1>4, MutationInv

\* The order of the queue changes, and the items keep status and owner.
LEMMA OrderInv ==
  ASSUME BacklogInv, NEW t \in Tasks, Locked(t), UNCHANGED <<status, owner>>,
         items' \in Seq(Items), IsInjective(items'),
         ToSet(items) \subseteq ToSet(items')
  PROVE  BacklogInv'
BY MutationInv DEF BacklogInv, BacklogTypeOK

LEMMA PlaceInv ==
  ASSUME BacklogInv, NEW t \in Tasks, NEW i \in Items,
         NEW pos \in 1 .. Len(items) + 1, Place(t, i, pos)
  PROVE  BacklogInv'
<1>1. items \in Seq(Items) /\ IsInjective(items) /\ i \notin ToSet(items)
  BY DEF BacklogInv, BacklogTypeOK, OncePerItem, Place, Listed
<1>2. items' = InsertAt(items, pos, i)
  BY DEF Place
<1>3. items' \in Seq(Items)
  BY <1>1, <1>2, InsertAtFacts
<1>4. IsInjective(items') /\ ToSet(items) \subseteq ToSet(items')
  BY <1>1, <1>2, InsertKeeps
<1>5. QED BY <1>3, <1>4, OrderInv DEF Place

\* _find_index finds a listed item, because it is listed once.
LEMMA FindIndexFacts ==
  ASSUME BacklogInv, NEW i, Listed(i)
  PROVE  FindIndex(i) \in 1 .. Len(items) /\ items[FindIndex(i)] = i
<1>1. items \in Seq(Items) /\ DOMAIN items = 1 .. Len(items)
  BY DEF BacklogInv, BacklogTypeOK
<1>2. PICK k \in 1 .. Len(items) : items[k] = i
  BY <1>1 DEF Listed, ToSet
<1>3. \A j \in 1 .. k - 1 : j \in DOMAIN items /\ j # k
  BY <1>1
<1>4. \A j \in 1 .. k - 1 : items[j] # i
  BY <1>1, <1>2, <1>3 DEF BacklogInv, OncePerItem, IsInjective
<1>5. QED BY <1>1, <1>2, <1>4 DEF FindIndex

LEMMA ReorderSet ==
  ASSUME BacklogInv, NEW t \in Tasks, NEW i \in Items,
         NEW n \in 0 .. Len(items), Reorder(t, i, n)
  PROVE  /\ items' \in Seq(Items) /\ IsInjective(items')
         /\ ToSet(items') = ToSet(items)
<1> DEFINE k == FindIndex(i)
           rest == RemoveAt(items, k)
           pos == IF n < Len(rest) THEN n ELSE Len(rest)
<1>1. Locked(t) /\ Listed(i) /\ items' = InsertAt(rest, pos + 1, i)
      /\ UNCHANGED <<status, owner>>
  BY DEF Reorder
<1>2. items \in Seq(Items) /\ IsInjective(items)
  BY DEF BacklogInv, BacklogTypeOK, OncePerItem
<1>3. k \in 1 .. Len(items) /\ items[k] = i
  BY <1>1, FindIndexFacts
<1> HIDE DEF k
<1>4. rest \in Seq(Items) /\ Len(rest) = Len(items) - 1
  BY <1>2, <1>3, RemoveAtFacts
<1>5. IsInjective(rest) /\ ToSet(rest) = ToSet(items) \ {i}
  BY <1>2, <1>3, RemoveKeeps
<1>6. pos + 1 \in 1 .. Len(rest) + 1
  BY <1>2, <1>4
<1> HIDE DEF rest, pos
<1>7. items' \in Seq(Items)
  BY <1>1, <1>4, <1>6, InsertAtFacts
<1>8. IsInjective(items') /\ ToSet(items') = ToSet(rest) \cup {i}
  BY <1>1, <1>4, <1>5, <1>6, InsertKeeps
<1>9. i \in ToSet(items)
  BY <1>1 DEF Listed
<1>10. QED BY <1>5, <1>7, <1>8, <1>9

LEMMA ReorderInv ==
  ASSUME BacklogInv, NEW t \in Tasks, NEW i \in Items,
         NEW n \in 0 .. Len(items), Reorder(t, i, n)
  PROVE  BacklogInv'
<1>1. Locked(t) /\ UNCHANGED <<status, owner>>
  BY DEF Reorder
<1>2. QED BY <1>1, ReorderSet, OrderInv

LEMMA EditInv ==
  ASSUME BacklogInv, NEW t \in Tasks, Edit(t)
  PROVE  BacklogInv'
<1>1. items \in Seq(Items) /\ owner \in [Items -> Agents \cup {Nobody}]
  BY DEF BacklogInv, BacklogTypeOK
<1>2. ASSUME NEW i \in Items, Cancel(t, i)
      PROVE  BacklogInv'
  <2>1. SetStatus(t, i, "cancelled") /\ owner' = owner
    BY <1>2 DEF Cancel
  <2>2. QED BY <1>1, <2>1, StatusInv DEF Status
<1>3. ASSUME NEW i \in Items, AppendItem(t, i) \/ InsertUrgent(t, i)
      PROVE  BacklogInv'
  BY <1>1, <1>3, PlaceInv DEF AppendItem, InsertUrgent
<1>4. ASSUME NEW i \in Items, NEW j \in Items, InsertAfter(t, j, i)
      PROVE  BacklogInv'
  <2>1. FindIndex(j) \in 1 .. Len(items)
    BY <1>4, FindIndexFacts DEF InsertAfter
  <2>2. FindIndex(j) + 1 \in 1 .. Len(items) + 1
    BY <1>1, <2>1
  <2>3. QED BY <1>4, <2>2, PlaceInv DEF InsertAfter
<1>5. QED BY <1>2, <1>3, <1>4, ReorderInv DEF Edit

LEMMA BacklogNextInv ==
  ASSUME BacklogInv, BacklogNext
  PROVE  BacklogInv'
<1>0. owner \in [Items -> Agents \cup {Nobody}]
  BY DEF BacklogInv, BacklogTypeOK
<1>1. ASSUME NEW t \in Tasks, Edit(t)
      PROVE  BacklogInv'
  BY <1>1, EditInv
<1>2. ASSUME NEW t \in Tasks, Persist(t)
      PROVE  BacklogInv'
  <2>1. UNCHANGED <<items, status, owner>> /\ disk' = Mem /\ lock' = NoTask
        /\ unsaved' = FALSE
    BY <1>2 DEF Persist, queueVars
  <2>2. disk'.items = items /\ disk'.status = status /\ disk'.owner = owner
    BY <2>1 DEF Mem
  <2>3. BacklogTypeOK'
    BY <2>1, <2>2 DEF BacklogInv, BacklogTypeOK
  <2>4. DiskShape' /\ Saved'
    BY <2>1 DEF DiskShape, Saved, Mem
  <2>5. Owned(status, owner)' /\ Owned(disk.status, disk.owner)'
    BY <2>1, <2>2 DEF BacklogInv, Owned
  <2>6. OncePerItem' /\ StoredListed'
    BY <2>1, <2>2 DEF BacklogInv, OncePerItem, StoredListed
  <2>7. QED BY <2>3, <2>4, <2>5, <2>6 DEF BacklogInv
<1>3. ASSUME NEW t \in Tasks, PersistFails(t)
      PROVE  BacklogInv'
  <2>1. UNCHANGED <<items, status, owner, disk>> /\ unsaved' = TRUE /\ lock' = NoTask
    BY <1>3 DEF PersistFails, queueVars
  <2>2. QED
    BY <2>1 DEF BacklogInv, BacklogTypeOK, DiskShape, Saved, Owned, OncePerItem,
                StoredListed
<1>4. ASSUME NEW t \in Tasks, NEW i \in Items, MarkCompleted(t, i)
      PROVE  BacklogInv'
  <2>1. SetStatus(t, i, "completed") /\ owner' = owner
    BY <1>4 DEF MarkCompleted
  <2>2. QED BY <1>0, <2>1, StatusInv DEF Status
<1>5. ASSUME NEW t \in Tasks, NEW i \in Items, MarkPending(t, i)
      PROVE  BacklogInv'
  <2>1. SetStatus(t, i, "pending") /\ owner' = [owner EXCEPT ![i] = Nobody]
    BY <1>5 DEF MarkPending
  <2>2. QED BY <1>0, <2>1, StatusInv DEF Status
<1>6. ASSUME NEW t \in Tasks, NEW a \in Agents, ClaimNext(t, a)
      PROVE  BacklogInv'
  <2> DEFINE i == items[FirstPending]
  <2>1. SetStatus(t, i, "assigned") /\ owner' = [owner EXCEPT ![i] = a]
    BY <1>6 DEF ClaimNext
  <2>2. a # Nobody
    BY BacklogAssumption
  <2> HIDE DEF i
  <2>3. QED BY <1>0, <2>1, <2>2, StatusInv DEF Status
<1>7. CASE Restart
  <2>1. /\ items' = disk.items /\ status' = disk.status /\ owner' = disk.owner
        /\ disk' = disk /\ lock' = NoTask /\ unsaved' = FALSE
    BY <1>7 DEF Restart
  <2>2. Saved' /\ DiskShape'
    BY <2>1 DEF BacklogInv, Saved, DiskShape, Mem
  <2>3. QED
    BY <2>1, <2>2 DEF BacklogInv, BacklogTypeOK, Owned, OncePerItem, StoredListed
<1>8. QED BY <1>1, <1>2, <1>3, <1>4, <1>5, <1>6, <1>7 DEF BacklogNext

-----------------------------------------------------------------------------
\* The backlog's invariant, for every caller.
THEOREM BacklogSafety == BacklogSpec => []BacklogInv
<1>1. BacklogInv /\ UNCHANGED backlogVars => BacklogInv'
  BY DEF backlogVars, BacklogInv, BacklogTypeOK, DiskShape, Saved, Owned, Mem,
         OncePerItem, StoredListed
<1>2. BacklogInv /\ [BacklogNext]_backlogVars => BacklogInv'
  BY <1>1, BacklogNextInv
<1>3. QED BY <1>2, BacklogInitInv, PTL DEF BacklogSpec

\* "All mutations persist immediately" (Saved): between operations the store
\* holds the queue in memory, across failed writes and restarts.
THEOREM BacklogSaved == BacklogSpec => []Saved
<1>1. BacklogInv => Saved
  BY DEF BacklogInv
<1>2. QED BY <1>1, BacklogSafety, PTL

\* An item has one place in the queue (OncePerItem), in memory and stored,
\* whatever insert_after, reorder and restarts do to it.
THEOREM BacklogOnce == BacklogSpec => []OncePerItem
<1>1. BacklogInv => OncePerItem
  BY DEF BacklogInv
<1>2. QED BY <1>1, BacklogSafety, PTL

\* claim_next only hands out items that belong to nobody (PendingUnowned).
THEOREM BacklogUnowned == BacklogSpec => []PendingUnowned
<1>1. BacklogInv => PendingUnowned
  BY DEF BacklogInv, Owned, PendingUnowned
<1>2. QED BY <1>1, BacklogSafety, PTL

\* Stored work stays stored (NothingLost): no edit, restart or failed write
\* makes an item disappear from the store.
THEOREM BacklogKeeps == BacklogSpec => NothingLost
<1>1. BacklogInv /\ [BacklogNext]_backlogVars
        => [ToSet(disk.items) \subseteq ToSet(disk'.items)]_backlogVars
  <2> SUFFICES ASSUME BacklogInv, BacklogNext
               PROVE  ToSet(disk.items) \subseteq ToSet(disk'.items)
    OBVIOUS
  <2>1. disk' = disk \/ disk' = Mem
    BY DEF BacklogNext, Edit, AppendItem, InsertUrgent, InsertAfter, Place,
           Reorder, Cancel, MarkCompleted, MarkPending, ClaimNext, SetStatus,
           Locked, Persist, PersistFails, Restart
  <2>2. QED BY <2>1 DEF Mem, BacklogInv, StoredListed
<1>2. QED BY <1>1, BacklogSafety, PTL DEF BacklogSpec, NothingLost
-----------------------------------------------------------------------------
(* The queue implements the ledger.                                        *)

\* A non-empty set of naturals has a least element.
LEMMA MinOfSet ==
  ASSUME NEW S, S \subseteq Nat, S # {}
  PROVE  Min(S) \in S
<1>1. \E x \in S : \A y \in S : ~ (<<y, x>> \in OpToRel(<, Nat))
  BY NatLessThanWellFounded, WFMin
<1>2. \A x, y \in Nat : <<y, x>> \in OpToRel(<, Nat) <=> y < x
  BY DEF OpToRel
<1>3. PICK x \in S : \A y \in S : ~ (y < x)
  BY <1>1, <1>2
<1>4. \A y \in S : x =< y
  BY <1>3
<1>5. QED BY <1>4 DEF Min

\* next() over the list finds an item that is pending.
LEMMA FirstPendingFacts ==
  ASSUME BacklogInv, FirstPending # 0
  PROVE  /\ FirstPending \in 1 .. Len(items)
         /\ status[items[FirstPending]] = "pending"
<1> DEFINE I == {k \in 1 .. Len(items) : status[items[k]] = "pending"}
<1>1. FirstPending = IF I # {} THEN Min(I) ELSE 0
  BY DEF FirstPending, SelectInSeq
<1>2. Len(items) \in Nat
  BY DEF BacklogInv, BacklogTypeOK
<1>3. I \subseteq Nat
  BY <1>2
<1>4. I # {} /\ FirstPending = Min(I)
  BY <1>1
<1>5. Min(I) \in I
  BY <1>3, <1>4, MinOfSet
<1>6. QED BY <1>4, <1>5

\* An id that is not in the queue yet has never been touched.
Fresh(q, st) == \A i \in Items : i \notin ToSet(q) => st[i] = "pending"

LedgerInv == BacklogInv /\ Fresh(items, status) /\ Fresh(disk.items, disk.status)

LEMMA LedgerStart == BacklogInit => LedgerInv /\ Ledger!LedgerInit
<1> SUFFICES ASSUME BacklogInit PROVE LedgerInv /\ Ledger!LedgerInit
  OBVIOUS
<1>1. BacklogInv
  BY BacklogInitInv
<1>2. items = <<>> /\ disk = Mem /\ status = [i \in Items |-> "pending"]
  BY DEF BacklogInit
<1>3. Fresh(items, status) /\ Fresh(disk.items, disk.status)
  BY <1>2 DEF Fresh, Mem
<1>4. ToSet(items) = {}
  BY <1>2 DEF ToSet
<1>5. Entries(Mem) = [i \in Items |-> Ledger!Absent] /\ Entries(disk) = Entries(Mem)
  BY <1>2, <1>4 DEF Entries, Mem, Ledger!Absent, Ledger!Entry
<1>6. QED BY <1>1, <1>3, <1>5 DEF LedgerInv, Ledger!LedgerInit

\* A reordering is a stuttering step of the ledger.
LEMMA SameEntries ==
  ASSUME NEW t, Locked(t), UNCHANGED <<status, owner>>, ToSet(items') = ToSet(items)
  PROVE  Entries(Mem)' = Entries(Mem) /\ Entries(disk)' = Entries(disk)
BY DEF Locked, Entries, Mem

\* What an entry is, by whether its item is listed.
LEMMA EntryOf ==
  ASSUME NEW i \in Items
  PROVE  /\ Listed(i) => Entries(Mem)[i] = Ledger!Entry(status[i], owner[i])
         /\ ~Listed(i) => Entries(Mem)[i] = Ledger!Absent
BY DEF Entries, Mem, Listed, Ledger!Entry, Ledger!Absent

LEMMA PlaceAdds ==
  ASSUME LedgerInv, NEW t \in Tasks, NEW i \in Items,
         NEW pos \in 1 .. Len(items) + 1, Place(t, i, pos)
  PROVE  Ledger!Add(i) /\ Fresh(items, status)' /\ UNCHANGED disk
<1>1. items \in Seq(Items) /\ IsInjective(items) /\ i \notin ToSet(items)
  BY DEF LedgerInv, BacklogInv, BacklogTypeOK, OncePerItem, Place, Listed
<1>2. items' = InsertAt(items, pos, i) /\ UNCHANGED <<status, owner, disk>>
  BY DEF Place, Locked
<1>3. ToSet(items') = ToSet(items) \cup {i}
  BY <1>1, <1>2, InsertKeeps
<1>4. status[i] = "pending" /\ owner[i] = Nobody
  BY <1>1 DEF LedgerInv, Fresh, BacklogInv, Owned
<1>5. Entries(Mem)[i] = Ledger!Absent
  BY <1>1, EntryOf DEF Listed
<1>6. Entries(Mem)' = [Entries(Mem) EXCEPT ![i] = Ledger!Entry("pending", Nobody)]
  BY <1>2, <1>3, <1>4 DEF Entries, Mem, Ledger!Entry
<1>7. Entries(disk)' = Entries(disk)
  BY <1>2 DEF Entries
<1>8. Fresh(items, status)'
  BY <1>2, <1>3 DEF LedgerInv, Fresh
<1>9. QED BY <1>2, <1>5, <1>6, <1>7, <1>8 DEF Ledger!Add, Ledger!Change

\* One listed item changes: one entry of the ledger does.
Sets(t, i, s, o) == SetStatus(t, i, s) /\ owner' = [owner EXCEPT ![i] = o]

EntryBecomes(i, s, o) ==
  /\ i \in Items
  /\ Entries(Mem)[i] = Ledger!Entry(status[i], owner[i])
  /\ Entries(Mem)[i] \in Ledger!Present
  /\ Entries(Mem)' = [Entries(Mem) EXCEPT ![i] = Ledger!Entry(s, o)]
  /\ Entries(disk)' = Entries(disk)
  /\ Fresh(items, status)' /\ UNCHANGED disk

LEMMA StatusChanges ==
  ASSUME LedgerInv, NEW t, NEW i, NEW s, NEW o, Sets(t, i, s, o)
  PROVE  EntryBecomes(i, s, o)
<1>0. SetStatus(t, i, s) /\ owner' = [owner EXCEPT ![i] = o]
  BY DEF Sets
<1>1. Listed(i) /\ status' = [status EXCEPT ![i] = s] /\ items' = items /\ disk' = disk
  BY <1>0 DEF SetStatus, Locked
<1>2. /\ items \in Seq(Items) /\ status \in [Items -> Status]
      /\ owner \in [Items -> Agents \cup {Nobody}]
  BY DEF LedgerInv, BacklogInv, BacklogTypeOK
<1>3. i \in Items
  BY <1>1, <1>2 DEF Listed, ToSet
<1>4. Entries(Mem)[i] = Ledger!Entry(status[i], owner[i])
  BY <1>1, <1>3, EntryOf
<1>5. Entries(Mem)[i] \in Ledger!Present
  BY <1>2, <1>3, <1>4 DEF Ledger!Present, Ledger!Entry, Status
<1>6. Entries(Mem)' = [Entries(Mem) EXCEPT ![i] = Ledger!Entry(s, o)]
  BY <1>0, <1>1, <1>2, <1>3 DEF Entries, Mem, Ledger!Entry, Listed
<1>7. Fresh(items, status)'
  BY <1>1, <1>2 DEF LedgerInv, Fresh, Listed
<1>8. QED BY <1>1, <1>3, <1>4, <1>5, <1>6, <1>7 DEF Entries, EntryBecomes

LEMMA EditLedger ==
  ASSUME LedgerInv, NEW t \in Tasks, Edit(t)
  PROVE  /\ \/ \E i \in Items : Ledger!Add(i) \/ Ledger!Close(i, "cancelled")
            \/ UNCHANGED <<Entries(Mem), Entries(disk)>>
         /\ Fresh(items, status)' /\ UNCHANGED disk
<1>1. items \in Seq(Items) /\ owner \in [Items -> Agents \cup {Nobody}] /\ BacklogInv
  BY DEF LedgerInv, BacklogInv, BacklogTypeOK
<1>2. ASSUME NEW i \in Items, Cancel(t, i)
      PROVE  Ledger!Close(i, "cancelled") /\ Fresh(items, status)' /\ UNCHANGED disk
  <2>1. Sets(t, i, "cancelled", owner[i])
    BY <1>1, <1>2 DEF Cancel, Sets
  <2>2. EntryBecomes(i, "cancelled", owner[i])
    BY <2>1, StatusChanges
  <2>3. Entries(Mem)[i].owner = owner[i]
    BY <2>2 DEF Ledger!Entry, EntryBecomes
  <2>4. QED BY <2>2, <2>3 DEF Ledger!Close, Ledger!Change, EntryBecomes
<1>3. ASSUME NEW i \in Items, AppendItem(t, i) \/ InsertUrgent(t, i)
      PROVE  Ledger!Add(i) /\ Fresh(items, status)' /\ UNCHANGED disk
  BY <1>1, <1>3, PlaceAdds DEF AppendItem, InsertUrgent
<1>4. ASSUME NEW i \in Items, NEW j \in Items, InsertAfter(t, j, i)
      PROVE  Ledger!Add(i) /\ Fresh(items, status)' /\ UNCHANGED disk
  <2>1. FindIndex(j) \in 1 .. Len(items)
    BY <1>1, <1>4, FindIndexFacts DEF InsertAfter
  <2>2. FindIndex(j) + 1 \in 1 .. Len(items) + 1
    BY <1>1, <2>1
  <2>3. QED BY <1>4, <2>2, PlaceAdds DEF InsertAfter
<1>5. ASSUME NEW i \in Items, NEW n \in 0 .. Len(items), Reorder(t, i, n)
      PROVE  /\ UNCHANGED <<Entries(Mem), Entries(disk)>>
             /\ Fresh(items, status)' /\ UNCHANGED disk
  <2>1. Locked(t) /\ UNCHANGED <<status, owner, disk>>
    BY <1>5 DEF Reorder, Locked
  <2>2. ToSet(items') = ToSet(items)
    BY <1>1, <1>5, ReorderSet
  <2>3. Fresh(items, status)'
    BY <2>1, <2>2 DEF LedgerInv, Fresh
  <2>4. QED BY <2>1, <2>2, <2>3, SameEntries
<1>6. QED BY <1>2, <1>3, <1>4, <1>5 DEF Edit

LEMMA LedgerStep ==
  ASSUME LedgerInv, BacklogNext
  PROVE  /\ Fresh(items, status)' /\ Fresh(disk.items, disk.status)'
         /\ Ledger!LedgerNext \/ UNCHANGED <<Entries(Mem), Entries(disk)>>
<1>0. /\ Fresh(items, status) /\ Fresh(disk.items, disk.status) /\ BacklogInv
      /\ owner \in [Items -> Agents \cup {Nobody}]
  BY DEF LedgerInv, BacklogInv, BacklogTypeOK
<1> DEFINE Goal == /\ Fresh(items, status)' /\ Fresh(disk.items, disk.status)'
                   /\ Ledger!LedgerNext \/ UNCHANGED <<Entries(Mem), Entries(disk)>>
<1>1. disk' = disk => Fresh(disk.items, disk.status)'
  BY <1>0 DEF Fresh
<1>2. ASSUME NEW t \in Tasks, Edit(t)
      PROVE  Goal
  BY <1>1, <1>2, EditLedger DEF Ledger!LedgerNext
<1>3. ASSUME NEW t \in Tasks, Persist(t)
      PROVE  Goal
  <2>1. UNCHANGED <<items, status, owner>> /\ disk' = Mem
    BY <1>3 DEF Persist, queueVars
  <2>2. Fresh(items, status)' /\ Fresh(disk.items, disk.status)'
    BY <1>0, <2>1 DEF Fresh, Mem
  <2>3. Ledger!Save
    BY <2>1 DEF Ledger!Save, Entries, Mem
  <2>4. QED BY <2>2, <2>3 DEF Ledger!LedgerNext
<1>4. ASSUME NEW t \in Tasks, PersistFails(t)
      PROVE  Goal
  BY <1>0, <1>4 DEF PersistFails, queueVars, Fresh, Entries, Mem
<1>5. ASSUME NEW t \in Tasks, NEW i \in Items, MarkCompleted(t, i)
      PROVE  Goal
  <2>1. Sets(t, i, "completed", owner[i])
    BY <1>0, <1>5 DEF MarkCompleted, Sets
  <2>2. EntryBecomes(i, "completed", owner[i])
    BY <2>1, StatusChanges
  <2>3. Entries(Mem)[i].owner = owner[i]
    BY <2>2 DEF Ledger!Entry, EntryBecomes
  <2>4. Ledger!Close(i, "completed") /\ Fresh(items, status)' /\ UNCHANGED disk
    BY <2>2, <2>3 DEF Ledger!Close, Ledger!Change, EntryBecomes
  <2>5. QED BY <1>1, <2>4 DEF Ledger!LedgerNext
<1>6. ASSUME NEW t \in Tasks, NEW i \in Items, MarkPending(t, i)
      PROVE  Goal
  <2>1. Sets(t, i, "pending", Nobody)
    BY <1>6 DEF MarkPending, Sets
  <2>2. EntryBecomes(i, "pending", Nobody)
    BY <2>1, StatusChanges
  <2>3. Ledger!Return(i)
    BY <2>2 DEF Ledger!Return, Ledger!Change, EntryBecomes
  <2>4. QED BY <1>1, <2>2, <2>3 DEF Ledger!LedgerNext, EntryBecomes
<1>7. ASSUME NEW t \in Tasks, NEW a \in Agents, ClaimNext(t, a)
      PROVE  Goal
  <2> DEFINE i == items[FirstPending]
  <2>1. Sets(t, i, "assigned", a) /\ FirstPending # 0
    BY <1>7 DEF ClaimNext, Sets
  <2>2. status[i] = "pending"
    BY <1>0, <2>1, FirstPendingFacts
  <2> HIDE DEF i
  <2>3. EntryBecomes(i, "assigned", a)
    BY <2>1, StatusChanges
  <2>4. owner[i] = Nobody
    BY <1>0, <2>2, <2>3 DEF BacklogInv, Owned, EntryBecomes
  <2>5. Ledger!Give(i, a) /\ Fresh(items, status)' /\ UNCHANGED disk
    BY <2>2, <2>3, <2>4 DEF Ledger!Give, Ledger!Change, EntryBecomes
  <2>6. QED BY <1>1, <2>3, <2>5 DEF Ledger!LedgerNext, EntryBecomes
<1>8. CASE Restart
  <2>1. /\ items' = disk.items /\ status' = disk.status /\ owner' = disk.owner
        /\ disk' = disk
    BY <1>8 DEF Restart
  <2>2. Fresh(items, status)' /\ Fresh(disk.items, disk.status)'
    BY <1>0, <2>1 DEF Fresh
  <2>3. Ledger!FallBack
    BY <2>1 DEF Ledger!FallBack, Entries, Mem
  <2>4. QED BY <2>2, <2>3 DEF Ledger!LedgerNext
<1>9. QED BY <1>2, <1>3, <1>4, <1>5, <1>6, <1>7, <1>8 DEF BacklogNext

\* The queue implements the ledger (KeepsLedger), for every use of it: one
\* entry changes at a time, claim_next gives out unowned pending work only,
\* and a restart falls back to a whole stored queue.
THEOREM BacklogImplementsLedger == BacklogSpec => KeepsLedger
<1>1. LedgerInv /\ [BacklogNext]_backlogVars
        => LedgerInv' /\ [Ledger!LedgerNext]_<<Entries(Mem), Entries(disk)>>
  <2>1. ASSUME LedgerInv, UNCHANGED backlogVars
        PROVE  LedgerInv' /\ UNCHANGED <<Entries(Mem), Entries(disk)>>
    BY <2>1 DEF LedgerInv, Fresh, Entries, backlogVars, BacklogInv, BacklogTypeOK,
                DiskShape, Saved, Owned, Mem, OncePerItem, StoredListed
  <2>2. ASSUME LedgerInv, BacklogNext
        PROVE  LedgerInv'
    BY <2>2, LedgerStep, BacklogNextInv DEF LedgerInv
  <2>3. QED BY <2>1, <2>2, LedgerStep
<1>2. QED BY <1>1, LedgerStart, PTL DEF BacklogSpec, KeepsLedger, Ledger!LedgerSpec

-----------------------------------------------------------------------------
(* The PM.                                                                 *)

\* While it handles a message, the PM's handler names an agent.
PmNamesAgent == pm.at # "idle" => pm.agent \in Agents

LEMMA ListedItem ==
  ASSUME BacklogInv, NEW i, Listed(i)
  PROVE  i \in Items
BY DEF BacklogInv, BacklogTypeOK, Listed, ToSet

LEMMA NextNamesAgent ==
  ASSUME PmNamesAgent, [Next]_vars
  PROVE  PmNamesAgent'
<1>1. CASE pm' = pm
  BY <1>1 DEF PmNamesAgent
<1>2. ASSUME NEW a \in Agents, NEW i, NEW at, pm' = PmAt(at, a, i)
      PROVE  PmNamesAgent'
  BY <1>2 DEF PmNamesAgent, PmAt
<1>3. CASE pm' = PmIdle
  BY <1>3 DEF PmNamesAgent, PmIdle, PmAt
<1>4. ASSUME NEW a \in Agents, NEW i \in Items, TaskCompleted(a, i) \/ TaskFailed(a, i)
      PROVE  PmNamesAgent'
  BY <1>2, <1>4 DEF TaskCompleted, TaskFailed
<1>5. ASSUME NEW a \in Agents, RequestAssignment(a)
      PROVE  PmNamesAgent'
  BY <1>2, <1>5 DEF RequestAssignment
<1>6. CASE ClearAssignment
  <2>1. pm.agent \in Agents
    BY <1>6 DEF ClearAssignment, PmNamesAgent
  <2>2. pm' = PmAt("next", pm.agent, NoItem) \/ pm' = PmIdle
    BY <1>6 DEF ClearAssignment
  <2>3. QED BY <1>2, <1>3, <2>1, <2>2
<1>7. CASE Claim
  <2>1. pm.agent \in Agents
    BY <1>7 DEF Claim, PmNamesAgent
  <2>2. QED BY <1>2, <1>7, <2>1 DEF Claim
<1>8. CASE NothingToClaim \/ RecordAssignment \/ RecordRaises \/ ClearRaises \/ Crash
  BY <1>3, <1>8 DEF NothingToClaim, RecordAssignment, RecordRaises, ClearRaises, Crash
<1>9. CASE \/ \E active \in SUBSET Agents : SweepStart(active)
           \/ SweepEnd \/ SweepTake \/ SweepWait \/ SweepMark \/ SweepClear \/ SweepRaises
  BY <1>1, <1>9 DEF SweepStart, SweepEnd, SweepTake, SweepWait, SweepMark, SweepClear,
                    SweepRaises
<1>10. CASE Edit("edit") /\ UNCHANGED stateVars
  BY <1>1, <1>10 DEF stateVars
<1>11. ASSUME NEW t \in Tasks, WriteReturns(t) \/ WriteRaises(t)
       PROVE  PmNamesAgent'
  BY <1>1, <1>3, <1>11 DEF WriteReturns, WriteRaises, stateVars
<1>12. CASE UNCHANGED vars
  BY <1>1, <1>12 DEF vars, stateVars
<1>13. QED
  BY <1>4, <1>5, <1>6, <1>7, <1>8, <1>9, <1>10, <1>11, <1>12 DEF Next

\* Every step of the PM is a step of the backlog, or leaves it alone.
LEMMA NextUsesBacklog ==
  ASSUME BacklogInv, PmNamesAgent, [Next]_vars
  PROVE  [BacklogNext]_backlogVars
<1>0. "pm" \in Tasks /\ "sweep" \in Tasks /\ "edit" \in Tasks
  BY StateAssumption
<1>1. ASSUME NEW a \in Agents, NEW i \in Items, TaskCompleted(a, i) \/ TaskFailed(a, i)
      PROVE  BacklogNext
  BY <1>0, <1>1 DEF TaskCompleted, TaskFailed, BacklogNext
<1>2. CASE Claim
  <2>1. pm.agent \in Agents /\ ClaimNext("pm", pm.agent)
    BY <1>2 DEF Claim, PmNamesAgent
  <2>2. QED BY <1>0, <2>1 DEF BacklogNext
<1>3. ASSUME NEW i, MarkPending("sweep", i)
      PROVE  BacklogNext
  <2>1. i \in Items
    BY <1>3, ListedItem DEF MarkPending, SetStatus
  <2>2. QED BY <1>0, <1>3, <2>1 DEF BacklogNext
<1>4. CASE SweepTake \/ SweepMark
  BY <1>3, <1>4 DEF SweepTake, SweepMark
<1>5. CASE Edit("edit") /\ UNCHANGED stateVars
  BY <1>0, <1>5 DEF BacklogNext
<1>6. ASSUME NEW t \in Tasks, WriteReturns(t) \/ WriteRaises(t)
      PROVE  BacklogNext
  BY <1>6 DEF WriteReturns, WriteRaises, BacklogNext
<1>7. CASE Crash
  BY <1>7 DEF Crash, BacklogNext
<1>8. CASE \/ \E a \in Agents : RequestAssignment(a)
           \/ ClearAssignment \/ ClearRaises
           \/ NothingToClaim \/ RecordAssignment \/ RecordRaises
           \/ \E active \in SUBSET Agents : SweepStart(active)
           \/ SweepEnd \/ SweepWait \/ SweepClear \/ SweepRaises
           \/ UNCHANGED vars
  BY <1>8 DEF RequestAssignment, ClearAssignment, ClearRaises, NothingToClaim,
              RecordAssignment, RecordRaises, SweepStart, SweepEnd, SweepWait,
              SweepClear, SweepRaises, vars
<1>9. QED
  BY <1>1, <1>2, <1>4, <1>5, <1>6, <1>7, <1>8 DEF Next

LEMMA PmInit == Init => BacklogInit /\ BacklogInv /\ PmNamesAgent
<1>1. Init => BacklogInit /\ PmNamesAgent
  BY DEF Init, PmNamesAgent, PmIdle, PmAt
<1>2. QED BY <1>1, BacklogInitInv

\* The PM implements the backlog's specification (BacklogSpec): handler
\* steps, sweeps, edits, failed writes and crashes are uses of the queue.
THEOREM PmImplementsBacklog == Spec => BacklogSpec
<1>1. BacklogInv /\ PmNamesAgent /\ [Next]_vars
        => BacklogInv' /\ PmNamesAgent' /\ [BacklogNext]_backlogVars
  <2>1. BacklogInv /\ UNCHANGED backlogVars => BacklogInv'
    BY DEF backlogVars, BacklogInv, BacklogTypeOK, DiskShape, Saved, Owned, Mem,
           OncePerItem, StoredListed
  <2>2. QED BY <2>1, NextUsesBacklog, NextNamesAgent, BacklogNextInv
<1>2. QED BY <1>1, PmInit, PTL DEF Spec, BacklogSpec

\* The PM's stored queue is the one it works with, between operations, and
\* nothing it hands out belongs to another agent (Saved, PendingUnowned), with
\* concurrent sweeps, failing writes and crashes at any point.
THEOREM PmSaved == Spec => [](Saved /\ PendingUnowned)
<1>1. BacklogInv => Saved /\ PendingUnowned
  BY DEF BacklogInv, Owned, PendingUnowned
<1>2. QED BY <1>1, PmImplementsBacklog, BacklogSafety, PTL

\* The PM keeps the ledger (KeepsLedger): seen through the entries of its
\* items, handler, sweep, edits and crashes change one entry at a time.
THEOREM PmKeepsLedger == Spec => KeepsLedger
BY PmImplementsBacklog, BacklogImplementsLedger

-----------------------------------------------------------------------------
(* Types of the PM's own state.                                            *)

StateTypeOK ==
  /\ assign \in [Agents -> Items \cup {NoItem}]
  /\ held \in [Agents -> SUBSET Items]
  /\ pm \in [at : {"idle", "completing", "failing", "next", "claimed"},
             agent : Agents \cup {Nobody}, item : Items \cup {NoItem}]
  /\ sweep \in [at : {"idle", "scan", "mark", "clear"}, pos : Nat,
                item : Items \cup {NoItem}, active : SUBSET Agents]
  /\ faults \subseteq {"crash", "sweep", "misreport", "returned"}

\* The handler holds on to an item between its steps.
PmNamesItem == pm.at \in {"completing", "failing", "claimed"} => pm.item \in Items

\* The scan counts positions from 1.
SweepPlaced == sweep.at # "idle" => sweep.pos >= 1

PmTyped == BacklogInv /\ PmNamesAgent /\ PmNamesItem /\ SweepPlaced /\ StateTypeOK

LEMMA PmAtType ==
  ASSUME NEW at \in {"idle", "completing", "failing", "next", "claimed"},
         NEW a \in Agents \cup {Nobody}, NEW i \in Items \cup {NoItem},
         at \in {"completing", "failing", "claimed"} => i \in Items,
         pm' = PmAt(at, a, i)
  PROVE  /\ PmNamesItem'
         /\ pm' \in [at : {"idle", "completing", "failing", "next", "claimed"},
                     agent : Agents \cup {Nobody}, item : Items \cup {NoItem}]
BY DEF PmAt, PmNamesItem

LEMMA PmIdleType ==
  ASSUME pm' = PmIdle
  PROVE  /\ PmNamesItem'
         /\ pm' \in [at : {"idle", "completing", "failing", "next", "claimed"},
                     agent : Agents \cup {Nobody}, item : Items \cup {NoItem}]
BY PmAtType DEF PmIdle

SweepType == [at : {"idle", "scan", "mark", "clear"}, pos : Nat,
              item : Items \cup {NoItem}, active : SUBSET Agents]

LEMMA SweepIdleType ==
  ASSUME sweep' = SweepIdle
  PROVE  sweep' \in SweepType /\ SweepPlaced'
BY DEF SweepIdle, SweepType, SweepPlaced

\* The scan stops at a position of the list.
LEMMA StaleFacts ==
  ASSUME PmTyped, sweep.at # "idle", StaleAt # {}
  PROVE  /\ Min(StaleAt) \in Nat /\ Min(StaleAt) >= 1
         /\ items[Min(StaleAt)] \in Items
<1>1. items \in Seq(Items) /\ sweep.pos \in Nat /\ sweep.pos >= 1
  BY DEF PmTyped, BacklogInv, BacklogTypeOK, StateTypeOK, SweepPlaced
<1>2. StaleAt \subseteq Nat /\ StaleAt \subseteq sweep.pos .. Len(items)
  BY <1>1 DEF StaleAt
<1>3. Min(StaleAt) \in StaleAt
  BY <1>2, MinOfSet
<1>4. Min(StaleAt) \in 1 .. Len(items)
  <2>0. Len(items) \in Nat
    BY <1>1
  <2>1. Min(StaleAt) \in sweep.pos .. Len(items)
    BY <1>2, <1>3
  <2>2. \A p \in Nat, n \in Nat : p >= 1 => p .. n \subseteq 1 .. n
    OBVIOUS
  <2>3. QED BY <1>1, <2>0, <2>1, <2>2
<1>5. items[Min(StaleAt)] \in Items
  BY <1>1, <1>4
<1>6. QED BY <1>1, <1>4, <1>5

LEMMA StateTypeStep ==
  ASSUME PmTyped, [Next]_vars
  PROVE  StateTypeOK' /\ PmNamesItem' /\ SweepPlaced'
<1>0. /\ StateTypeOK /\ PmNamesItem /\ PmNamesAgent /\ SweepPlaced /\ BacklogInv
      /\ sweep \in SweepType
  BY DEF PmTyped, StateTypeOK, SweepType
<1> DEFINE PmT == [at : {"idle", "completing", "failing", "next", "claimed"},
                   agent : Agents \cup {Nobody}, item : Items \cup {NoItem}]
           Goal == StateTypeOK' /\ PmNamesItem' /\ SweepPlaced'
<1>1. ASSUME UNCHANGED <<sweep, faults>>, assign' \in [Agents -> Items \cup {NoItem}],
             held' \in [Agents -> SUBSET Items], pm' \in PmT, PmNamesItem'
      PROVE  Goal
  BY <1>0, <1>1 DEF StateTypeOK, SweepPlaced
<1>2. ASSUME UNCHANGED <<assign, held, pm, faults>>, sweep' \in SweepType, SweepPlaced'
      PROVE  Goal
  BY <1>0, <1>2 DEF StateTypeOK, PmNamesItem, SweepType
<1>3. /\ assign \in [Agents -> Items \cup {NoItem}] /\ held \in [Agents -> SUBSET Items]
      /\ pm.agent \in Agents \cup {Nobody} /\ faults \subseteq {"crash", "sweep", "misreport", "returned"}
  BY <1>0 DEF StateTypeOK
<1>4. ASSUME NEW a \in Agents, NEW i \in Items, TaskCompleted(a, i) \/ TaskFailed(a, i)
      PROVE  Goal
  <2>1. pm' = PmAt("completing", a, i) \/ pm' = PmAt("failing", a, i)
    BY <1>4 DEF TaskCompleted, TaskFailed
  <2>2. pm' \in PmT /\ PmNamesItem'
    BY <2>1, PmAtType
  <2>3. /\ held' \in [Agents -> SUBSET Items] /\ UNCHANGED <<assign, sweep>>
        /\ faults' \subseteq {"crash", "sweep", "misreport", "returned"}
    BY <1>3, <1>4 DEF TaskCompleted, TaskFailed, Reported
  <2>4. QED BY <1>0, <1>3, <2>2, <2>3 DEF StateTypeOK, SweepPlaced
<1>5. ASSUME NEW a \in Agents, RequestAssignment(a)
      PROVE  Goal
  <2>1. pm' \in PmT /\ PmNamesItem'
    BY <1>5, PmAtType DEF RequestAssignment
  <2>2. QED BY <1>1, <1>3, <1>5, <2>1 DEF RequestAssignment
<1>6. CASE ClearAssignment
  <2>1. pm' = PmAt("next", pm.agent, NoItem) \/ pm' = PmIdle
    BY <1>6 DEF ClearAssignment
  <2>2. pm' \in PmT /\ PmNamesItem'
    BY <1>3, <2>1, PmAtType, PmIdleType
  <2>3. assign' \in [Agents -> Items \cup {NoItem}] /\ UNCHANGED <<held, sweep, faults>>
    BY <1>3, <1>6 DEF ClearAssignment, Forget
  <2>4. QED BY <1>1, <1>3, <2>2, <2>3
<1>7. CASE Claim
  <2>1. Listed(items[FirstPending])
    BY <1>7 DEF Claim, ClaimNext, SetStatus
  <2>2. items[FirstPending] \in Items
    BY <1>0, <2>1, ListedItem
  <2>3. pm' \in PmT /\ PmNamesItem'
    BY <1>3, <1>7, <2>2, PmAtType DEF Claim
  <2>4. QED BY <1>1, <1>3, <1>7, <2>3 DEF Claim
<1>8. CASE NothingToClaim
  <2>1. pm' \in PmT /\ PmNamesItem'
    BY <1>8, PmIdleType DEF NothingToClaim
  <2>2. QED BY <1>1, <1>3, <1>8, <2>1 DEF NothingToClaim
<1>9. CASE RecordAssignment
  <2>1. pm' \in PmT /\ PmNamesItem'
    BY <1>9, PmIdleType DEF RecordAssignment
  <2>2. pm.item \in Items
    BY <1>0, <1>9 DEF RecordAssignment, PmNamesItem
  <2>3. /\ assign' \in [Agents -> Items \cup {NoItem}]
        /\ held' \in [Agents -> SUBSET Items] /\ UNCHANGED <<sweep, faults>>
    BY <1>3, <1>9, <2>2 DEF RecordAssignment, Record
  <2>4. QED BY <1>1, <2>1, <2>3
<1>10. ASSUME NEW active \in SUBSET Agents, SweepStart(active)
       PROVE  Goal
  <2>1. sweep' \in SweepType /\ SweepPlaced'
    BY <1>10 DEF SweepStart, SweepType, SweepPlaced
  <2>2. faults' \subseteq {"crash", "sweep", "misreport", "returned"}
    BY <1>3, <1>10 DEF SweepStart
  <2>3. QED BY <1>0, <1>10, <2>1, <2>2 DEF SweepStart, StateTypeOK, PmNamesItem, SweepType
<1>11. CASE SweepEnd
  BY <1>2, <1>11, SweepIdleType DEF SweepEnd
<1>12. CASE SweepTake \/ SweepWait
  <2>1. sweep.at # "idle" /\ StaleAt # {}
    BY <1>12 DEF SweepTake, SweepWait
  <2>2. /\ Min(StaleAt) \in Nat /\ Min(StaleAt) >= 1
        /\ items[Min(StaleAt)] \in Items
    BY <2>1, StaleFacts
  <2>3. sweep' \in SweepType /\ SweepPlaced'
    BY <1>0, <1>12, <2>2 DEF SweepTake, SweepWait, SweepType, SweepPlaced
  <2>4. QED BY <1>2, <1>12, <2>3 DEF SweepTake, SweepWait
<1>13. CASE SweepMark
  <2>1. sweep' \in SweepType /\ SweepPlaced'
    BY <1>0, <1>13 DEF SweepMark, SweepType, SweepPlaced
  <2>2. QED BY <1>2, <1>13, <2>1 DEF SweepMark
<1>14. CASE SweepClear
  <2>0. sweep.pos \in Nat /\ sweep.pos + 1 \in Nat /\ sweep.pos + 1 >= 1
    BY <1>0 DEF SweepType
  <2>1. sweep' \in SweepType /\ SweepPlaced'
    <3>1. sweep' = [sweep EXCEPT !.at = "scan", !.pos = sweep.pos + 1, !.item = NoItem]
      BY <1>14 DEF SweepClear
    <3>2. sweep' \in SweepType
      BY <1>0, <2>0, <3>1 DEF SweepType
    <3>3. sweep'.pos = sweep.pos + 1
      BY <1>0, <3>1 DEF SweepType
    <3>4. QED BY <2>0, <3>2, <3>3 DEF SweepPlaced
  <2>2. assign' \in [Agents -> Items \cup {NoItem}]
    BY <1>3, <1>14 DEF SweepClear, SweptRecords
  <2>3. QED BY <1>0, <1>14, <2>1, <2>2 DEF SweepClear, StateTypeOK, PmNamesItem, SweepType
<1>15. CASE UNCHANGED stateVars
  BY <1>0, <1>15 DEF stateVars, StateTypeOK, PmNamesItem, SweepPlaced
<1>16. ASSUME NEW t \in Tasks, WriteRaises(t)
       PROVE  Goal
  <2>1. pm' \in PmT /\ PmNamesItem'
    BY <1>0, <1>16, PmIdleType DEF WriteRaises, StateTypeOK, PmNamesItem
  <2>2. sweep' \in SweepType /\ SweepPlaced'
    BY <1>0, <1>16, SweepIdleType DEF WriteRaises, SweepPlaced
  <2>3. faults' \subseteq {"crash", "sweep", "misreport", "returned"} /\ UNCHANGED <<assign, held>>
    BY <1>3, <1>16 DEF WriteRaises
  <2>4. QED BY <1>3, <2>1, <2>2, <2>3 DEF StateTypeOK, SweepType
<1>17. CASE Crash
  <2>1. pm' \in PmT /\ PmNamesItem'
    BY <1>17, PmIdleType DEF Crash
  <2>2. sweep' \in SweepType /\ SweepPlaced'
    BY <1>17, SweepIdleType DEF Crash
  <2>3. faults' \subseteq {"crash", "sweep", "misreport", "returned"} /\ UNCHANGED <<assign, held>>
    BY <1>3, <1>17 DEF Crash
  <2>4. QED BY <1>3, <2>1, <2>2, <2>3 DEF StateTypeOK, SweepType
<1>18. CASE ClearRaises \/ RecordRaises
  <2>1. pm' \in PmT /\ PmNamesItem'
    BY <1>18, PmIdleType DEF ClearRaises, RecordRaises
  <2>2. RecordRaises => pm.item \in Items
    BY <1>0 DEF RecordRaises, PmNamesItem
  <2>3. assign' \in [Agents -> Items \cup {NoItem}] /\ held' \in [Agents -> SUBSET Items]
    <3>1. CASE ClearRaises
      BY <1>3, <3>1 DEF ClearRaises, Forget
    <3>2. CASE RecordRaises
      BY <1>3, <2>2, <3>2 DEF RecordRaises, Record
    <3>3. QED BY <1>18, <3>1, <3>2
  <2>4. sweep' = sweep /\ faults' \subseteq {"crash", "sweep", "misreport", "returned"}
    BY <1>3, <1>18 DEF ClearRaises, RecordRaises
  <2>5. QED BY <1>0, <2>1, <2>3, <2>4 DEF StateTypeOK, SweepPlaced
<1>19. CASE SweepRaises
  <2>1. sweep' \in SweepType /\ SweepPlaced'
    BY <1>19, SweepIdleType DEF SweepRaises
  <2>2. /\ assign' \in [Agents -> Items \cup {NoItem}] /\ UNCHANGED <<held, pm>>
        /\ faults' \subseteq {"crash", "sweep", "misreport", "returned"}
    BY <1>3, <1>19 DEF SweepRaises, SweptRecords
  <2>3. QED BY <1>0, <2>1, <2>2 DEF StateTypeOK, PmNamesItem, SweepType
<1>20. QED
  BY <1>4, <1>5, <1>6, <1>7, <1>8, <1>9, <1>10, <1>11, <1>12, <1>13, <1>14, <1>15,
     <1>16, <1>17, <1>18, <1>19 DEF Next, WriteReturns, vars

LEMMA PmTypedStep ==
  ASSUME PmTyped, [Next]_vars
  PROVE  PmTyped'
<1>1. BacklogInv /\ PmNamesAgent
  BY DEF PmTyped
<1>2. [BacklogNext]_backlogVars
  BY <1>1, NextUsesBacklog
<1>3. UNCHANGED backlogVars => BacklogInv'
  BY <1>1 DEF backlogVars, BacklogInv, BacklogTypeOK, DiskShape, Saved, Owned, Mem,
              OncePerItem, StoredListed
<1>4. BacklogInv'
  BY <1>1, <1>2, <1>3, BacklogNextInv
<1>5. PmNamesAgent'
  BY <1>1, NextNamesAgent
<1>6. QED BY <1>4, <1>5, StateTypeStep DEF PmTyped

LEMMA PmTypedInit == Init => PmTyped
<1> SUFFICES ASSUME Init PROVE PmTyped
  OBVIOUS
<1>1. BacklogInv /\ PmNamesAgent
  BY PmInit
<1>2. PmNamesItem /\ SweepPlaced
  BY DEF Init, PmIdle, PmAt, SweepIdle, PmNamesItem, SweepPlaced
<1>3. StateTypeOK
  BY DEF Init, PmIdle, PmAt, SweepIdle, StateTypeOK
<1>4. QED BY <1>1, <1>2, <1>3 DEF PmTyped

\* Type correctness of the PM's state (TypeOK): handler, sweep and stored
\* records never name an item or an agent that does not exist.
THEOREM PmTypeOK == Spec => []TypeOK
<1>1. PmTyped => TypeOK
  BY DEF PmTyped, BacklogInv, StateTypeOK, TypeOK
<1>2. QED BY <1>1, PmTypedInit, PmTypedStep, PTL DEF Spec


-----------------------------------------------------------------------------
(* Work is exclusive while nothing is taken away from an agent.            *)

\* What a change of one status leaves alone.
LEMMA SetStatusFacts ==
  ASSUME BacklogInv, NEW t, NEW i, NEW s, SetStatus(t, i, s)
  PROVE  /\ i \in Items /\ status'[i] = s /\ lock = NoTask /\ lock' = t /\ disk' = disk
         /\ \A j \in Items : j # i => status'[j] = status[j]
BY ListedItem DEF SetStatus, Locked, BacklogInv, BacklogTypeOK

\* An edit cancels items, and changes no status otherwise.
LEMMA EditFacts ==
  ASSUME BacklogInv, NEW t, Edit(t)
  PROVE  /\ lock = NoTask /\ lock' = t /\ UNCHANGED <<disk, owner>>
         /\ \A j \in Items : status'[j] = status[j] \/ status'[j] = "cancelled"
<1>1. ASSUME NEW i \in Items, Cancel(t, i)
      PROVE  /\ lock = NoTask /\ lock' = t /\ UNCHANGED <<disk, owner>>
             /\ \A j \in Items : status'[j] = status[j] \/ status'[j] = "cancelled"
  BY <1>1, SetStatusFacts DEF Cancel
<1>2. CASE UNCHANGED <<status, owner>> /\ Locked(t)
  BY <1>2 DEF Locked
<1>3. QED
  BY <1>1, <1>2 DEF Edit, AppendItem, InsertUrgent, InsertAfter, Place, Reorder

\* What an agent works on cannot be claimed, in memory or after a restart,
\* and neither can an item that is being handed over once it is stored.
Closed ==
  /\ sweep = SweepIdle
  /\ \A a \in Agents : \A i \in held[a] : status[i] # "pending" /\ disk.status[i] # "pending"
  /\ pm.at = "claimed" =>
       /\ status[pm.item] # "pending"
       /\ lock # "pm" => disk.status[pm.item] # "pending"
       /\ \A a \in Agents : pm.item \notin held[a]
  /\ \A a, b \in Agents : a # b => held[a] \cap held[b] = {}

LEMMA ClosedStep ==
  ASSUME PmTyped, Closed, Next, faults' \cap {"sweep", "returned"} = {}
  PROVE  Closed'
<1>0. /\ BacklogInv /\ PmNamesAgent /\ PmNamesItem
      /\ held \in [Agents -> SUBSET Items] /\ "pm" \in Tasks /\ NoTask # "pm"
  BY StateAssumption, BacklogAssumption DEF PmTyped, StateTypeOK
<1>1. ASSUME NEW a \in Agents, NEW i \in Items, TaskCompleted(a, i) \/ TaskFailed(a, i)
      PROVE  Closed'
  <2>1. /\ disk' = disk /\ \A j \in Items : j # i => status'[j] = status[j]
        /\ TaskCompleted(a, i) => status'[i] = "completed"
    BY <1>0, <1>1, SetStatusFacts DEF TaskCompleted, TaskFailed, MarkCompleted, MarkPending
  <2>2. /\ held' = [held EXCEPT ![a] = @ \ {i}]
        /\ TaskFailed(a, i) => i \in held[a]
        /\ pm'.at # "claimed" /\ sweep' = sweep
    BY <1>1 DEF TaskCompleted, TaskFailed, Reported, PmAt
  <2>3. /\ \A b \in Agents : held'[b] \subseteq held[b]
        /\ TaskFailed(a, i) => \A b \in Agents : i \notin held'[b]
    BY <1>0, <2>2 DEF Closed
  <2>4. \A b \in Agents : \A j \in held'[b] : status'[j] # "pending"
    BY <1>0, <1>1, <2>1, <2>3 DEF Closed
  <2>5. QED BY <1>0, <2>1, <2>2, <2>3, <2>4 DEF Closed
<1>2. ASSUME NEW a \in Agents, RequestAssignment(a)
      PROVE  Closed'
  BY <1>2 DEF RequestAssignment, PmAt, Closed, backlogVars
<1>3. CASE ClearAssignment \/ ClearRaises \/ NothingToClaim
  <2>1. pm'.at # "claimed"
    BY <1>3 DEF ClearAssignment, ClearRaises, NothingToClaim, PmAt, PmIdle
  <2>2. QED
    BY <1>3, <2>1 DEF ClearAssignment, ClearRaises, NothingToClaim, Closed, backlogVars
<1>4. CASE Claim
  <2> DEFINE i == items[FirstPending]
  <2>1. SetStatus("pm", i, "assigned") /\ FirstPending # 0
    BY <1>4 DEF Claim, ClaimNext
  <2>2. status[i] = "pending"
    BY <1>0, <2>1, FirstPendingFacts
  <2>3. pm' = PmAt("claimed", pm.agent, i) /\ UNCHANGED <<held, sweep>>
    BY <1>4 DEF Claim
  <2> HIDE DEF i
  <2>4. /\ i \in Items /\ status'[i] = "assigned" /\ lock' = "pm" /\ disk' = disk
        /\ \A j \in Items : j # i => status'[j] = status[j]
    BY <1>0, <2>1, SetStatusFacts
  <2>5. \A a \in Agents : i \notin held[a]
    BY <2>2 DEF Closed
  <2>6. pm'.at = "claimed" /\ pm'.item = i
    BY <2>3 DEF PmAt
  <2>7. QED BY <1>0, <2>3, <2>4, <2>5, <2>6 DEF Closed
<1>5. CASE RecordAssignment \/ RecordRaises
  <2>1. /\ pm.at = "claimed" /\ lock # "pm" /\ pm'.at # "claimed"
        /\ held' = [held EXCEPT ![pm.agent] = @ \cup {pm.item}] \/ held' = held
        /\ UNCHANGED <<status, disk, sweep>>
    BY <1>5 DEF RecordAssignment, RecordRaises, Record, PmIdle, PmAt, backlogVars
  <2>2. /\ status[pm.item] # "pending" /\ disk.status[pm.item] # "pending"
        /\ \A a \in Agents : pm.item \notin held[a]
    BY <2>1 DEF Closed
  <2>3. CASE held' = held
    BY <2>1, <2>3 DEF Closed
  <2>4. CASE held' # held
    <3>1. \A a \in Agents : held'[a] = IF a = pm.agent THEN held[a] \cup {pm.item} ELSE held[a]
      BY <1>0, <2>1, <2>4
    <3>2. \A a \in Agents : \A i \in held'[a] :
            status'[i] # "pending" /\ disk'.status[i] # "pending"
      BY <2>1, <2>2, <3>1 DEF Closed
    <3>3. ASSUME NEW a \in Agents, NEW b \in Agents, a # b
          PROVE  held'[a] \cap held'[b] = {}
      <4>1. held[a] \cap held[b] = {}
        BY <3>3 DEF Closed
      <4>2. QED BY <2>2, <3>1, <3>3, <4>1
    <3>4. QED BY <2>1, <3>2, <3>3 DEF Closed
  <2>5. QED BY <2>3, <2>4
<1>6. CASE Edit("edit") /\ UNCHANGED stateVars
  <2>1. /\ lock = NoTask /\ disk' = disk /\ UNCHANGED stateVars
        /\ \A j \in Items : status'[j] = status[j] \/ status'[j] = "cancelled"
    BY <1>0, <1>6, EditFacts
  <2>2. pm.at = "claimed" => pm.item \in Items
    BY <1>0 DEF PmNamesItem
  <2>3. QED BY <1>0, <2>1, <2>2 DEF Closed, stateVars
<1>7. ASSUME NEW t \in Tasks, WriteReturns(t)
      PROVE  Closed'
  <2>1. UNCHANGED stateVars /\ status' = status /\ disk'.status = status
    BY <1>7 DEF WriteReturns, Persist, queueVars, Mem
  <2>2. QED BY <2>1 DEF Closed, stateVars
<1>8. ASSUME NEW t \in Tasks, WriteRaises(t)
      PROVE  Closed'
  <2>1. /\ lock = t /\ UNCHANGED <<status, disk, held>>
        /\ pm' = IF t = "pm" THEN PmIdle ELSE pm
        /\ sweep' = IF t = "sweep" THEN SweepIdle ELSE sweep
    BY <1>8 DEF WriteRaises, PersistFails, queueVars
  <2>2. CASE t = "pm"
    <3>1. pm'.at # "claimed" /\ sweep' = sweep
      BY <2>1, <2>2 DEF PmIdle, PmAt
    <3>2. QED BY <2>1, <3>1 DEF Closed
  <2>3. CASE t # "pm"
    <3>1. pm' = pm /\ lock # "pm" /\ sweep' = SweepIdle
      BY <2>1, <2>3 DEF Closed
    <3>2. QED BY <2>1, <3>1 DEF Closed
  <2>4. QED BY <2>2, <2>3
<1>9. CASE Crash
  <2>1. /\ status' = disk.status /\ disk' = disk /\ held' = held /\ sweep' = SweepIdle
        /\ pm'.at # "claimed"
    BY <1>9 DEF Crash, Restart, PmIdle, PmAt
  <2>2. QED BY <2>1 DEF Closed
<1>10. CASE \/ \E active \in SUBSET Agents : SweepStart(active)
            \/ SweepEnd \/ SweepTake \/ SweepWait \/ SweepMark \/ SweepClear \/ SweepRaises
  <2>1. sweep.at = "idle"
    BY DEF Closed, SweepIdle
  <2>2. QED
    BY <1>10, <2>1 DEF SweepStart, SweepEnd, SweepTake, SweepWait, SweepMark, SweepClear,
                       SweepRaises
<1>11. QED
  BY <1>1, <1>2, <1>3, <1>4, <1>5, <1>6, <1>7, <1>8, <1>9, <1>10 DEF Next

\* A fault is not forgotten.
LEMMA FaultsStay ==
  ASSUME Next
  PROVE  faults \subseteq faults'
BY DEF Next, TaskCompleted, TaskFailed, Reported, RequestAssignment, ClearAssignment,
       ClearRaises, Claim, NothingToClaim, RecordAssignment, RecordRaises, SweepStart,
       SweepEnd, SweepTake, SweepWait, SweepMark, SweepClear, SweepRaises, WriteReturns,
       WriteRaises, Crash, stateVars

ExclusiveInv == PmTyped /\ (faults \cap {"sweep", "returned"} = {} => Closed)

LEMMA ExclusiveInvHolds == Spec => []ExclusiveInv
<1>1. Init => ExclusiveInv
  <2> SUFFICES ASSUME Init PROVE ExclusiveInv
    OBVIOUS
  <2>1. /\ sweep = SweepIdle /\ pm.at # "claimed" /\ \A a \in Agents : held[a] = {}
    BY DEF Init, PmIdle, PmAt
  <2>2. QED BY <2>1, PmTypedInit DEF ExclusiveInv, Closed
<1>2. ExclusiveInv /\ [Next]_vars => ExclusiveInv'
  <2>1. ASSUME ExclusiveInv, Next
        PROVE  ExclusiveInv'
    BY <2>1, PmTypedStep, ClosedStep, FaultsStay DEF ExclusiveInv
  <2>2. ASSUME ExclusiveInv, UNCHANGED vars
        PROVE  ExclusiveInv'
    <3>1. PmTyped'
      BY <2>2, PmTypedStep DEF ExclusiveInv
    <3>2. QED BY <2>2, <3>1 DEF ExclusiveInv, Closed, vars, stateVars, backlogVars
  <2>3. QED BY <2>1, <2>2
<1>3. QED BY <1>1, <1>2, PTL DEF Spec

\* Two agents never work on one item (ExclusiveWork), across crashes between
\* the claim, its write and the record and mistaken completions, as long as
\* neither a sweep nor somebody else's failure report takes work away.
THEOREM PmExclusiveWork == Spec => []ExclusiveWork
<1>1. ExclusiveInv => ExclusiveWork
  BY DEF ExclusiveInv, ExclusiveWork, Closed
<1>2. QED BY <1>1, ExclusiveInvHolds, PTL


-----------------------------------------------------------------------------
(* Stored assignments agree with the backlog while nothing fails.          *)

Open(i) == status[i] \in {"assigned", "cancelled"}

\* The record of the agent whose report is being handled may be out of date;
\* what the agents work on, and what is being handed over, is theirs.
Matched ==
  /\ \A a \in Agents : \A i \in held[a] : owner[i] = a /\ Open(i)
  /\ pm.at = "claimed" => owner[pm.item] = pm.agent /\ Open(pm.item)
  /\ \A a \in Agents : assign[a] # NoItem =>
       \/ pm.at \in {"completing", "failing"} /\ pm.agent = a
       \/ owner[assign[a]] = a /\ Open(assign[a])

LEMMA MatchedStep ==
  ASSUME PmTyped, sweep = SweepIdle, Matched, Next, faults' = {}
  PROVE  Matched'
<1>0. /\ BacklogInv /\ PmNamesAgent /\ PmNamesItem
      /\ held \in [Agents -> SUBSET Items] /\ assign \in [Agents -> Items \cup {NoItem}]
      /\ owner \in [Items -> Agents \cup {Nobody}]
  BY DEF PmTyped, StateTypeOK, BacklogInv, BacklogTypeOK
<1>1. ASSUME NEW a \in Agents, NEW i \in Items, TaskCompleted(a, i) \/ TaskFailed(a, i)
      PROVE  Matched'
  <2>1. \A j \in Items : j # i => status'[j] = status[j] /\ owner'[j] = owner[j]
    BY <1>0, <1>1, SetStatusFacts DEF TaskCompleted, TaskFailed, MarkCompleted, MarkPending
  <2>2. /\ held' = [held EXCEPT ![a] = @ \ {i}] /\ i \in held[a] /\ assign' = assign
        /\ pm'.at \in {"completing", "failing"} /\ pm'.agent = a /\ pm.at = "idle"
    BY <1>1 DEF TaskCompleted, TaskFailed, Reported, PmAt, PmIdle
  <2>3. owner[i] = a
    BY <2>2 DEF Matched
  <2>4. \A b \in Agents : held'[b] \subseteq held[b] /\ i \notin held'[b]
    BY <1>0, <2>2, <2>3 DEF Matched
  <2>5. \A b \in Agents : \A j \in held'[b] : owner'[j] = b /\ Open(j)'
    BY <1>0, <2>1, <2>4 DEF Matched, Open
  <2>6. ASSUME NEW b \in Agents, assign'[b] # NoItem, b # a
        PROVE  owner'[assign'[b]] = b /\ Open(assign[b])'
    <3>1. owner[assign[b]] = b /\ Open(assign[b]) /\ assign[b] \in Items
      BY <1>0, <2>2, <2>6 DEF Matched
    <3>2. assign[b] # i
      BY <2>3, <2>6, <3>1
    <3>3. QED BY <2>1, <2>2, <3>1, <3>2 DEF Open
  <2>7. QED BY <2>2, <2>5, <2>6 DEF Matched
<1>2. ASSUME NEW a \in Agents, RequestAssignment(a)
      PROVE  Matched'
  BY <1>2 DEF RequestAssignment, PmAt, PmIdle, Matched, Open, backlogVars
<1>3. CASE ClearAssignment
  <2>1. /\ pm'.at \notin {"claimed", "completing", "failing"}
        /\ assign' = [assign EXCEPT ![pm.agent] = NoItem]
        /\ pm.at # "claimed" /\ UNCHANGED <<status, owner, held>>
    BY <1>3 DEF ClearAssignment, Forget, PmAt, PmIdle, backlogVars
  <2>2. \A a \in Agents : assign'[a] # NoItem =>
          a # pm.agent /\ assign'[a] = assign[a]
    BY <1>0, <2>1
  <2>3. QED BY <2>1, <2>2 DEF Matched, Open
<1>4. CASE NothingToClaim
  BY <1>4 DEF NothingToClaim, PmAt, PmIdle, Matched, Open, backlogVars
<1>5. CASE Claim
  <2> DEFINE i == items[FirstPending]
  <2>1. /\ SetStatus("pm", i, "assigned") /\ FirstPending # 0
        /\ owner' = [owner EXCEPT ![i] = pm.agent]
    BY <1>5 DEF Claim, ClaimNext
  <2>2. status[i] = "pending"
    BY <1>0, <2>1, FirstPendingFacts
  <2>3. pm' = PmAt("claimed", pm.agent, i) /\ pm.at = "next" /\ UNCHANGED <<held, assign>>
    BY <1>5 DEF Claim
  <2> HIDE DEF i
  <2>4. /\ i \in Items /\ status'[i] = "assigned" /\ owner'[i] = pm.agent
        /\ \A j \in Items : j # i => status'[j] = status[j] /\ owner'[j] = owner[j]
    BY <1>0, <2>1, SetStatusFacts
  <2>5. pm'.at = "claimed" /\ pm'.item = i /\ pm'.agent = pm.agent
    BY <2>3 DEF PmAt
  <2>6. \A a \in Agents : i \notin held[a] /\ assign[a] # i
    BY <1>0, <2>2, <2>3, <2>4, StateAssumption DEF Matched, Open
  <2>7. \A a \in Agents : \A j \in held'[a] : owner'[j] = a /\ Open(j)'
    BY <1>0, <2>3, <2>4, <2>6 DEF Matched, Open
  <2>8. \A a \in Agents : assign'[a] # NoItem => owner'[assign'[a]] = a /\ Open(assign[a])'
    BY <1>0, <2>3, <2>4, <2>6 DEF Matched, Open
  <2>9. owner'[pm'.item] = pm'.agent /\ Open(pm.item)'
    BY <2>4, <2>5 DEF Open
  <2>10. QED BY <2>3, <2>7, <2>8, <2>9 DEF Matched
<1>6. CASE RecordAssignment
  <2>1. /\ pm.at = "claimed" /\ pm'.at = "idle"
        /\ held' = [held EXCEPT ![pm.agent] = @ \cup {pm.item}]
        /\ assign' = [assign EXCEPT ![pm.agent] = pm.item]
        /\ UNCHANGED <<status, owner>>
    BY <1>6 DEF RecordAssignment, Record, PmIdle, PmAt, backlogVars
  <2>2. owner[pm.item] = pm.agent /\ Open(pm.item)
    BY <2>1 DEF Matched
  <2>3. \A a \in Agents : held'[a] = IF a = pm.agent THEN held[a] \cup {pm.item} ELSE held[a]
    BY <1>0, <2>1
  <2>4. \A a \in Agents : assign'[a] = IF a = pm.agent THEN pm.item ELSE assign[a]
    BY <1>0, <2>1
  <2>5. QED BY <2>1, <2>2, <2>3, <2>4 DEF Matched, Open
<1>7. CASE Edit("edit") /\ UNCHANGED stateVars
  <2>1. /\ owner' = owner /\ UNCHANGED <<assign, held, pm>>
        /\ \A j \in Items : status'[j] = status[j] \/ status'[j] = "cancelled"
    BY <1>0, <1>7, EditFacts DEF stateVars
  <2>2. \A j \in Items : Open(j) => Open(j)'
    BY <2>1 DEF Open
  <2>3. pm.at = "claimed" => pm.item \in Items
    BY <1>0 DEF PmNamesItem
  <2>4. QED BY <1>0, <2>1, <2>2, <2>3 DEF Matched, Open
<1>8. ASSUME NEW t \in Tasks, WriteReturns(t)
      PROVE  Matched'
  BY <1>8 DEF WriteReturns, Persist, queueVars, stateVars, Matched, Open
<1>9. CASE Crash \/ ClearRaises \/ RecordRaises \/ \E t \in Tasks : WriteRaises(t)
  BY <1>9 DEF Crash, ClearRaises, RecordRaises, WriteRaises
<1>10. CASE \/ \E active \in SUBSET Agents : SweepStart(active)
            \/ SweepEnd \/ SweepTake \/ SweepWait \/ SweepMark \/ SweepClear \/ SweepRaises
  <2>1. sweep.at = "idle"
    BY DEF SweepIdle
  <2>2. QED
    BY <1>10, <2>1 DEF SweepStart, SweepEnd, SweepTake, SweepWait, SweepMark, SweepClear,
                       SweepRaises
<1>11. QED
  BY <1>1, <1>2, <1>3, <1>4, <1>5, <1>6, <1>7, <1>8, <1>9, <1>10 DEF Next

RecordsInv == ExclusiveInv /\ (faults = {} => Matched)

\* Between operations a stored assignment names an item that the backlog
\* assigns to that agent (RecordsMatch): the deletions and the new record of
\* assign_next_task leave nothing behind, for any number of agents and items.
THEOREM PmRecordsMatch == Spec => []RecordsMatch
<1>1. Init => RecordsInv
  <2> SUFFICES ASSUME Init PROVE RecordsInv
    OBVIOUS
  <2>1. /\ sweep = SweepIdle /\ pm.at # "claimed" /\ \A a \in Agents : held[a] = {}
        /\ \A a \in Agents : assign[a] = NoItem
    BY DEF Init, PmIdle, PmAt
  <2>2. QED BY <2>1, PmTypedInit DEF RecordsInv, ExclusiveInv, Closed, Matched
<1>2. ExclusiveInv /\ ExclusiveInv' /\ RecordsInv /\ [Next]_vars => RecordsInv'
  <2>1. ASSUME RecordsInv, ExclusiveInv', Next
        PROVE  RecordsInv'
    <3>1. faults' = {} => faults = {}
      BY <2>1, FaultsStay
    <3>2. faults = {} => PmTyped /\ sweep = SweepIdle /\ Matched
      BY <2>1 DEF RecordsInv, ExclusiveInv, Closed
    <3>3. QED BY <2>1, <3>1, <3>2, MatchedStep DEF RecordsInv
  <2>2. ASSUME RecordsInv, ExclusiveInv', UNCHANGED vars
        PROVE  RecordsInv'
    BY <2>2 DEF RecordsInv, Matched, Open, vars, stateVars, backlogVars
  <2>3. QED BY <2>1, <2>2
<1>3. RecordsInv => RecordsMatch
  <2> SUFFICES ASSUME RecordsInv, Settled, faults = {}, NEW a \in Agents, assign[a] # NoItem
               PROVE  owner[assign[a]] = a /\ status[assign[a]] \in {"assigned", "cancelled"}
    BY DEF RecordsMatch
  <2>1. pm.at = "idle"
    BY DEF Settled, PmIdle, PmAt
  <2>2. QED BY <2>1 DEF RecordsInv, Matched, Open
<1>4. QED BY <1>1, <1>2, <1>3, ExclusiveInvHolds, PTL DEF Spec

-----------------------------------------------------------------------------
(* Stored completions stay.                                                *)

\* Nobody works on a finished item, nor is it being handed over; an item that
\* is finished in the store is finished, or cancelled since, in memory.
Done ==
  \A i \in Items :
    /\ status[i] = "completed" \/ disk.status[i] = "completed" =>
         /\ \A a \in Agents : i \notin held[a]
         /\ pm.at = "claimed" => pm.item # i
    /\ disk.status[i] = "completed" => status[i] \in {"completed", "cancelled"}

StoredStays ==
  \A i \in Items : disk.status[i] = "completed" => disk'.status[i] \in {"completed", "cancelled"}

LEMMA DoneStep ==
  ASSUME PmTyped, Closed, Done, Next, faults' \subseteq {"crash"}
  PROVE  Done' /\ StoredStays
<1>0. /\ BacklogInv /\ PmNamesAgent /\ PmNamesItem
      /\ held \in [Agents -> SUBSET Items] /\ sweep.at = "idle"
  BY DEF PmTyped, StateTypeOK, Closed, SweepIdle
<1>1. ASSUME NEW a \in Agents, NEW i \in Items, TaskCompleted(a, i) \/ TaskFailed(a, i)
      PROVE  Done' /\ StoredStays
  <2>1. /\ disk' = disk /\ \A j \in Items : j # i => status'[j] = status[j]
        /\ status'[i] \in {"completed", "pending"}
    BY <1>0, <1>1, SetStatusFacts DEF TaskCompleted, TaskFailed, MarkCompleted, MarkPending
  <2>2. held' = [held EXCEPT ![a] = @ \ {i}] /\ i \in held[a] /\ pm'.at # "claimed"
    BY <1>1 DEF TaskCompleted, TaskFailed, Reported, PmAt
  <2>3. \A b \in Agents : held'[b] \subseteq held[b] /\ i \notin held'[b]
    BY <1>0, <2>2 DEF Closed
  <2>4. disk.status[i] # "completed"
    BY <2>2 DEF Done
  <2>5. QED BY <2>1, <2>2, <2>3, <2>4 DEF Done, StoredStays
<1>2. CASE \/ \E a \in Agents : RequestAssignment(a)
           \/ ClearAssignment \/ ClearRaises \/ NothingToClaim
  <2>1. pm'.at # "claimed" /\ UNCHANGED <<status, disk, held>>
    BY <1>2 DEF RequestAssignment, ClearAssignment, ClearRaises, NothingToClaim, PmAt,
                PmIdle, backlogVars
  <2>2. QED BY <2>1 DEF Done, StoredStays
<1>3. CASE Claim
  <2> DEFINE i == items[FirstPending]
  <2>1. SetStatus("pm", i, "assigned") /\ FirstPending # 0
    BY <1>3 DEF Claim, ClaimNext
  <2>2. status[i] = "pending"
    BY <1>0, <2>1, FirstPendingFacts
  <2>3. pm' = PmAt("claimed", pm.agent, i) /\ held' = held
    BY <1>3 DEF Claim
  <2> HIDE DEF i
  <2>4. /\ i \in Items /\ status'[i] = "assigned" /\ disk' = disk
        /\ \A j \in Items : j # i => status'[j] = status[j]
    BY <1>0, <2>1, SetStatusFacts
  <2>5. pm'.at = "claimed" /\ pm'.item = i
    BY <2>3 DEF PmAt
  <2>6. disk.status[i] # "completed"
    BY <2>2, <2>4 DEF Done
  <2>7. QED BY <2>3, <2>4, <2>5, <2>6 DEF Done, StoredStays
<1>4. CASE RecordAssignment \/ RecordRaises
  <2>1. /\ pm.at = "claimed" /\ pm'.at # "claimed" /\ UNCHANGED <<status, disk>>
        /\ held' = [held EXCEPT ![pm.agent] = @ \cup {pm.item}] \/ held' = held
    BY <1>4 DEF RecordAssignment, RecordRaises, Record, PmIdle, PmAt, backlogVars
  <2>2. \A a \in Agents : held'[a] \subseteq held[a] \cup {pm.item}
    BY <1>0, <2>1
  <2>3. QED BY <2>1, <2>2 DEF Done, StoredStays
<1>5. CASE Edit("edit") /\ UNCHANGED stateVars
  <2>1. /\ disk' = disk /\ UNCHANGED <<held, pm>>
        /\ \A j \in Items : status'[j] = status[j] \/ status'[j] = "cancelled"
    BY <1>0, <1>5, EditFacts DEF stateVars
  <2>2. QED BY <2>1 DEF Done, StoredStays
<1>6. ASSUME NEW t \in Tasks, WriteReturns(t)
      PROVE  Done' /\ StoredStays
  <2>1. UNCHANGED <<held, pm, status>> /\ disk'.status = status
    BY <1>6 DEF WriteReturns, Persist, queueVars, Mem, stateVars
  <2>2. QED BY <2>1 DEF Done, StoredStays
<1>7. ASSUME NEW t \in Tasks, WriteRaises(t)
      PROVE  Done' /\ StoredStays
  <2>1. UNCHANGED <<held, status, disk>> /\ (pm' = pm \/ pm'.at # "claimed")
    BY <1>7 DEF WriteRaises, PersistFails, queueVars, PmIdle, PmAt
  <2>2. QED BY <2>1 DEF Done, StoredStays
<1>8. CASE Crash
  <2>1. status' = disk.status /\ disk' = disk /\ held' = held /\ pm'.at # "claimed"
    BY <1>8 DEF Crash, Restart, PmIdle, PmAt
  <2>2. QED BY <2>1 DEF Done, StoredStays
<1>9. CASE \/ \E active \in SUBSET Agents : SweepStart(active)
           \/ SweepEnd \/ SweepTake \/ SweepWait \/ SweepMark \/ SweepClear \/ SweepRaises
  BY <1>0, <1>9 DEF SweepStart, SweepEnd, SweepTake, SweepWait, SweepMark, SweepClear,
                    SweepRaises
<1>10. QED
  BY <1>1, <1>2, <1>3, <1>4, <1>5, <1>6, <1>7, <1>8, <1>9 DEF Next

DoneInv == ExclusiveInv /\ (faults \subseteq {"crash"} => Done)

\* A stored completion is not undone (CompletionStays): no crash, failed write
\* or failure report of the agent that holds an item brings finished work back
\* into the queue, for any number of agents, items and overlapping edits.
THEOREM PmCompletionStays == Spec => CompletionStays
<1>1. Init => DoneInv
  <2> SUFFICES ASSUME Init PROVE DoneInv
    OBVIOUS
  <2>1. pm.at # "claimed" /\ sweep = SweepIdle
    BY DEF Init, PmIdle, PmAt
  <2>2. \A a \in Agents : held[a] = {}
    BY DEF Init
  <2>3. \A i \in Items : status[i] = "pending" /\ disk.status[i] = "pending"
    BY DEF Init, BacklogInit, Mem
  <2>4. Closed
    BY <2>1, <2>2 DEF Closed
  <2>5. Done
    BY <2>3 DEF Done
  <2>6. QED BY <2>4, <2>5, PmTypedInit DEF DoneInv, ExclusiveInv
<1>2. ASSUME ExclusiveInv', DoneInv, [Next]_vars
      PROVE  DoneInv' /\ [faults' \subseteq {"crash"} => StoredStays]_vars
  <2>1. CASE Next
    <3>1. faults \subseteq faults'
      BY <2>1, FaultsStay
    <3>2. CASE faults' \subseteq {"crash"}
      <4>1. PmTyped /\ Closed /\ Done
        BY <1>2, <3>1, <3>2 DEF DoneInv, ExclusiveInv
      <4>2. QED BY <1>2, <2>1, <3>2, <4>1, DoneStep DEF DoneInv
    <3>3. QED BY <1>2, <3>2 DEF DoneInv
  <2>2. CASE UNCHANGED vars
    BY <1>2, <2>2 DEF DoneInv, Done, vars, stateVars, backlogVars
  <2>3. QED BY <1>2, <2>1, <2>2
<1>3. [faults' \subseteq {"crash"} => StoredStays]_vars
        => [faults' \subseteq {"crash"} =>
              \A i \in Items : disk.status[i] = "completed" =>
                disk'.status[i] \in {"completed", "cancelled"}]_vars
  BY DEF StoredStays
<1>4. QED BY <1>1, <1>2, <1>3, ExclusiveInvHolds, PTL DEF Spec, CompletionStays
=============================================================================
