-------------------------------- MODULE Llist --------------------------------
(***************************************************************************)
(* The doubly linked lists of llist.c, which hold the work that waits in a *)
(* queue (workqueue.c) and the frontends (main.c).  An entry lies inside   *)
(* the object it belongs to.  `order' is history: what the callers believe *)
(* each list holds.                                                        *)
(*                                                                         *)
(* llist_append and llist_remove are one step each.  Not because of the    *)
(* list's own lock, which covers less than all accesses: llist_remove      *)
(* reads entry->list before it takes it (line 60), llist_get_entry and     *)
(* llist_for_each take none.  But the callers exclude each other:          *)
(* workqueue.c reads and changes a queue's list under the queue's mutex,   *)
(* or after the join of the only other thread (ListsAreGuarded in          *)
(* WorkqueueProofs), and only the main thread has the list of frontends.   *)
(***************************************************************************)
EXTENDS Naturals, Sequences

CONSTANTS
  Lists,      \* struct llist
  Entries,    \* struct llist_entry
  Null        \* NULL

ASSUME LlistAssumption == Null \notin Lists /\ Null \notin Entries

VARIABLES
  head, tail,        \* the fields of each list
  next, prev, list,  \* the fields of each entry
  order              \* the entries each list should hold, in order

vars == <<head, tail, next, prev, list, order>>

\* The memory of an entry: frontends come from malloc (sdl.c:27), their
\* links are not initialised before they are appended.
EntryMemory ==
  /\ next \in [Entries -> Entries \union {Null}]
  /\ prev \in [Entries -> Entries \union {Null}]
  /\ list \in [Entries -> Lists \union {Null}]

Init ==
  /\ head = [l \in Lists |-> Null]
  /\ tail = [l \in Lists |-> Null]
  /\ EntryMemory
  /\ order = [l \in Lists |-> <<>>]

\* The callers allocate an entry (workqueue.c:125, sdl.c:27, vnc.c:24) and
\* append it once.
Free(e) == \A l \in Lists : \A i \in 1 .. Len(order[l]) : order[l][i] # e

-----------------------------------------------------------------------------

\* Broken variants of definitions have names that begin with Bad.  No
\* specification uses them; they show that the properties can fail.
BadAppendEmpty(l, e) ==
  /\ head[l] = Null \/ tail[l] = Null
  /\ head' = [head EXCEPT ![l] = e]
  /\ tail' = [tail EXCEPT ![l] = e]
  /\ UNCHANGED <<next, prev>>

AppendEmpty(l, e) ==
  /\ head[l] = Null \/ tail[l] = Null
  /\ next' = [next EXCEPT ![e] = Null]
  /\ prev' = [prev EXCEPT ![e] = Null]
  /\ head' = [head EXCEPT ![l] = e]
  /\ tail' = [tail EXCEPT ![l] = e]

AppendLast(l, e) ==
  /\ head[l] # Null /\ tail[l] # Null
  /\ next' = [next EXCEPT ![e] = Null, ![tail[l]] = e]
  /\ prev' = [prev EXCEPT ![e] = tail[l]]
  /\ tail' = [tail EXCEPT ![l] = e]
  /\ UNCHANGED head

\* llist_append; an entry is only ever appended while it is on no list.
LlistAppend(l, e) ==
  /\ Free(e)
  /\ list' = [list EXCEPT ![e] = l]
  /\ AppendEmpty(l, e) \/ AppendLast(l, e)
  /\ order' = [order EXCEPT ![l] = Append(@, e)]

BadRelink(links, neighbour, to) ==
  [f \in Entries \union {neighbour} |-> IF f = neighbour THEN to ELSE links[f]]

\* A neighbour of a removed entry takes over its link; NULL has none.
Relink(links, neighbour, to) ==
  [f \in Entries |-> IF f = neighbour THEN to ELSE links[f]]

BadUnlinkEnds(l, e) ==
  /\ head' = [head EXCEPT ![l] = IF e = @ THEN next[e] ELSE @]
  /\ UNCHANGED tail

UnlinkEnds(l, e) ==
  /\ head' = [head EXCEPT ![l] = IF e = @ THEN next[e] ELSE @]
  /\ tail' = [tail EXCEPT ![l] = IF e = @ THEN prev[e] ELSE @]

Without(s, i) == [k \in 1 .. Len(s) - 1 |-> IF k < i THEN s[k] ELSE s[k + 1]]

\* llist_remove of the i-th entry; the workers take the first one.
LlistRemove(l, i) ==
  LET e == order[l][i] IN
    /\ UnlinkEnds(list[e], e)
    /\ prev' = [Relink(prev, next[e], prev[e]) EXCEPT ![e] = Null]
    /\ next' = [Relink(next, prev[e], next[e]) EXCEPT ![e] = Null]
    /\ list' = [list EXCEPT ![e] = Null]
    /\ order' = [order EXCEPT ![l] = Without(@, i)]

\* The object of an entry that is on no list is freed, and its memory comes
\* back from malloc with any contents.
Recycle(e) ==
  /\ Free(e)
  /\ \E n, p \in Entries \union {Null} :
       next' = [next EXCEPT ![e] = n] /\ prev' = [prev EXCEPT ![e] = p]
  /\ \E l \in Lists \union {Null} : list' = [list EXCEPT ![e] = l]
  /\ UNCHANGED <<head, tail, order>>

Next ==
  \/ \E l \in Lists, e \in Entries : LlistAppend(l, e)
  \/ \E l \in Lists : \E i \in 1 .. Len(order[l]) : LlistRemove(l, i)
  \/ \E e \in Entries : Recycle(e)

Spec == Init /\ [][Next]_vars

-----------------------------------------------------------------------------
(* Properties.                                                             *)

(* Every field has its type: a link is an entry or NULL.                   *)
TypeOK ==
  /\ head \in [Lists -> Entries \union {Null}]
  /\ tail \in [Lists -> Entries \union {Null}]
  /\ EntryMemory
  /\ order \in [Lists -> Seq(Entries)]

\* The entry at place i of s; beyond its ends there is NULL.
EntryAt(s, i) == IF i \in 1 .. Len(s) THEN s[i] ELSE Null

(* The pointers of a list hold what its callers put there and have not     *)
(* removed: the ends and both links of each entry are where they should    *)
(* be, each entry knows its list, and no entry is on two lists or twice on *)
(* one.  What the memory of an entry held before makes no difference, and  *)
(* the assertion of llist_append (llist.c:45) never fails.                 *)
PointersHoldOrder ==
  \A l \in Lists :
    /\ head[l] = EntryAt(order[l], 1)
    /\ tail[l] = EntryAt(order[l], Len(order[l]))
    /\ \A i \in 1 .. Len(order[l]) :
         /\ list[order[l][i]] = l
         /\ next[order[l][i]] = EntryAt(order[l], i + 1)
         /\ prev[order[l][i]] = EntryAt(order[l], i - 1)
         /\ \A m \in Lists : \A j \in 1 .. Len(order[m]) :
              order[m][j] = order[l][i] => m = l /\ j = i

\* llist_get_entry: follow next from the head.
LlistGetEntry(l, index) ==
  LET cursor[n \in 0 .. index] ==
        IF n = 0 THEN head[l]
        ELSE IF cursor[n - 1] = Null THEN Null ELSE next[cursor[n - 1]]
  IN cursor[index]

(* Walking along a list visits its entries in order and ends: llist_length *)
(* is the number of entries and llist_get_entry the entry at a place.      *)
WalkFindsOrder ==
  \A l \in Lists : \A index \in 0 .. Len(order[l]) :
    LlistGetEntry(l, index) = EntryAt(order[l], index + 1)
=============================================================================
