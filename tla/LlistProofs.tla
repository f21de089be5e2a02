----------------------------- MODULE LlistProofs -----------------------------
(***************************************************************************)
(* Theorems about Llist: for any number of lists and entries, and whatever *)
(* the memory of an entry holds before it is appended, the pointers agree  *)
(* with what the callers put on the lists.  For the pointers no induction  *)
(* along a list is needed: `order' names the place of each entry, and a    *)
(* step only changes links next to one place.  A walk along a list follows *)
(* many links; where it would leave the order there is a least such place. *)
(***************************************************************************)
EXTENDS Llist, WellFoundedInduction, TLAPS

Maybe(S) == S \union {Null}

\* The parts of PointersHoldOrder.
EndsRight(l) ==
  /\ head[l] = EntryAt(order[l], 1)
  /\ tail[l] = EntryAt(order[l], Len(order[l]))

LinksRight(l, i) ==
  /\ list[order[l][i]] = l
  /\ next[order[l][i]] = EntryAt(order[l], i + 1)
  /\ prev[order[l][i]] = EntryAt(order[l], i - 1)

OnePlace(l, i, m, j) == order[m][j] = order[l][i] => m = l /\ j = i

(* PointersHoldOrder in its parts.                                         *)
LEMMA Parts ==
  PointersHoldOrder <=>
    /\ \A l \in Lists : EndsRight(l)
    /\ \A l \in Lists : \A i \in 1 .. Len(order[l]) : LinksRight(l, i)
    /\ \A l, m \in Lists : \A i \in 1 .. Len(order[l]), j \in 1 .. Len(order[m]) :
         OnePlace(l, i, m, j)
BY DEF PointersHoldOrder, EndsRight, LinksRight, OnePlace

(* No entry is in two places.                                              *)
LEMMA OnlyOnce ==
  ASSUME PointersHoldOrder, NEW l \in Lists, NEW m \in Lists,
         NEW i \in 1 .. Len(order[l]), NEW j \in 1 .. Len(order[m]),
         order[m][j] = order[l][i]
  PROVE  m = l /\ j = i
BY DEF PointersHoldOrder

(* A list is empty exactly when its head, or its tail, is NULL.            *)
LEMMA EmptyEnds ==
  ASSUME TypeOK, PointersHoldOrder, NEW l \in Lists
  PROVE  /\ head[l] = Null <=> order[l] = <<>>
         /\ tail[l] = Null <=> order[l] = <<>>
<1>1. order[l] \in Seq(Entries)
  BY DEF TypeOK
<1>2. head[l] = EntryAt(order[l], 1) /\ tail[l] = EntryAt(order[l], Len(order[l]))
  BY DEF PointersHoldOrder
<1>3. CASE order[l] = <<>>
  BY <1>2, <1>3 DEF EntryAt
<1>4. CASE order[l] # <<>>
  <2>1. Len(order[l]) \in Nat /\ Len(order[l]) >= 1
    BY <1>1, <1>4
  <2>2. order[l][1] \in Entries /\ order[l][Len(order[l])] \in Entries
    BY <1>1, <2>1
  <2>3. head[l] = order[l][1] /\ tail[l] = order[l][Len(order[l])]
    BY <1>2, <2>1 DEF EntryAt
  <2> QED BY <2>2, <2>3, <1>4, LlistAssumption
<1> QED BY <1>3, <1>4

(* What a sequence looks like after its i-th element was taken out.        *)
LEMMA WithoutType ==
  ASSUME NEW S, NEW s \in Seq(S), NEW i \in 1 .. Len(s)
  PROVE  /\ Without(s, i) \in Seq(S)
         /\ Len(Without(s, i)) = Len(s) - 1
         /\ \A k \in 1 .. Len(s) - 1 :
              Without(s, i)[k] = IF k < i THEN s[k] ELSE s[k + 1]
<1>1. Len(s) \in Nat /\ Len(s) - 1 \in Nat
  OBVIOUS
<1>2. \A k \in 1 .. Len(s) - 1 : s[k] \in S /\ s[k + 1] \in S
  BY <1>1
<1>3. \A k \in 1 .. Len(s) - 1 :
        Without(s, i)[k] = IF k < i THEN s[k] ELSE s[k + 1]
  BY DEF Without
<1>4. Without(s, i) \in [1 .. Len(s) - 1 -> S]
  BY <1>2 DEF Without
<1>5. Without(s, i) \in Seq(S)
  BY <1>1, <1>4
<1>6. DOMAIN Without(s, i) = 1 .. Len(s) - 1
  BY <1>4
<1>7. Len(Without(s, i)) = Len(s) - 1
  BY <1>1, <1>5, <1>6
<1> QED BY <1>3, <1>5, <1>7

-----------------------------------------------------------------------------

LEMMA InitTypeOK == Init => TypeOK
BY DEF Init, TypeOK, EntryMemory

LEMMA NextTypeOK == TypeOK /\ PointersHoldOrder /\ [Next]_vars => TypeOK'
<1> SUFFICES ASSUME TypeOK, PointersHoldOrder, [Next]_vars PROVE TypeOK'
  OBVIOUS
<1>1. ASSUME NEW l \in Lists, NEW e \in Entries, LlistAppend(l, e) PROVE TypeOK'
  <2>1. order' \in [Lists -> Seq(Entries)]
    BY <1>1 DEF TypeOK, LlistAppend
  <2>2. list' \in [Entries -> Lists \union {Null}]
    BY <1>1 DEF TypeOK, EntryMemory, LlistAppend
  <2>3. CASE AppendEmpty(l, e)
    BY <2>1, <2>2, <2>3 DEF TypeOK, EntryMemory, AppendEmpty
  <2>4. CASE AppendLast(l, e)
    BY <2>1, <2>2, <2>4 DEF TypeOK, EntryMemory, AppendLast
  <2> QED BY <1>1, <2>3, <2>4 DEF LlistAppend
<1>2. ASSUME NEW l \in Lists, NEW i \in 1 .. Len(order[l]), LlistRemove(l, i) PROVE TypeOK'
  <2> DEFINE e == order[l][i]
  <2>1. order[l] \in Seq(Entries)
    BY DEF TypeOK
  <2>2. e \in Entries
    BY <2>1
  <2>3. Without(order[l], i) \in Seq(Entries)
    BY <2>1, WithoutType
  <2>4. order' \in [Lists -> Seq(Entries)]
    BY <1>2, <2>3 DEF TypeOK, LlistRemove
  <2>5. list' \in [Entries -> Lists \union {Null}]
    BY <1>2 DEF TypeOK, EntryMemory, LlistRemove
  <2>6. next[e] \in Entries \union {Null} /\ prev[e] \in Entries \union {Null}
    BY <2>2 DEF TypeOK, EntryMemory
  <2>7. next' \in [Entries -> Entries \union {Null}] /\ prev' \in [Entries -> Entries \union {Null}]
    BY <1>2, <2>6 DEF TypeOK, EntryMemory, LlistRemove, Relink
  <2>8. head' \in [Lists -> Entries \union {Null}] /\ tail' \in [Lists -> Entries \union {Null}]
    BY <1>2, <2>6 DEF TypeOK, LlistRemove, UnlinkEnds
  <2> QED BY <2>4, <2>5, <2>7, <2>8 DEF TypeOK, EntryMemory
<1>3. ASSUME NEW e \in Entries, Recycle(e) PROVE TypeOK'
  BY <1>3 DEF TypeOK, EntryMemory, Recycle
<1>4. CASE UNCHANGED vars
  BY <1>4 DEF TypeOK, EntryMemory, vars
<1> QED BY <1>1, <1>2, <1>3, <1>4 DEF Next

(* Appending an entry that is on no list keeps the pointers right.         *)
LEMMA AppendKeepsPointers ==
  ASSUME TypeOK, PointersHoldOrder,
         NEW l \in Lists, NEW e \in Entries, LlistAppend(l, e)
  PROVE  PointersHoldOrder'
<1> DEFINE n == Len(order[l])
<1>1. order \in [Lists -> Seq(Entries)] /\ n \in Nat
  BY DEF TypeOK
<1>2. /\ Len(order'[l]) = n + 1 /\ order'[l][n + 1] = e
      /\ \A k \in 1 .. n : order'[l][k] = order[l][k]
  BY <1>1 DEF LlistAppend
<1>3. \A m \in Lists : m # l => order'[m] = order[m]
  BY <1>1 DEF LlistAppend
<1>4. \A m \in Lists : \A k \in 1 .. Len(order[m]) : order[m][k] \in Entries /\ order[m][k] # e
  BY <1>1 DEF LlistAppend, Free
<1>5. /\ list'[e] = l /\ next'[e] = Null /\ head'[l] = EntryAt(order'[l], 1) /\ tail'[l] = e
      /\ prev'[e] = EntryAt(order[l], n)
      /\ \A m \in Lists : m # l => head'[m] = head[m] /\ tail'[m] = tail[m]
      /\ \A f \in Entries : f # e => list'[f] = list[f] /\ prev'[f] = prev[f]
      /\ \A f \in Entries : f # e /\ (n = 0 \/ f # order[l][n]) => next'[f] = next[f]
      /\ n # 0 => next'[order[l][n]] = e
  <2>1. CASE AppendEmpty(l, e)
    <3>1. order[l] = <<>> /\ n = 0
      BY <2>1, EmptyEnds DEF AppendEmpty
    <3>2. head'[l] = e /\ tail'[l] = e /\ next'[e] = Null /\ prev'[e] = Null /\ list'[e] = l
      BY <2>1 DEF AppendEmpty, LlistAppend, TypeOK, EntryMemory
    <3>3. EntryAt(order'[l], 1) = e /\ EntryAt(order[l], n) = Null
      BY <3>1, <1>2 DEF EntryAt
    <3> QED BY <2>1, <3>1, <3>2, <3>3 DEF AppendEmpty, LlistAppend, TypeOK, EntryMemory
  <2>2. CASE AppendLast(l, e)
    <3>1. order[l] # <<>>
      BY <2>2, EmptyEnds DEF AppendLast
    <3>2. n >= 1
      BY <3>1, <1>1
    <3>3. tail[l] = order[l][n] /\ head[l] = order[l][1]
      BY <3>2, <1>1 DEF PointersHoldOrder, EntryAt
    <3>4. EntryAt(order'[l], 1) = order[l][1] /\ EntryAt(order[l], n) = order[l][n]
      BY <3>2, <1>1, <1>2 DEF EntryAt
    <3>5. order[l][n] \in Entries /\ order[l][n] # e
      BY <1>4, <3>2, <1>1
    <3>6. next' = [next EXCEPT ![e] = Null, ![order[l][n]] = e]
      BY <2>2, <3>3 DEF AppendLast
    <3>7. next'[e] = Null /\ next'[order[l][n]] = e
      BY <3>5, <3>6 DEF TypeOK, EntryMemory
    <3>8. \A f \in Entries : f # e /\ f # order[l][n] => next'[f] = next[f]
      BY <3>6 DEF TypeOK, EntryMemory
    <3>9. prev' = [prev EXCEPT ![e] = order[l][n]] /\ tail' = [tail EXCEPT ![l] = e] /\ head' = head
      BY <2>2, <3>3 DEF AppendLast
    <3>10. list' = [list EXCEPT ![e] = l]
      BY DEF LlistAppend
    <3> QED BY <3>2, <3>3, <3>4, <3>7, <3>8, <3>9, <3>10 DEF TypeOK, EntryMemory
  <2> QED BY <2>1, <2>2 DEF LlistAppend
<1>6. ASSUME NEW m \in Lists PROVE EndsRight(m)'
  <2>1. CASE m = l
    BY <2>1, <1>1, <1>2, <1>5 DEF EndsRight, EntryAt
  <2>2. CASE m # l
    BY <2>2, <1>3, <1>5 DEF EndsRight, PointersHoldOrder
  <2> QED BY <2>1, <2>2
<1>7. ASSUME NEW m \in Lists, NEW i \in 1 .. Len(order'[m]) PROVE LinksRight(m, i)'
  <2>1. CASE m = l /\ i = n + 1
    BY <2>1, <1>1, <1>2, <1>5 DEF LinksRight, EntryAt
  <2>2. CASE m = l /\ i = n /\ i # n + 1
    <3>1. i \in 1 .. n /\ order'[l][i] = order[l][i] /\ n # 0
      BY <2>2, <1>1, <1>2
    <3>2. list'[order[l][i]] = l /\ next'[order[l][i]] = e /\ prev'[order[l][i]] = EntryAt(order[l], i - 1)
      BY <2>2, <3>1, <1>4, <1>5 DEF PointersHoldOrder
    <3>3. EntryAt(order'[l], i + 1) = e /\ EntryAt(order'[l], i - 1) = EntryAt(order[l], i - 1)
      BY <2>2, <3>1, <1>1, <1>2 DEF EntryAt
    <3> QED BY <2>2, <3>1, <3>2, <3>3 DEF LinksRight
  <2>3. CASE m = l /\ i < n
    <3>1. i \in 1 .. n /\ order'[l][i] = order[l][i] /\ n # 0 /\ n \in 1 .. n
      BY <2>3, <1>1, <1>2
    <3>2. order[l][i] # order[l][n]
      BY <2>3, <3>1, <1>1 DEF PointersHoldOrder
    <3>3. /\ list'[order[l][i]] = l /\ next'[order[l][i]] = EntryAt(order[l], i + 1)
          /\ prev'[order[l][i]] = EntryAt(order[l], i - 1)
      BY <3>1, <3>2, <1>4, <1>5 DEF PointersHoldOrder
    <3>4. EntryAt(order'[l], i + 1) = EntryAt(order[l], i + 1) /\ EntryAt(order'[l], i - 1) = EntryAt(order[l], i - 1)
      BY <2>3, <3>1, <1>1, <1>2 DEF EntryAt
    <3> QED BY <2>3, <3>1, <3>3, <3>4 DEF LinksRight
  <2>4. CASE m # l
    <3>1. order'[m] = order[m] /\ i \in 1 .. Len(order[m])
      BY <2>4, <1>3
    <3>2. n # 0 => n \in 1 .. Len(order[l])
      BY <1>1
    <3>3. n # 0 => order[m][i] # order[l][n]
      BY <2>4, <3>1, <3>2 DEF PointersHoldOrder
    <3>4. /\ list'[order[m][i]] = list[order[m][i]] /\ next'[order[m][i]] = next[order[m][i]]
          /\ prev'[order[m][i]] = prev[order[m][i]]
      BY <3>1, <3>3, <1>4, <1>5
    <3> QED BY <3>1, <3>4 DEF LinksRight, PointersHoldOrder
  <2> QED BY <2>1, <2>2, <2>3, <2>4, <1>1, <1>2
<1>8. ASSUME NEW m \in Lists, NEW k \in Lists,
             NEW i \in 1 .. Len(order'[m]), NEW j \in 1 .. Len(order'[k])
      PROVE  OnePlace(m, i, k, j)'
  <2>1. \/ m = l /\ i = n + 1 /\ order'[m][i] = e
        \/ i \in 1 .. Len(order[m]) /\ order'[m][i] = order[m][i]
    BY <1>1, <1>2, <1>3
  <2>2. \/ k = l /\ j = n + 1 /\ order'[k][j] = e
        \/ j \in 1 .. Len(order[k]) /\ order'[k][j] = order[k][j]
    BY <1>1, <1>2, <1>3
  <2> QED BY <2>1, <2>2, <1>4 DEF OnePlace, PointersHoldOrder
<1> QED BY <1>6, <1>7, <1>8 DEF PointersHoldOrder, EndsRight, LinksRight, OnePlace

(* Removing an entry leaves the others in their order, with right links.   *)
LEMMA RemoveKeepsPointers ==
  ASSUME TypeOK, PointersHoldOrder,
         NEW l \in Lists, NEW i \in 1 .. Len(order[l]), LlistRemove(l, i)
  PROVE  PointersHoldOrder'
<1> DEFINE o == order[l]
           n == Len(order[l])
           e == order[l][i]
           From(k) == IF k < i THEN k ELSE k + 1
<1>1. order \in [Lists -> Seq(Entries)] /\ o \in Seq(Entries) /\ n \in Nat /\ n >= 1 /\ i \in Nat
  BY DEF TypeOK
<1>2. \A m \in Lists : \A k \in 1 .. Len(order[m]) : order[m][k] \in Entries
  BY <1>1
<1>3. /\ Len(order'[l]) = n - 1
      /\ \A k \in 1 .. n - 1 : order'[l][k] = o[From(k)]
      /\ \A m \in Lists : m # l => order'[m] = order[m]
  <2>1. order' = [order EXCEPT ![l] = Without(o, i)]
    BY DEF LlistRemove
  <2>2. order'[l] = Without(o, i)
    BY <2>1, <1>1
  <2>3. /\ Len(Without(o, i)) = n - 1
        /\ \A k \in 1 .. n - 1 : Without(o, i)[k] = IF k < i THEN o[k] ELSE o[k + 1]
    BY <1>1, WithoutType
  <2> QED BY <2>1, <2>2, <2>3, <1>1
<1>4. \A k \in 1 .. n - 1 : From(k) \in 1 .. n /\ From(k) # i
  BY <1>1
<1>5. /\ e \in Entries /\ list[e] = l
      /\ next[e] = EntryAt(o, i + 1) /\ prev[e] = EntryAt(o, i - 1)
  BY <1>2 DEF PointersHoldOrder
<1>6. \A m \in Lists : \A k \in 1 .. Len(order[m]) :
        order[m][k] # Null /\ (order[m][k] = e => m = l /\ k = i)
  BY <1>2, LlistAssumption DEF PointersHoldOrder
<1>7. /\ head' = [head EXCEPT ![l] = IF e = head[l] THEN next[e] ELSE head[l]]
      /\ tail' = [tail EXCEPT ![l] = IF e = tail[l] THEN prev[e] ELSE tail[l]]
      /\ prev' = [Relink(prev, next[e], prev[e]) EXCEPT ![e] = Null]
      /\ next' = [Relink(next, prev[e], next[e]) EXCEPT ![e] = Null]
      /\ list' = [list EXCEPT ![e] = Null]
  BY <1>5 DEF LlistRemove, UnlinkEnds
<1>8. \A f \in Entries : f # e =>
        /\ list'[f] = list[f]
        /\ next'[f] = IF f = prev[e] THEN next[e] ELSE next[f]
        /\ prev'[f] = IF f = next[e] THEN prev[e] ELSE prev[f]
  BY <1>7 DEF TypeOK, EntryMemory, Relink
<1>9. \A m \in Lists : m # l => head'[m] = head[m] /\ tail'[m] = tail[m]
  BY <1>7 DEF TypeOK
<1>10. ASSUME NEW m \in Lists PROVE EndsRight(m)'
  <2>1. CASE m # l
    BY <2>1, <1>3, <1>9 DEF EndsRight, PointersHoldOrder
  <2>2. CASE m = l
    <3>1. head[l] = o[1] /\ tail[l] = o[n]
      BY <1>1 DEF PointersHoldOrder, EntryAt
    <3>2. (e = o[1] <=> i = 1) /\ (e = o[n] <=> i = n)
      BY <1>1, <1>6
    <3>3. /\ head'[l] = IF i = 1 THEN EntryAt(o, i + 1) ELSE o[1]
          /\ tail'[l] = IF i = n THEN EntryAt(o, i - 1) ELSE o[n]
      BY <3>1, <3>2, <1>5, <1>7 DEF TypeOK
    <3>4. EntryAt(order'[l], 1) = IF i = 1 THEN EntryAt(o, i + 1) ELSE o[1]
      <4>1. CASE i = 1
        BY <4>1, <1>1, <1>3 DEF EntryAt
      <4>2. CASE i # 1
        BY <4>2, <1>1, <1>3 DEF EntryAt
      <4> QED BY <4>1, <4>2
    <3>5. EntryAt(order'[l], n - 1) = IF i = n THEN EntryAt(o, i - 1) ELSE o[n]
      <4>1. CASE i = n
        BY <4>1, <1>1, <1>3 DEF EntryAt
      <4>2. CASE i # n
        BY <4>2, <1>1, <1>3 DEF EntryAt
      <4> QED BY <4>1, <4>2
    <3> QED BY <2>2, <3>3, <3>4, <3>5, <1>3 DEF EndsRight
  <2> QED BY <2>1, <2>2
<1>11. ASSUME NEW m \in Lists, NEW k \in 1 .. Len(order'[m]) PROVE LinksRight(m, k)'
  <2>1. CASE m # l
    <3> DEFINE f == order[m][k]
    <3>1. order'[m] = order[m] /\ k \in 1 .. Len(order[m]) /\ f \in Entries /\ f # e
      BY <2>1, <1>2, <1>3, <1>6
    <3>2. f # prev[e] /\ f # next[e]
      <4>1. ASSUME NEW j \in 1 .. n PROVE order[l][j] # f
        BY <2>1, <3>1, OnlyOnce
      <4> QED BY <4>1, <1>5, <1>6, <3>1 DEF EntryAt
    <3>3. list'[f] = list[f] /\ next'[f] = next[f] /\ prev'[f] = prev[f]
      BY <3>1, <3>2, <1>8
    <3> QED BY <3>1, <3>3 DEF LinksRight, PointersHoldOrder
  <2>2. CASE m = l
    <3> DEFINE s == From(k)
               f == o[s]
    <3>1. k \in 1 .. n - 1 /\ order'[l][k] = f /\ s \in 1 .. n /\ s # i /\ s \in Nat /\ k \in Nat
      BY <2>2, <1>1, <1>3, <1>4
    <3>2. f \in Entries /\ f # e
      BY <3>1, <1>2, <1>6
    <3>3. list[f] = l /\ next[f] = EntryAt(o, s + 1) /\ prev[f] = EntryAt(o, s - 1)
      <4>1. s \in 1 .. n
        BY <3>1
      <4> HIDE DEF s
      <4> QED BY <4>1 DEF PointersHoldOrder
    <3>4. \A j \in 1 .. n : f = o[j] <=> j = s
      <4>1. ASSUME NEW j \in 1 .. n, f = o[j] PROVE j = s
        BY <4>1, <3>1, OnlyOnce
      <4> QED BY <4>1, <3>1
    <3>5. f # Null
      BY <3>2, LlistAssumption
    <3>6. (f = prev[e] <=> s = i - 1) /\ (f = next[e] <=> s = i + 1)
      BY <3>1, <3>4, <3>5, <1>1, <1>5 DEF EntryAt
    <3>7. /\ next'[f] = IF s = i - 1 THEN EntryAt(o, i + 1) ELSE EntryAt(o, s + 1)
          /\ prev'[f] = IF s = i + 1 THEN EntryAt(o, i - 1) ELSE EntryAt(o, s - 1)
      BY <3>2, <3>3, <3>6, <1>5, <1>8
    <3>8. EntryAt(order'[l], k + 1) = IF s = i - 1 THEN EntryAt(o, i + 1) ELSE EntryAt(o, s + 1)
      <4>1. CASE k + 1 < i
        BY <4>1, <3>1, <1>1, <1>3 DEF EntryAt
      <4>2. CASE k + 1 = i
        BY <4>2, <3>1, <1>1, <1>3 DEF EntryAt
      <4>3. CASE k + 1 > i
        BY <4>3, <3>1, <1>1, <1>3 DEF EntryAt
      <4> QED BY <4>1, <4>2, <4>3, <3>1, <1>1
    <3>9. EntryAt(order'[l], k - 1) = IF s = i + 1 THEN EntryAt(o, i - 1) ELSE EntryAt(o, s - 1)
      <4>1. CASE k < i
        BY <4>1, <3>1, <1>1, <1>3 DEF EntryAt
      <4>2. CASE k = i
        BY <4>2, <3>1, <1>1, <1>3 DEF EntryAt
      <4>3. CASE k > i
        BY <4>3, <3>1, <1>1, <1>3 DEF EntryAt
      <4> QED BY <4>1, <4>2, <4>3, <3>1, <1>1
    <3>10. list'[f] = l
      BY <3>2, <3>3, <1>8
    <3> QED BY <2>2, <3>1, <3>7, <3>8, <3>9, <3>10 DEF LinksRight
  <2> QED BY <2>1, <2>2
<1>12. ASSUME NEW m \in Lists, NEW q \in Lists,
              NEW k \in 1 .. Len(order'[m]), NEW j \in 1 .. Len(order'[q])
       PROVE  OnePlace(m, k, q, j)'
  <2> DEFINE a == IF m = l THEN From(k) ELSE k
             b == IF q = l THEN From(j) ELSE j
  <2>1. a \in 1 .. Len(order[m]) /\ order'[m][k] = order[m][a]
    BY <1>1, <1>3, <1>4
  <2>2. b \in 1 .. Len(order[q]) /\ order'[q][j] = order[q][b]
    BY <1>1, <1>3, <1>4
  <2>3. m = q /\ a = b => k = j
    BY <1>1, <1>3
  <2>4. order[q][b] = order[m][a] => q = m /\ b = a
    <3> HIDE DEF a, b
    <3> QED BY <2>1, <2>2 DEF PointersHoldOrder
  <2> HIDE DEF a, b
  <2> QED BY <2>1, <2>2, <2>3, <2>4 DEF OnePlace
<1> QED BY <1>10, <1>11, <1>12 DEF PointersHoldOrder, EndsRight, LinksRight, OnePlace

(* What is done to an entry on no list disturbs no list.                   *)
LEMMA RecycleKeepsPointers ==
  ASSUME TypeOK, PointersHoldOrder, NEW e \in Entries, Recycle(e)
  PROVE  PointersHoldOrder'
<1>1. \A m \in Lists : \A k \in 1 .. Len(order[m]) : order[m][k] \in Entries /\ order[m][k] # e
  BY DEF TypeOK, Recycle, Free
<1>2. \A f \in Entries : f # e => next'[f] = next[f] /\ prev'[f] = prev[f] /\ list'[f] = list[f]
  BY DEF TypeOK, EntryMemory, Recycle
<1>3. UNCHANGED <<head, tail, order>>
  BY DEF Recycle
<1>4. ASSUME NEW m \in Lists PROVE EndsRight(m)'
  BY <1>3 DEF PointersHoldOrder, EndsRight, EntryAt
<1>5. ASSUME NEW m \in Lists, NEW k \in 1 .. Len(order'[m]) PROVE LinksRight(m, k)'
  <2>1. LinksRight(m, k)
    BY <1>3 DEF PointersHoldOrder, LinksRight
  <2>2. order[m][k] \in Entries /\ order[m][k] # e /\ order' = order
    BY <1>1, <1>3
  <2> QED BY <1>2, <2>1, <2>2 DEF LinksRight, EntryAt
<1>6. ASSUME NEW m \in Lists, NEW q \in Lists,
             NEW k \in 1 .. Len(order'[m]), NEW j \in 1 .. Len(order'[q])
      PROVE  OnePlace(m, k, q, j)'
  BY <1>3, OnlyOnce DEF OnePlace
<1> QED BY <1>4, <1>5, <1>6 DEF PointersHoldOrder, EndsRight, LinksRight, OnePlace

-----------------------------------------------------------------------------

LEMMA Invariance == Spec => [](TypeOK /\ PointersHoldOrder)
<1>1. Init => TypeOK /\ PointersHoldOrder
  <2>1. Init => TypeOK
    BY InitTypeOK
  <2>2. Init => PointersHoldOrder
    <3> SUFFICES ASSUME Init PROVE PointersHoldOrder
      OBVIOUS
    <3>1. \A l \in Lists : order[l] = <<>> /\ Len(order[l]) = 0
      BY DEF Init
    <3>2. \A l \in Lists : head[l] = Null /\ tail[l] = Null
      BY DEF Init
    <3>3. EntryAt(<<>>, 1) = Null /\ EntryAt(<<>>, 0) = Null /\ 1 .. 0 = {}
      BY DEF EntryAt
    <3> QED BY <3>1, <3>2, <3>3, Zenon DEF PointersHoldOrder
  <2> QED BY <2>1, <2>2
<1>2. TypeOK /\ PointersHoldOrder /\ [Next]_vars => (TypeOK /\ PointersHoldOrder)'
  <2>1. TypeOK /\ PointersHoldOrder /\ [Next]_vars => TypeOK'
    BY NextTypeOK
  <2>2. TypeOK /\ PointersHoldOrder /\ UNCHANGED vars => PointersHoldOrder'
    BY DEF vars, PointersHoldOrder, EntryAt
  <2>3. TypeOK /\ PointersHoldOrder /\ Next => PointersHoldOrder'
    BY AppendKeepsPointers, RemoveKeepsPointers, RecycleKeepsPointers DEF Next
  <2> QED BY <2>1, <2>2, <2>3
<1> QED BY <1>1, <1>2, PTL DEF Spec

(* The links are links: every field of a list or an entry keeps its type,  *)
(* and nothing is ever written through a NULL link (llist.c:41-78).        *)
THEOREM TypeCorrect == Spec => []TypeOK
BY Invariance, PTL

(* The pointers of every list hold exactly the entries that were appended  *)
(* and not removed, in order and in both directions (llist.c:41-78).       *)
THEOREM PointersAreRight == Spec => []PointersHoldOrder
BY Invariance, PTL

(* The assertion of llist_append, llist.c:45, never fails.                 *)
THEOREM AppendNeverAsserts == Spec => [](\A l \in Lists : head[l] = Null => tail[l] = Null)
<1>1. TypeOK /\ PointersHoldOrder => \A l \in Lists : head[l] = Null => tail[l] = Null
  BY EmptyEnds
<1> QED BY <1>1, Invariance, PTL

(* The head is the first entry: what a worker gets from llist_get_entry    *)
(* with index 0 (workqueue.c:25) is what has waited longest.               *)
THEOREM HeadIsOldest ==
  Spec => [](\A l \in Lists : order[l] # <<>> => head[l] = order[l][1])
<1>1. ASSUME TypeOK, PointersHoldOrder, NEW l \in Lists, order[l] # <<>>
      PROVE  head[l] = order[l][1]
  <2>1. 1 \in 1 .. Len(order[l])
    BY <1>1 DEF TypeOK
  <2> QED BY <1>1, <2>1 DEF PointersHoldOrder, EntryAt
<1>2. TypeOK /\ PointersHoldOrder =>
        \A l \in Lists : order[l] # <<>> => head[l] = order[l][1]
  BY <1>1
<1> QED BY <1>2, Invariance, PTL

-----------------------------------------------------------------------------
(* Walks along a list.                                                     *)

(* A set of natural numbers that is not empty has a least element.          *)
LEMMA LeastNatural ==
  ASSUME NEW T \in SUBSET Nat, T # {}
  PROVE  \E x \in T : \A y \in T : x <= y
<1> DEFINE R == OpToRel(<, Nat)
<1>1. IsWellFoundedOn(R, Nat)
  BY NatLessThanWellFounded, Zenon
<1>2. \E x \in T : \A y \in T : ~ (<<y, x>> \in R)
  <2> HIDE DEF R
  <2> QED BY <1>1, WFMin
<1>3. \A x, y \in Nat : y < x => <<y, x>> \in R
  BY DEF OpToRel
<1> HIDE DEF R
<1>4. PICK x \in T : \A y \in T : ~ (<<y, x>> \in R)
  BY <1>2
<1>5. ASSUME NEW y \in T PROVE x <= y
  <2>1. x \in Nat /\ y \in Nat /\ ~ (y < x)
    BY <1>3, <1>4
  <2> QED BY <2>1
<1> QED BY <1>5

\* One round of the loop of llist_get_entry, as an equation for all rounds.
CursorStep(l, index, g) ==
  [n \in 0 .. index |->
     IF n = 0 THEN head[l] ELSE IF g[n - 1] = Null THEN Null ELSE next[g[n - 1]]]

(* What the loop computes solves its equation, if anything does.           *)
LEMMA WalkFollowsLinks ==
  ASSUME NEW l, NEW index
  PROVE LlistGetEntry(l, index) = (CHOOSE g : g = CursorStep(l, index, g))[index]
BY DEF LlistGetEntry, CursorStep

(* The entries of the list, in their order, solve the equation, and so does *)
(* the walk; the first place where the two differ would be the successor    *)
(* of a place where they agree.                                             *)
LEMMA WalkFollowsOrder == TypeOK /\ PointersHoldOrder => WalkFindsOrder
<1> SUFFICES ASSUME TypeOK, PointersHoldOrder, NEW l \in Lists, NEW index \in 0 .. Len(order[l])
             PROVE  LlistGetEntry(l, index) = EntryAt(order[l], index + 1)
  BY DEF WalkFindsOrder
<1> DEFINE want == [n \in 0 .. index |-> EntryAt(order[l], n + 1)]
           walk == CHOOSE g : g = CursorStep(l, index, g)
<1>0. order[l] \in Seq(Entries) /\ Len(order[l]) \in Nat /\ index \in Nat
  BY DEF TypeOK
<1>1. /\ EntryAt(order[l], 1) = head[l]
      /\ \A n \in 1 .. index : EntryAt(order[l], n) # Null
                               /\ next[EntryAt(order[l], n)] = EntryAt(order[l], n + 1)
  <2>1. ASSUME NEW n \in 1 .. index
        PROVE  /\ EntryAt(order[l], n) = order[l][n] /\ order[l][n] \in Entries
               /\ next[order[l][n]] = EntryAt(order[l], n + 1)
    <3>1. n \in 1 .. Len(order[l])
      BY <1>0
    <3> QED BY <1>0, <3>1 DEF PointersHoldOrder, EntryAt
  <2>2. EntryAt(order[l], 1) = head[l]
    BY DEF PointersHoldOrder
  <2> QED BY <2>1, <2>2, LlistAssumption
<1>2. want = CursorStep(l, index, want)
  BY <1>0, <1>1 DEF CursorStep
<1>3. walk = CursorStep(l, index, walk)
  <2> HIDE DEF want
  <2> QED BY <1>2
<1>4. \A n \in 0 .. index : walk[n] = want[n]
  <2> DEFINE Wrong == {n \in 0 .. index : walk[n] # want[n]}
  <2> HIDE DEF walk
  <2> SUFFICES ASSUME Wrong # {} PROVE FALSE
    OBVIOUS
  <2>1. Wrong \in SUBSET Nat
    BY <1>0
  <2>2. PICK x \in Wrong : \A y \in Wrong : x <= y
    BY <2>1, LeastNatural
  <2>3. x \in 0 .. index /\ walk[x] # want[x]
    OBVIOUS
  <2>4. CASE x = 0
    BY <2>3, <2>4, <1>0, <1>1, <1>3 DEF CursorStep
  <2>5. CASE x # 0
    <3>1. x - 1 \in 0 .. index /\ x \in 1 .. index
      BY <2>3, <2>5, <1>0
    <3>2. walk[x - 1] = want[x - 1]
      BY <2>2, <3>1
    <3>3. want[x - 1] = EntryAt(order[l], x) /\ want[x] = EntryAt(order[l], x + 1)
      BY <3>1, <2>3
    <3> HIDE DEF want
    <3>4. walk[x] = IF walk[x - 1] = Null THEN Null ELSE next[walk[x - 1]]
      BY <2>3, <2>5, <1>3 DEF CursorStep
    <3> QED BY <2>3, <3>1, <3>2, <3>3, <3>4, <1>1
  <2> QED BY <2>4, <2>5
<1>5. LlistGetEntry(l, index) = walk[index]
  BY WalkFollowsLinks
<1> HIDE DEF walk
<1> QED BY <1>0, <1>4, <1>5

(* Walking along a list from its head visits its entries in their order    *)
(* and ends at NULL: what llist_length counts and llist_get_entry finds    *)
(* (llist.c:80-103), in every state of every list.                         *)
THEOREM WalksAreRight == Spec => []WalkFindsOrder
BY Invariance, WalkFollowsOrder, PTL
=============================================================================
