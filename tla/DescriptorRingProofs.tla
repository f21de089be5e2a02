------------------------ MODULE DescriptorRingProofs ------------------------
(* Lemmas about places on a ring and the sequences that lie between them.  *)
EXTENDS DescriptorRing, SequenceTheorems, TLAPS

\* All that f holds between i and j is in S.
Holds(f, i, j, S) == \A s \in Slots : Way(i, s) < Way(i, j) => f[s] \in S

\* f and g hold the same between i and j.
Agree(f, g, i, j) == \A s \in Slots : Way(i, s) < Way(i, j) => g[s] = f[s]

(* The way is a number below the size of the ring, and 0 only from a place *)
(* to itself.                                                              *)
LEMMA WayRange ==
  ASSUME RingSize \in Nat \ {0}, NEW i \in Slots, NEW j \in Slots
  PROVE  /\ Way(i, j) \in Nat /\ Way(i, j) < RingSize
         /\ Way(i, j) = 0 <=> i = j
  BY DEF Way, Slots

(* Places at the same distance are the same.                               *)
LEMMA WayInjective ==
  ASSUME RingSize \in Nat \ {0},
         NEW i \in Slots, NEW j \in Slots, NEW k \in Slots, Way(i, j) = Way(i, k)
  PROVE  j = k
  BY DEF Way, Slots

(* Going on by less than the whole ring.                                   *)
LEMMA OnwardWay ==
  ASSUME RingSize \in Nat \ {0}, NEW i \in Slots, NEW k \in Nat, k < RingSize
  PROVE  Onward(i, k) \in Slots /\ Way(i, Onward(i, k)) = k
  BY DEF Way, Onward, Slots

(* When the start of a way moves on it becomes shorter.                    *)
LEMMA WayFromOnward ==
  ASSUME RingSize \in Nat \ {0}, NEW i \in Slots, NEW j \in Slots, NEW k \in Nat,
         k <= Way(i, j)
  PROVE  Way(Onward(i, k), j) = Way(i, j) - k
  BY DEF Way, Onward, Slots

(* The way to a place is the way to another one and the rest.              *)
LEMMA WaySplit ==
  ASSUME RingSize \in Nat \ {0}, NEW i \in Slots, NEW j \in Slots, NEW k \in Slots
  PROVE  Way(j, k) = IF Way(i, j) <= Way(i, k) THEN Way(i, k) - Way(i, j)
                                               ELSE Way(i, k) - Way(i, j) + RingSize
  BY DEF Way, Slots

(* When its end moves on it becomes longer.                                *)
LEMMA WayToOnward ==
  ASSUME RingSize \in Nat \ {0}, NEW i \in Slots, NEW j \in Slots,
         Way(i, j) + 1 < RingSize
  PROVE  Way(i, Onward(j, 1)) = Way(i, j) + 1
  BY DEF Way, Onward, Slots

(* What lies between two places is a sequence as long as the way.          *)
LEMMA BetweenType ==
  ASSUME RingSize \in Nat \ {0}, NEW i \in Slots, NEW j \in Slots, NEW S, NEW f,
         Holds(f, i, j, S)
  PROVE  /\ Between(f, i, j) \in Seq(S)
         /\ Len(Between(f, i, j)) = Way(i, j)
         /\ \A k \in 1 .. Way(i, j) : Between(f, i, j)[k] = f[Onward(i, k - 1)]
  <1>1. Way(i, j) \in Nat /\ Way(i, j) < RingSize BY WayRange
  <1>2. ASSUME NEW k \in 1 .. Way(i, j) PROVE f[Onward(i, k - 1)] \in S
    <2>1. k - 1 \in Nat /\ k - 1 < Way(i, j) /\ k - 1 < RingSize BY <1>1
    <2>2. Onward(i, k - 1) \in Slots /\ Way(i, Onward(i, k - 1)) = k - 1
      BY <2>1, OnwardWay
    <2> QED BY <2>1, <2>2 DEF Holds
  <1>3. Between(f, i, j) \in [1 .. Way(i, j) -> S] BY <1>2 DEF Between
  <1> QED BY <1>1, <1>3 DEF Between

(* One more at the end: g differs from f at j only.                        *)
LEMMA BetweenAppend ==
  ASSUME RingSize \in Nat \ {0}, NEW i \in Slots, NEW j \in Slots, NEW S, NEW f, NEW g,
         Way(i, j) + 1 < RingSize,
         Holds(f, i, j, S),
         Agree(f, g, i, j), g[j] \in S
  PROVE  Between(g, i, Onward(j, 1)) = Append(Between(f, i, j), g[j])
  <1> DEFINE w == Way(i, j)
             n == Onward(j, 1)
  <1>1. w \in Nat /\ Way(i, n) = w + 1 BY WayRange, WayToOnward
  <1>2. n \in Slots BY OnwardWay, <1>1
  <1>3. \A s \in Slots : Way(i, s) < w + 1 => Way(i, s) < w \/ s = j
    BY <1>1, WayRange, WayInjective
  <1>4. /\ Between(f, i, j) \in Seq(S) /\ Len(Between(f, i, j)) = w
        /\ \A k \in 1 .. w : Between(f, i, j)[k] = f[Onward(i, k - 1)]
    BY BetweenType
  <1>5. /\ Between(g, i, n) \in Seq(S) /\ Len(Between(g, i, n)) = w + 1
        /\ \A k \in 1 .. w + 1 : Between(g, i, n)[k] = g[Onward(i, k - 1)]
    <2>1. Holds(g, i, n, S)
      <3> SUFFICES ASSUME NEW s \in Slots, Way(i, s) < w + 1 PROVE g[s] \in S BY <1>1 DEF Holds
      <3>1. CASE Way(i, s) < w BY <3>1 DEF Holds, Agree
      <3>2. CASE s = j BY <3>2
      <3> QED BY <1>3, <3>1, <3>2
    <2> QED BY <1>1, <1>2, <2>1, BetweenType
  <1>6. /\ Append(Between(f, i, j), g[j]) \in Seq(S)
        /\ Len(Append(Between(f, i, j), g[j])) = w + 1
        /\ \A k \in 1 .. w + 1 :
             Append(Between(f, i, j), g[j])[k] = IF k = w + 1 THEN g[j] ELSE Between(f, i, j)[k]
    BY <1>1, <1>4, AppendProperties
  <1>7. ASSUME NEW k \in 1 .. w + 1
        PROVE  Between(g, i, n)[k] = Append(Between(f, i, j), g[j])[k]
    <2>1. Onward(i, k - 1) \in Slots /\ Way(i, Onward(i, k - 1)) = k - 1
      BY <1>1, OnwardWay
    <2>2. CASE k = w + 1
      BY <1>1, <1>5, <1>6, <2>1, <2>2, WayInjective
    <2>3. CASE k # w + 1
      <3>1. k \in 1 .. w /\ k - 1 < w BY <1>1, <2>3
      <3> QED BY <1>4, <1>5, <1>6, <2>1, <2>3, <3>1 DEF Agree
    <2> QED BY <2>2, <2>3
  <1> QED BY <1>1, <1>5, <1>6, <1>7, SeqEqual

(* What lies elsewhere does not matter.                                    *)
LEMMA BetweenSame ==
  ASSUME RingSize \in Nat \ {0}, NEW i \in Slots, NEW j \in Slots, NEW f, NEW g,
         Agree(f, g, i, j)
  PROVE  Between(g, i, j) = Between(f, i, j)
  <1>1. Way(i, j) \in Nat /\ Way(i, j) < RingSize BY WayRange
  <1>2. ASSUME NEW k \in 1 .. Way(i, j) PROVE g[Onward(i, k - 1)] = f[Onward(i, k - 1)]
    <2>1. k - 1 \in Nat /\ k - 1 < Way(i, j) /\ k - 1 < RingSize BY <1>1
    <2>2. Onward(i, k - 1) \in Slots /\ Way(i, Onward(i, k - 1)) = k - 1
      BY <2>1, OnwardWay
    <2> QED BY <2>1, <2>2 DEF Agree
  <1> QED BY <1>2 DEF Between

(* One less at the front.                                                  *)
LEMMA BetweenTail ==
  ASSUME RingSize \in Nat \ {0}, NEW i \in Slots, NEW j \in Slots, i # j, NEW S, NEW f,
         Holds(f, i, j, S)
  PROVE  /\ f[i] \in S /\ Between(f, Onward(i, 1), j) \in Seq(S)
         /\ Between(f, i, j) = <<f[i]>> \o Between(f, Onward(i, 1), j)
  <1> DEFINE w == Way(i, j)
             n == Onward(i, 1)
             t == Between(f, n, j)
  <1>1. w \in Nat /\ w > 0 /\ w < RingSize /\ Way(i, i) = 0 BY WayRange
  <1>2. n \in Slots /\ Way(n, j) = w - 1
    <2>1. 1 \in Nat /\ 1 < RingSize /\ 1 <= Way(i, j) BY <1>1
    <2> QED BY <2>1, OnwardWay, WayFromOnward
  <1>3. ASSUME NEW s \in Slots, Way(n, s) < w - 1 PROVE s # i /\ Way(i, s) = Way(n, s) + 1
    <2>1. s # i BY <1>1, <1>3 DEF Way, Onward, Slots
    <2>2. Way(i, s) >= 1 /\ Way(i, s) \in Nat /\ Way(n, s) \in Nat BY <1>2, <2>1, WayRange
    <2>3. Way(n, s) = Way(i, s) - 1 BY <2>2, WayFromOnward
    <2> QED BY <2>1, <2>2, <2>3
  <1>4. /\ Between(f, i, j) \in Seq(S) /\ Len(Between(f, i, j)) = w
        /\ \A k \in 1 .. w : Between(f, i, j)[k] = f[Onward(i, k - 1)]
    BY BetweenType
  <1>5. /\ t \in Seq(S) /\ Len(t) = w - 1
        /\ \A k \in 1 .. w - 1 : t[k] = f[Onward(n, k - 1)]
    <2>1. Holds(f, n, j, S)
      <3> SUFFICES ASSUME NEW s \in Slots, Way(n, s) < w - 1 PROVE f[s] \in S BY <1>2 DEF Holds
      <3>1. s # i /\ Way(i, s) = Way(n, s) + 1 /\ Way(n, s) \in Nat BY <1>2, <1>3, WayRange
      <3>2. Way(i, s) < Way(i, j) BY <1>1, <3>1
      <3> QED BY <3>1, <3>2 DEF Holds
    <2> QED BY <1>2, <2>1, BetweenType
  <1>6. f[i] \in S /\ <<f[i]>> \in Seq(S) /\ Len(<<f[i]>>) = 1 /\ <<f[i]>>[1] = f[i]
    BY <1>1 DEF Holds
  <1>7. /\ <<f[i]>> \o t \in Seq(S) /\ Len(<<f[i]>> \o t) = w
        /\ \A k \in 1 .. w : (<<f[i]>> \o t)[k] = IF k <= 1 THEN <<f[i]>>[k] ELSE t[k - 1]
    BY <1>1, <1>5, <1>6, ConcatProperties
  <1>8. ASSUME NEW k \in 1 .. w PROVE Between(f, i, j)[k] = (<<f[i]>> \o t)[k]
    <2>1. CASE k = 1
      <3>1. Onward(i, 0) = i BY DEF Onward, Slots
      <3> QED BY <1>1, <1>4, <1>6, <1>7, <2>1, <3>1
    <2>2. CASE k # 1
      <3>1. k - 1 \in 1 .. w - 1 /\ k \in Nat /\ k > 1 /\ k <= w BY <1>1, <2>2
      <3>2. Onward(n, k - 2) = Onward(i, k - 1)
        BY <1>1, <3>1 DEF Onward, Slots
      <3>3. t[k - 1] = f[Onward(n, k - 2)] BY <1>5, <3>1
      <3> QED BY <1>4, <1>7, <2>2, <3>1, <3>2, <3>3
    <2> QED BY <2>1, <2>2
  <1> QED BY <1>1, <1>4, <1>5, <1>6, <1>7, <1>8, SeqEqual
=============================================================================
