-------------------------- MODULE EmTransmitProofs --------------------------
(***************************************************************************)
(* Proofs about EmTransmit, for every size of the ring, the pool, the      *)
(* thresholds and the bursts.  All places on the ring are measured from    *)
(* First, the descriptor after the last one that was taken back.           *)
(***************************************************************************)
EXTENDS EmTransmit, DescriptorRingProofs, FiniteSetTheorems

USE TransmitAssumption

First == Onward(lastCleaned, 1)

(* From First on lie the descriptors the card has sent, those it knows of  *)
(* and those it does not know of yet; only the first may be marked as done.*)
RingInv ==
  /\ nbTxFree = RingSize - 1 - Way(First, txTail)
  /\ Way(First, tdh) <= Way(First, tdt) /\ Way(First, tdt) <= Way(First, txTail)
  /\ \A i \in Slots : Way(First, tdh) <= Way(First, i) /\ Way(First, i) < Way(First, txTail)
                        => i \notin dd /\ pkt[i] # NoPacket

\* The buffers of the packets that sw_ring holds.
Taken == {i \in Slots : pkt[i] # NoPacket}

\* The buffers in m_head.
InArray == IF stage = "build" THEN BurstSize ELSE Len(batch)

EnoughPool == poolSize >= RxRingSize + RingSize + 2 * BurstSize - 1

(* Where the buffers are, and what the array holds.                        *)
PoolInv ==
  /\ common + cache + RxRingSize + Cardinality(Taken) + InArray = poolSize
  /\ stage \in {"alloc", "stale"} => batch = <<>>
  /\ stage = "build" => Len(batch) < BurstSize
  /\ EnoughPool => stage # "stale"

(* Of the descriptors in use every RsThresh-th carries the RS bit, counted *)
(* from First, and those that carry it and have been sent carry DD.        *)
MarkInv ==
  /\ nbTxUsed = Way(First, txTail) % RsThresh
  /\ \A i \in Slots : Way(First, i) < Way(First, txTail) =>
       (i \in rs <=> (Way(First, i) + 1) % RsThresh = 0)
  /\ \A i \in Slots : Way(First, i) < Way(First, tdh) /\ i \in rs => i \in dd

Inv == TypeOK /\ RingInv /\ PoolInv /\ MarkInv

-----------------------------------------------------------------------------
LEMMA Sizes ==
  /\ RingSize \in Nat \ {0} /\ 1 < RingSize /\ RsThresh < RingSize
  /\ RsThresh \in Nat \ {0} /\ FreeThresh \in Nat \ {0}
  /\ 1 \in Nat /\ BurstSize \in Nat \ {0} /\ CacheSize \in Nat /\ RxRingSize \in Nat
  BY TransmitAssumption

(* Division by a positive number has one remainder.                        *)
LEMMA RemainderUnique ==
  ASSUME NEW b \in Nat \ {0}, NEW q \in Nat, NEW r \in Nat, r < b
  PROVE  (q * b + r) % b = r
  <1> DEFINE n == q * b + r
             d == n \div b
             m == n % b
  <1>1. n \in Nat /\ b \in Nat /\ b > 0 OBVIOUS
  <1>2. d \in Nat /\ m \in Nat /\ m < b /\ n = d * b + m
    <2> HIDE DEF n
    <2>1. d \in Nat /\ m \in Nat /\ m < b /\ n = b * d + m BY <1>1
    <2> HIDE DEF d, m
    <2> QED BY <1>1, <2>1
  <1> HIDE DEF d, m
  <1>3. ~(d < q)
    <2> SUFFICES ASSUME d < q PROVE FALSE OBVIOUS
    <2>1. PICK c \in Nat : q = d + 1 + c BY <1>2, q - (d + 1) \in Nat
    <2>2. q * b = d * b + b + c * b /\ c * b \in Nat /\ d * b \in Nat BY <1>2, <2>1
    <2> QED BY <1>2, <2>2
  <1>4. ~(q < d)
    <2> SUFFICES ASSUME q < d PROVE FALSE OBVIOUS
    <2>1. PICK c \in Nat : d = q + 1 + c BY <1>2, d - (q + 1) \in Nat
    <2>2. d * b = q * b + b + c * b /\ c * b \in Nat /\ q * b \in Nat BY <1>2, <2>1
    <2> QED BY <1>2, <2>2
  <1>5. d = q BY <1>2, <1>3, <1>4
  <1>6. q * b \in Nat OBVIOUS
  <1>7. m = r BY <1>2, <1>5, <1>6
  <1> QED BY <1>7 DEF m

(* How the remainder goes on, and that it is the same a whole step further.*)
LEMMA RemainderStep ==
  ASSUME NEW b \in Nat \ {0}, NEW n \in Nat
  PROVE  /\ n % b \in 0 .. b - 1
         /\ (n + 1) % b = IF (n % b) + 1 = b THEN 0 ELSE (n % b) + 1
         /\ (n + b) % b = n % b
  <1> DEFINE d == n \div b
             m == n % b
  <1>1. d \in Nat /\ m \in Nat /\ m < b /\ n = d * b + m
    <2>1. b \in Nat /\ b > 0 OBVIOUS
    <2>2. d \in Nat /\ m \in Nat /\ m < b /\ n = b * d + m BY <2>1
    <2> HIDE DEF d, m
    <2> QED BY <2>1, <2>2
  <1> HIDE DEF d, m
  <1>2. d + 1 \in Nat /\ (d + 1) * b = d * b + b /\ d * b \in Nat BY <1>1
  <1>3. (n + b) % b = m
    <2>1. n + b = (d + 1) * b + m BY <1>1, <1>2
    <2>2. ((d + 1) * b + m) % b = m BY <1>1, <1>2, RemainderUnique
    <2> QED BY <2>1, <2>2
  <1>4. CASE m + 1 = b
    <2>1. n + 1 = (d + 1) * b + 0 BY <1>1, <1>2, <1>4
    <2>2. ((d + 1) * b + 0) % b = 0
      <3>1. 0 \in Nat /\ 0 < b OBVIOUS
      <3> HIDE DEF d
      <3> QED BY <1>2, <3>1, RemainderUnique
    <2> QED BY <1>1, <1>3, <1>4, <2>1, <2>2 DEF m
  <1>5. CASE m + 1 # b
    <2>1. n + 1 = d * b + (m + 1) /\ m + 1 \in Nat /\ m + 1 < b BY <1>1, <1>2, <1>5
    <2>2. (d * b + (m + 1)) % b = m + 1 BY <1>1, <2>1, RemainderUnique
    <2> QED BY <1>1, <1>3, <1>5, <2>1, <2>2 DEF m
  <1> QED BY <1>4, <1>5

LEMMA FirstInSlots == ASSUME TypeOK PROVE First \in Slots
  BY Sizes, OnwardWay DEF First, TypeOK

(* The number of taken descriptors.                                        *)
LEMMA TakenSize ==
  /\ IsFiniteSet(Taken) /\ Cardinality(Taken) \in Nat /\ Cardinality(Taken) <= RingSize
  <1>1. IsFiniteSet(Slots) /\ Cardinality(Slots) = RingSize
    BY Sizes, FS_Interval DEF Slots
  <1>2. Taken \subseteq Slots BY DEF Taken
  <1> QED BY <1>1, <1>2, FS_Subset, FS_CardinalityType

(* Putting a packet into a descriptor.                                     *)
LEMMA TakenStep ==
  ASSUME TypeOK, NEW p \in Pixels, pkt' = [pkt EXCEPT ![txTail] = p]
  PROVE  Cardinality(Taken') = IF pkt[txTail] = NoPacket THEN Cardinality(Taken) + 1
                                                         ELSE Cardinality(Taken)
  <1>1. Taken' = Taken \union {txTail} BY DEF Taken, TypeOK
  <1>2. txTail \in Taken <=> pkt[txTail] # NoPacket BY DEF Taken, TypeOK
  <1>3. Cardinality(Taken \union {txTail})
          = IF txTail \in Taken THEN Cardinality(Taken) ELSE Cardinality(Taken) + 1
    BY TakenSize, FS_AddElement
  <1> QED BY <1>1, <1>2, <1>3

(* A freed buffer is in the pool or in the cache.                          *)
LEMMA FreeBufferFacts ==
  ASSUME TypeOK, FreeBuffer
  PROVE  /\ common' \in Nat /\ cache' \in Nat
         /\ \/ cache' = cache + 1 /\ common' = common
            \/ cache' = CacheSize /\ common' = common + (cache + 1 - CacheSize)
  <1>1. cache + 1 < (3 * CacheSize) \div 2 \/ CacheSize <= cache + 1
    BY Sizes DEF TypeOK
  <1> QED BY <1>1, Sizes DEF FreeBuffer, TypeOK

(* em_xmit_cleanup is called when at least RsThresh descriptors are in use;*)
(* the one it looks at is done, so the card has sent all up to it.         *)
LEMMA CleanupFacts ==
  ASSUME TypeOK, RingInv, Cleanup, nbTxFree < FreeThresh \/ nbTxFree = 0
  PROVE  /\ Target \in Slots /\ First' = Onward(First, RsThresh) /\ First' \in Slots
         /\ RsThresh <= Way(First, tdh)
         /\ nbTxFree' = nbTxFree + RsThresh
  <1>1. lastCleaned \in Slots /\ First \in Slots /\ nbTxFree \in Nat
    BY FirstInSlots DEF TypeOK, Slots
  <1>2. Target \in Slots /\ Way(lastCleaned, Target) = RsThresh
    BY <1>1, Sizes, OnwardWay DEF Target
  <1>3. First' = Onward(Target, 1) BY DEF Cleanup, First
  <1>4. Onward(Target, 1) = Onward(First, RsThresh) /\ Onward(Target, 1) \in Slots
    BY <1>1, Sizes DEF Target, First, Onward, Slots
  <1>5. Way(First, Target) = RsThresh - 1
    BY <1>1, <1>2, Sizes DEF First, Onward, Way, Slots
  <1>6. Way(First, tdh) \in Nat /\ Way(First, txTail) \in Nat
    BY <1>1, Sizes, WayRange DEF TypeOK
  <1>7. Way(First, txTail) >= RsThresh BY <1>1, <1>6, Sizes DEF RingInv
  <1>8. ~(Way(First, tdh) <= RsThresh - 1)
    BY <1>2, <1>5, <1>6, <1>7, Sizes DEF RingInv, Cleanup
  <1> QED BY <1>2, <1>3, <1>4, <1>6, <1>8, Sizes DEF Cleanup

-----------------------------------------------------------------------------
LEMMA InitInv == Init => Inv
  <1> SUFFICES ASSUME Init PROVE Inv OBVIOUS
  <1>1. First = 0 /\ Way(0, 0) = 0 BY Sizes DEF Init, First, Onward, Way
  <1>2. TypeOK
    <2>1. <<>> \in Seq(Pixels) /\ Len(<<>>) = 0 BY EmptySeq
    <2>2. pixel \in Pixels BY DEF Init, Pixels
    <2>3. common \in Nat /\ cache \in Nat /\ poolSize \in PoolSizes
      BY Sizes DEF Init
    <2>4. /\ tdh \in Slots /\ tdt \in Slots /\ txTail \in Slots
          /\ nbTxFree \in Slots /\ lastCleaned \in Slots /\ nbTxUsed \in 0 .. RsThresh - 1
      BY Sizes DEF Init, Slots
    <2>5. pkt \in [Slots -> Pixels \union {NoPacket}] /\ rs \subseteq Slots /\ dd \subseteq Slots
      BY DEF Init
    <2> QED BY <2>1, <2>2, <2>3, <2>4, <2>5, Sizes DEF Init, TypeOK
  <1>3. RingInv
    <2>1. \A i \in Slots : Way(0, i) \in Nat BY Sizes, WayRange DEF Slots
    <2> QED BY <1>1, <2>1, Sizes DEF Init, RingInv
  <1>4. PoolInv
    <2>1. Taken = {} BY DEF Init, Taken
    <2>2. Cardinality(Taken) = 0 BY <2>1, FS_EmptySet
    <2>3. Len(batch) = 0 /\ batch = <<>> BY EmptySeq DEF Init
    <2> QED BY <1>2, <2>2, <2>3, Sizes DEF Init, PoolInv, InArray, TypeOK
  <1>5. MarkInv
    <2>1. 0 % RsThresh = 0
      <3>1. (0 * RsThresh + 0) % RsThresh = 0 BY Sizes, RemainderUnique
      <3> QED BY <3>1, Sizes
    <2>2. \A i \in Slots : Way(0, i) \in Nat BY Sizes, WayRange DEF Slots
    <2> QED BY <1>1, <2>1, <2>2 DEF Init, MarkInv
  <1> QED BY <1>2, <1>3, <1>4, <1>5 DEF Inv

LEMMA TypeStep == Inv /\ [Next]_vars => TypeOK'
  <1> SUFFICES ASSUME TypeOK, RingInv, PoolInv, [Next]_vars PROVE TypeOK'
    BY DEF Inv
  <1>0. batch \in Seq(Pixels) /\ Len(batch) \in Nat /\ Len(batch) <= BurstSize
    BY LenProperties DEF TypeOK
  <1>1. CASE AllocBurst
    <2>1. common' \in Nat /\ cache' \in Nat BY <1>1, Sizes DEF AllocBurst, TypeOK
    <2> QED BY <1>1, <2>1 DEF AllocBurst, countVars, TypeOK
  <1>2. CASE AllocFails
    BY <1>2 DEF AllocFails, poolVars, countVars, TypeOK
  <1>3. CASE Build
    <2>1. After(pixel) \in Pixels BY Sizes DEF After, Pixels, TypeOK
    <2>2. batch' \in Seq(Pixels) /\ Len(batch') = Len(batch) + 1
      BY <1>0, <1>3, AppendProperties DEF Build, TypeOK
    <2>3. Len(batch') <= BurstSize BY <1>0, <1>3, <2>2, Sizes DEF Build, PoolInv
    <2> QED BY <1>3, <2>1, <2>2, <2>3 DEF Build, poolVars, countVars, TypeOK
  <1>4. CASE CleanFirst \/ CleanMore
    <2>1. Cleanup /\ (nbTxFree < FreeThresh \/ nbTxFree = 0)
      BY <1>4 DEF CleanFirst, CleanMore
    <2>2. Target \in Slots /\ nbTxFree' = nbTxFree + RsThresh BY <2>1, CleanupFacts
    <2>3. nbTxFree' \in Slots
      <3>1. nbTxFree \in Nat BY DEF TypeOK, Slots
      <3>2. nbTxFree + RsThresh < RingSize BY <2>1, <3>1, Sizes
      <3> QED BY <2>2, <3>1, <3>2, Sizes DEF Slots
    <2>4. dd' \subseteq Slots /\ lastCleaned' \in Slots BY <2>1, <2>2 DEF Cleanup, TypeOK
    <2>5. stage' \in {"send"} BY <1>4 DEF CleanFirst, CleanMore
    <2> QED BY <1>4, <2>3, <2>4, <2>5 DEF CleanFirst, CleanMore, poolVars, TypeOK
  <1>5. CASE NoCleanFirst
    BY <1>5 DEF NoCleanFirst, poolVars, countVars, TypeOK
  <1>6. CASE SendOne
    <2>1. Head(batch) \in Pixels /\ batch' \in Seq(Pixels) /\ Len(batch') = Len(batch) - 1
      BY <1>0, <1>6, HeadTailProperties DEF SendOne
    <2>2. common' \in Nat /\ cache' \in Nat
      BY <1>6, FreeBufferFacts DEF SendOne, poolVars, TypeOK
    <2>3. txTail' \in Slots BY <1>6, Sizes, OnwardWay DEF SendOne, TypeOK
    <2>4. nbTxFree' \in Slots BY <1>6 DEF SendOne, TypeOK, Slots
    <2>5. pkt' \in [Slots -> Pixels \union {NoPacket}] BY <1>6, <2>1 DEF SendOne, TypeOK
    <2>6. rs' \subseteq Slots /\ nbTxUsed' \in 0 .. RsThresh - 1
      BY <1>6, Sizes DEF SendOne, Mark, TypeOK
    <2>7. dd' \subseteq Slots BY <1>6 DEF SendOne, TypeOK
    <2> QED BY <1>0, <1>6, <2>1, <2>2, <2>3, <2>4, <2>5, <2>6, <2>7 DEF SendOne, TypeOK
  <1>7. CASE SendEnds
    BY <1>7 DEF SendEnds, poolVars, countVars, TypeOK
  <1>8. CASE DropOne
    <2>1. batch' \in Seq(Pixels) /\ Len(batch') = Len(batch) - 1
      BY <1>0, <1>8, HeadTailProperties DEF DropOne
    <2>2. common' \in Nat /\ cache' \in Nat BY <1>8, FreeBufferFacts DEF DropOne
    <2> QED BY <1>0, <1>8, <2>1, <2>2 DEF DropOne, countVars, TypeOK
  <1>9. CASE BurstDone
    BY <1>9 DEF BurstDone, poolVars, countVars, TypeOK
  <1>10. CASE CardSends
    <2>1. tdh' \in Slots BY <1>10, Sizes, OnwardWay DEF CardSends, TypeOK
    <2>2. dd' \subseteq Slots BY <1>10 DEF CardSends, TypeOK
    <2> QED BY <1>10, <2>1, <2>2 DEF CardSends, poolVars, countVars, TypeOK
  <1>11. CASE Lost \/ UNCHANGED vars
    BY <1>11 DEF Lost, vars, TypeOK
  <1> QED BY <1>1, <1>2, <1>3, <1>4, <1>5, <1>6, <1>7, <1>8, <1>9, <1>10, <1>11
          DEF Next, ClientStep

LEMMA RingStep == Inv /\ [Next]_vars => RingInv'
  <1> SUFFICES ASSUME TypeOK, RingInv, PoolInv, [Next]_vars PROVE RingInv'
    BY DEF Inv
  <1> DEFINE h == Way(First, tdh)
             t == Way(First, tdt)
             e == Way(First, txTail)
  <1>0. /\ First \in Slots /\ tdh \in Slots /\ tdt \in Slots /\ txTail \in Slots
        /\ h \in Nat /\ t \in Nat /\ e \in Nat /\ h <= t /\ t <= e /\ e < RingSize
        /\ nbTxFree = RingSize - 1 - e
    BY FirstInSlots, Sizes, WayRange DEF TypeOK, RingInv
  <1>a. \A i \in Slots : Way(First, i) \in Nat /\ Way(First, i) < RingSize
    BY <1>0, Sizes, WayRange
  <1>1. CASE /\ UNCHANGED <<pkt, dd, tdh, tdt, txTail, nbTxFree, lastCleaned>>
    BY <1>1 DEF RingInv, First
  <1>2. CASE Cleanup /\ (nbTxFree < FreeThresh \/ nbTxFree = 0)
               /\ UNCHANGED <<pkt, tdh, tdt, txTail>>
    <2>1. /\ First' \in Slots /\ First' = Onward(First, RsThresh) /\ RsThresh <= h
          /\ nbTxFree' = nbTxFree + RsThresh
      BY <1>2, CleanupFacts
    <2>2. Way(First, First') = RsThresh BY <1>0, <2>1, Sizes, OnwardWay
    <2>3. ASSUME NEW i \in Slots
          PROVE  Way(First', i) = IF RsThresh <= Way(First, i)
                   THEN Way(First, i) - RsThresh ELSE Way(First, i) - RsThresh + RingSize
      BY <1>0, <2>1, <2>2, Sizes, WaySplit
    <2>4. Way(First', tdh) = h - RsThresh /\ Way(First', tdt) = t - RsThresh
          /\ Way(First', txTail) = e - RsThresh
      BY <1>0, <2>1, <2>3, Sizes
    <2>5. ASSUME NEW i \in Slots, h - RsThresh <= Way(First', i), Way(First', i) < e - RsThresh
          PROVE  i \notin dd' /\ pkt[i] # NoPacket
      <3>1. h <= Way(First, i) /\ Way(First, i) < e
        BY <1>0, <1>a, <2>1, <2>3, <2>5, Sizes
      <3> QED BY <1>2, <3>1 DEF RingInv, Cleanup
    <2> QED BY <1>0, <1>2, <2>1, <2>4, <2>5, Sizes DEF RingInv
  <1>3. CASE SendOne
    <2>1. First' = First /\ nbTxFree' = nbTxFree - 1 /\ tdh' = tdh /\ tdt' = tdt
          /\ txTail' = Onward(txTail, 1) /\ dd' = dd \ {txTail}
          /\ pkt' = [pkt EXCEPT ![txTail] = Head(batch)] /\ e + 1 < RingSize
      BY <1>0, <1>3 DEF SendOne, First
    <2>2. Way(First', txTail') = e + 1 BY <1>0, <2>1, Sizes, WayToOnward
    <2>3. Head(batch) # NoPacket
      <3>1. Head(batch) \in Pixels BY <1>3, HeadTailProperties DEF SendOne, TypeOK
      <3> QED BY <3>1
    <2>4. ASSUME NEW i \in Slots, h <= Way(First, i), Way(First, i) < e + 1
          PROVE  i \notin dd' /\ pkt'[i] # NoPacket
      <3>1. CASE i = txTail BY <2>1, <2>3, <3>1 DEF TypeOK
      <3>2. CASE i # txTail
        <4>1. Way(First, i) < e BY <1>0, <1>a, <2>4, <3>2, Sizes, WayInjective
        <4> QED BY <2>1, <2>4, <3>2, <4>1 DEF RingInv, TypeOK
      <3> QED BY <3>1, <3>2
    <2> QED BY <1>0, <2>1, <2>2, <2>4 DEF RingInv
  <1>4. CASE SendEnds
    <2>1. First' = First /\ tdt' = txTail /\ UNCHANGED <<pkt, dd, tdh, txTail, nbTxFree>>
      BY <1>4 DEF SendEnds, First, countVars
    <2> QED BY <1>0, <2>1 DEF RingInv
  <1>5. CASE CardSends
    <2>1. /\ First' = First /\ tdh' = Onward(tdh, 1) /\ tdh # tdt /\ dd' \subseteq dd \union {tdh}
          /\ UNCHANGED <<pkt, tdt, txTail, nbTxFree>>
      BY <1>5 DEF CardSends, First, countVars
    <2>2. h < t BY <1>0, <2>1, Sizes, WayInjective
    <2>3. Way(First', tdh') = h + 1
      <3>1. h + 1 < RingSize BY <1>0, <2>2
      <3> QED BY <1>0, <2>1, <3>1, Sizes, WayToOnward
    <2>4. ASSUME NEW i \in Slots, h + 1 <= Way(First, i), Way(First, i) < e
          PROVE  i \notin dd' /\ pkt[i] # NoPacket
      <3>1. i # tdh BY <1>0, <2>4
      <3>2. i \notin dd /\ pkt[i] # NoPacket BY <1>0, <1>a, <2>4 DEF RingInv
      <3> QED BY <2>1, <3>1, <3>2
    <2> QED BY <1>0, <2>1, <2>2, <2>3, <2>4 DEF RingInv
  <1>6. CASE UNCHANGED vars BY <1>1, <1>6 DEF vars
  <1> QED
    BY <1>1, <1>2, <1>3, <1>4, <1>5, <1>6
       DEF Next, ClientStep, Lost, AllocBurst, AllocFails, Build, CleanFirst, NoCleanFirst,
           CleanMore, DropOne, BurstDone, countVars

LEMMA PoolStep == Inv /\ [Next]_vars => PoolInv'
  <1> SUFFICES ASSUME TypeOK, RingInv, PoolInv, [Next]_vars PROVE PoolInv'
    BY DEF Inv
  <1>0. /\ batch \in Seq(Pixels) /\ Len(batch) \in Nat /\ Cardinality(Taken) \in Nat
        /\ Cardinality(Taken) <= RingSize /\ common \in Nat /\ cache \in Nat /\ poolSize \in Nat
        /\ common + cache + RxRingSize + Cardinality(Taken) + InArray = poolSize
        /\ batch = <<>> => Len(batch) = 0
    BY LenProperties, TakenSize, EmptySeq DEF TypeOK, PoolInv
  <1> DEFINE Same == Taken' = Taken /\ poolSize' = poolSize
  <1>a. pkt' = pkt /\ poolSize' = poolSize => Same BY DEF Taken
  <1>1. CASE AllocBurst
    <2>1. Same /\ batch' = batch /\ stage = "alloc" /\ stage' = "build"
      BY <1>1, <1>a DEF AllocBurst
    <2>2. InArray = 0 /\ InArray' = BurstSize /\ Len(batch') = 0
      BY <1>0, <2>1 DEF PoolInv, InArray
    <2>3. CASE cache' = cache - BurstSize /\ common' = common
      BY <1>0, <2>1, <2>2, <2>3, Sizes DEF PoolInv, EnoughPool
    <2>4. CASE cache' = CacheSize /\ common' = common - (BurstSize + (CacheSize - cache))
      BY <1>0, <2>1, <2>2, <2>4, Sizes DEF PoolInv, EnoughPool
    <2>5. CASE cache' = cache /\ common' = common - BurstSize
      BY <1>0, <2>1, <2>2, <2>5, Sizes DEF PoolInv, EnoughPool
    <2> QED BY <1>1, <2>3, <2>4, <2>5 DEF AllocBurst
  <1>2. CASE AllocFails
    <2>1. Same /\ UNCHANGED <<batch, common, cache>> /\ stage = "alloc" /\ stage' = "stale"
          /\ cache < BurstSize /\ common < BurstSize
      BY <1>2, <1>a DEF AllocFails, poolVars
    <2>2. ~EnoughPool BY <1>0, <2>1, Sizes DEF PoolInv, EnoughPool, InArray
    <2> QED BY <1>0, <2>1, <2>2, Sizes DEF PoolInv, EnoughPool, InArray
  <1>3. CASE Build
    <2>1. Same /\ UNCHANGED <<common, cache>> /\ Len(batch') = Len(batch) + 1
          /\ stage = "build" /\ stage' = IF Len(batch) + 1 = BurstSize THEN "clean" ELSE "build"
      BY <1>0, <1>3, <1>a, AppendProperties DEF Build, poolVars, TypeOK
    <2>2. CASE Len(batch) + 1 = BurstSize
      BY <1>0, <2>1, <2>2, Sizes DEF PoolInv, EnoughPool, InArray
    <2>3. CASE Len(batch) + 1 # BurstSize
      BY <1>0, <2>1, <2>3, Sizes DEF PoolInv, EnoughPool, InArray
    <2> QED BY <2>2, <2>3
  <1>4. CASE CleanFirst \/ CleanMore \/ NoCleanFirst \/ SendEnds \/ BurstDone
    <2>1. Same /\ UNCHANGED <<common, cache, batch>>
      BY <1>4, <1>a DEF CleanFirst, CleanMore, NoCleanFirst, SendEnds, BurstDone, poolVars
    <2>2. stage \in {"clean", "send", "drop"} /\ stage' \in {"send", "drop", "alloc"}
          /\ (stage' = "alloc" => batch = <<>>)
      BY <1>4 DEF CleanFirst, CleanMore, NoCleanFirst, SendEnds, BurstDone
    <2> QED BY <1>0, <2>1, <2>2 DEF PoolInv, EnoughPool, InArray
  <1>5. CASE SendOne
    <2>1. Head(batch) \in Pixels /\ Len(batch') = Len(batch) - 1 /\ poolSize' = poolSize
          /\ pkt' = [pkt EXCEPT ![txTail] = Head(batch)] /\ stage = "send" /\ stage' = "send"
      BY <1>0, <1>5, HeadTailProperties DEF SendOne
    <2>2. CASE pkt[txTail] = NoPacket
      <3>1. Cardinality(Taken') = Cardinality(Taken) + 1 BY <2>1, <2>2, TakenStep
      <3>2. UNCHANGED <<common, cache>> BY <1>5, <2>2 DEF SendOne, poolVars
      <3> QED BY <1>0, <2>1, <3>1, <3>2 DEF PoolInv, EnoughPool, InArray
    <2>3. CASE pkt[txTail] # NoPacket
      <3>1. Cardinality(Taken') = Cardinality(Taken) BY <2>1, <2>3, TakenStep
      <3>2. InArray = Len(batch) /\ InArray' = Len(batch) - 1
        BY <2>1 DEF InArray
      <3>3. FreeBuffer BY <1>5, <2>3 DEF SendOne
      <3>4. CASE cache' = cache + 1 /\ common' = common
        BY <1>0, <2>1, <3>1, <3>2, <3>4, Sizes DEF PoolInv, EnoughPool
      <3>5. CASE cache' = CacheSize /\ common' = common + (cache + 1 - CacheSize)
        BY <1>0, <2>1, <3>1, <3>2, <3>5, Sizes DEF PoolInv, EnoughPool
      <3> QED BY <3>3, <3>4, <3>5, FreeBufferFacts
    <2> QED BY <2>2, <2>3
  <1>6. CASE DropOne
    <2>1. Same /\ Len(batch') = Len(batch) - 1 /\ stage = "drop" /\ stage' = "drop"
      BY <1>0, <1>6, <1>a, HeadTailProperties DEF DropOne
    <2>2. InArray = Len(batch) /\ InArray' = Len(batch) - 1
      BY <2>1 DEF InArray
    <2>3. CASE cache' = cache + 1 /\ common' = common
      BY <1>0, <2>1, <2>2, <2>3, Sizes DEF PoolInv, EnoughPool
    <2>4. CASE cache' = CacheSize /\ common' = common + (cache + 1 - CacheSize)
      BY <1>0, <2>1, <2>2, <2>4, Sizes DEF PoolInv, EnoughPool
    <2> QED BY <1>6, <2>3, <2>4, FreeBufferFacts DEF DropOne
  <1>7. CASE CardSends
    <2>1. Same /\ UNCHANGED <<common, cache, batch, stage>>
      BY <1>7, <1>a DEF CardSends, poolVars
    <2> QED BY <2>1 DEF PoolInv, EnoughPool, InArray
  <1>8. CASE Lost \/ UNCHANGED vars
    <2>1. Same /\ UNCHANGED <<common, cache, batch, stage>> BY <1>8, <1>a DEF Lost, vars
    <2> QED BY <2>1 DEF PoolInv, EnoughPool, InArray
  <1> QED BY <1>1, <1>2, <1>3, <1>4, <1>5, <1>6, <1>7, <1>8 DEF Next, ClientStep

(* A descriptor is marked when it comes into use and reported when it is   *)
(* sent; em_xmit_cleanup goes on from one marked descriptor to the next.   *)
LEMMA MarkStep == Inv /\ [Next]_vars => MarkInv'
  <1> SUFFICES ASSUME TypeOK, RingInv, MarkInv, [Next]_vars PROVE MarkInv'
    BY DEF Inv
  <1> DEFINE h == Way(First, tdh)
             e == Way(First, txTail)
  <1>0. /\ First \in Slots /\ tdh \in Slots /\ tdt \in Slots /\ txTail \in Slots
        /\ h \in Nat /\ e \in Nat /\ e < RingSize /\ h <= e
        /\ Way(First, tdt) \in Nat /\ h <= Way(First, tdt) /\ Way(First, tdt) <= e
        /\ nbTxFree = RingSize - 1 - e
    <2>1. First \in Slots /\ tdh \in Slots /\ tdt \in Slots /\ txTail \in Slots
      BY FirstInSlots DEF TypeOK
    <2>2. h \in Nat /\ e \in Nat /\ e < RingSize /\ Way(First, tdt) \in Nat
      BY <2>1, Sizes, WayRange
    <2>3. h <= Way(First, tdt) /\ Way(First, tdt) <= e /\ nbTxFree = RingSize - 1 - e
      BY DEF RingInv
    <2> QED BY <2>1, <2>2, <2>3
  <1>a. \A i \in Slots : Way(First, i) \in Nat /\ Way(First, i) < RingSize
    BY <1>0, Sizes, WayRange
  <1>1. CASE UNCHANGED <<rs, dd, tdh, txTail, nbTxUsed, lastCleaned>>
    BY <1>1 DEF MarkInv, First
  <1>2. CASE Cleanup /\ (nbTxFree < FreeThresh \/ nbTxFree = 0)
               /\ UNCHANGED <<rs, tdh, txTail, nbTxUsed>>
    <2>1. First' \in Slots /\ First' = Onward(First, RsThresh) /\ RsThresh <= h
      BY <1>2, CleanupFacts
    <2>2. Way(First, First') = RsThresh BY <1>0, <2>1, Sizes, OnwardWay
    <2>3. ASSUME NEW i \in Slots
          PROVE  Way(First', i) = IF RsThresh <= Way(First, i)
                   THEN Way(First, i) - RsThresh ELSE Way(First, i) - RsThresh + RingSize
      BY <1>0, <2>1, <2>2, Sizes, WaySplit
    <2>4. Way(First', tdh) = h - RsThresh /\ Way(First', txTail) = e - RsThresh
      BY <1>0, <2>1, <2>3, Sizes
    <2>5. nbTxUsed' = Way(First', txTail') % RsThresh
      <3>1. e - RsThresh \in Nat /\ (e - RsThresh) + RsThresh = e BY <1>0, <2>1, Sizes
      <3>2. e % RsThresh = (e - RsThresh) % RsThresh BY <3>1, Sizes, RemainderStep
      <3> QED BY <1>2, <2>4, <3>2 DEF MarkInv
    <2>6. ASSUME NEW i \in Slots, Way(First', i) < e - RsThresh
          PROVE  /\ RsThresh <= Way(First, i) /\ Way(First, i) < e
                 /\ Way(First', i) = Way(First, i) - RsThresh
      BY <1>0, <1>a, <2>1, <2>3, <2>6, Sizes
    <2>7. ASSUME NEW i \in Slots, Way(First', i) < e - RsThresh
          PROVE  i \in rs <=> (Way(First', i) + 1) % RsThresh = 0
      <3> DEFINE w == Way(First', i) + 1
      <3>1. w \in Nat /\ w + RsThresh = Way(First, i) + 1 BY <1>a, <2>6, <2>7, Sizes
      <3>2. (w + RsThresh) % RsThresh = w % RsThresh BY <3>1, Sizes, RemainderStep
      <3> QED BY <2>6, <2>7, <3>1, <3>2 DEF MarkInv
    <2>8. ASSUME NEW i \in Slots, Way(First', i) < h - RsThresh, i \in rs
          PROVE  i \in dd'
      <3>1. RsThresh <= Way(First, i) /\ Way(First, i) < h
        BY <1>0, <1>a, <2>1, <2>3, <2>8, Sizes
      <3>2. Way(First, Target) = RsThresh - 1
        BY <1>0, Sizes DEF First, Target, Onward, Way, Slots, TypeOK
      <3>3. i # Target BY <1>a, <3>1, <3>2, Sizes
      <3> QED BY <1>2, <2>8, <3>1, <3>3 DEF MarkInv, Cleanup
    <2> QED BY <1>2, <2>4, <2>5, <2>7, <2>8 DEF MarkInv
  <1>3. CASE SendOne
    <2>1. First' = First /\ tdh' = tdh /\ txTail' = Onward(txTail, 1) /\ dd' = dd \ {txTail}
          /\ e + 1 < RingSize /\ Mark
      BY <1>0, <1>3 DEF SendOne, First
    <2>2. Way(First', txTail') = e + 1 BY <1>0, <2>1, Sizes, WayToOnward
    <2>3. /\ nbTxUsed = e % RsThresh /\ nbTxUsed \in 0 .. RsThresh - 1
          /\ (e + 1) % RsThresh = IF nbTxUsed + 1 = RsThresh THEN 0 ELSE nbTxUsed + 1
      BY <1>0, Sizes, RemainderStep DEF MarkInv, TypeOK
    <2>4. /\ nbTxUsed' = (e + 1) % RsThresh
          /\ txTail \in rs' <=> (e + 1) % RsThresh = 0
          /\ \A i \in Slots : i # txTail => (i \in rs' <=> i \in rs)
      BY <2>1, <2>3, Sizes DEF Mark
    <2>5. \A i \in Slots : Way(First, i) < e + 1 => Way(First, i) < e \/ i = txTail
      BY <1>0, <1>a, Sizes, WayInjective
    <2>6. \A i \in Slots : Way(First, i) < e => i # txTail
      BY <1>0
    <2>7. ASSUME NEW i \in Slots, Way(First, i) < e + 1
          PROVE  i \in rs' <=> (Way(First, i) + 1) % RsThresh = 0
      BY <2>4, <2>5, <2>6, <2>7 DEF MarkInv
    <2>8. ASSUME NEW i \in Slots, Way(First, i) < h, i \in rs' PROVE i \in dd'
      <3>1. i # txTail BY <1>0, <1>a, <2>8
      <3> QED BY <2>1, <2>4, <2>8, <3>1 DEF MarkInv
    <2> QED BY <2>1, <2>2, <2>4, <2>7, <2>8 DEF MarkInv
  <1>4. CASE CardSends
    <2>1. /\ First' = First /\ tdh' = Onward(tdh, 1) /\ tdh # tdt
          /\ dd' = IF tdh \in rs THEN dd \union {tdh} ELSE dd
          /\ UNCHANGED <<rs, txTail, nbTxUsed>>
      BY <1>4 DEF CardSends, First, countVars
    <2>2. h < Way(First, tdt) BY <1>0, <2>1, Sizes, WayInjective
    <2>3. Way(First', tdh') = h + 1
      <3>1. h + 1 < RingSize BY <1>0, <2>2
      <3> QED BY <1>0, <2>1, <3>1, Sizes, WayToOnward
    <2>4. \A i \in Slots : Way(First, i) < h + 1 => Way(First, i) < h \/ i = tdh
      BY <1>0, <1>a, Sizes, WayInjective
    <2>5. ASSUME NEW i \in Slots, Way(First, i) < h + 1, i \in rs PROVE i \in dd'
      BY <2>1, <2>4, <2>5 DEF MarkInv
    <2> QED BY <2>1, <2>3, <2>5 DEF MarkInv
  <1>5. CASE UNCHANGED vars BY <1>1, <1>5 DEF vars
  <1> QED
    BY <1>1, <1>2, <1>3, <1>4, <1>5
       DEF Next, ClientStep, Lost, AllocBurst, AllocFails, Build, CleanFirst, NoCleanFirst,
           CleanMore, SendEnds, DropOne, BurstDone, countVars

LEMMA Invariant == Spec => []Inv
  <1>1. Init => Inv BY InitInv
  <1>2. Inv /\ [Next]_vars => Inv' BY TypeStep, RingStep, PoolStep, MarkStep DEF Inv
  <1> QED BY <1>1, <1>2, PTL DEF Spec

-----------------------------------------------------------------------------
(* Every variable has its type: nb_tx_free and the indices stay below the  *)
(* size of the ring, also when descriptors are taken back several at once. *)
THEOREM TypeCorrect == Spec => []TypeOK
  BY Invariant, PTL DEF Inv

(* No buffer is lost between the pool, the ring and the array of the       *)
(* client, however much of a burst the ring had room for.                  *)
THEOREM BuffersAreConserved == Spec => []BuffersConserved
  <1>1. Inv => BuffersConserved
    BY TakenSize, LenProperties, Sizes DEF Inv, PoolInv, InArray, TypeOK, BuffersConserved, Taken
  <1> QED BY <1>1, Invariant, PTL

(* How far it is from the head of the card to the end of the ring.         *)
LEMMA OnTheWay ==
  ASSUME TypeOK, RingInv
  PROVE  /\ Way(tdh, txTail) = Way(First, txTail) - Way(First, tdh)
         /\ Way(tdh, txTail) \in Nat /\ nbTxFree + Way(tdh, txTail) <= RingSize - 1
  <1>1. First \in Slots /\ tdh \in Slots /\ tdt \in Slots /\ txTail \in Slots
    BY FirstInSlots DEF TypeOK
  <1>2. Way(First, tdh) \in Nat /\ Way(First, tdt) \in Nat /\ Way(First, txTail) \in Nat
        /\ Way(First, tdh) <= Way(First, txTail)
    BY <1>1, Sizes, WayRange DEF RingInv
  <1>3. Way(tdh, txTail) = Way(First, txTail) - Way(First, tdh)
    BY <1>1, <1>2, Sizes, WaySplit
  <1> QED BY <1>2, <1>3, Sizes DEF RingInv

(* Once the card has sent RsThresh descriptors that were not taken back,   *)
(* the one that em_xmit_cleanup looks at is marked and reported.           *)
LEMMA ReportIsThere ==
  ASSUME TypeOK, RingInv, MarkInv, RsThresh <= Way(First, tdh)
  PROVE  Target \in dd
  <1>1. First \in Slots /\ tdh \in Slots /\ txTail \in Slots /\ lastCleaned \in Slots
    BY FirstInSlots DEF TypeOK
  <1>2. Target \in Slots BY <1>1, Sizes, OnwardWay DEF Target
  <1>3. Way(First, Target) = RsThresh - 1
    BY <1>1, Sizes DEF First, Target, Onward, Way, Slots
  <1>4. Way(First, tdh) \in Nat /\ Way(First, txTail) \in Nat /\ Way(First, tdh) <= Way(First, txTail)
    <2>1. tdt \in Slots BY DEF TypeOK
    <2>2. Way(First, tdh) \in Nat /\ Way(First, txTail) \in Nat /\ Way(First, tdt) \in Nat
      BY <1>1, <2>1, Sizes, WayRange
    <2> QED BY <2>2 DEF RingInv
  <1>5. (Way(First, Target) + 1) % RsThresh = 0
    <2>1. (1 * RsThresh + 0) % RsThresh = 0 BY Sizes, RemainderUnique
    <2>2. Way(First, Target) + 1 = 1 * RsThresh + 0 BY <1>3, Sizes
    <2> QED BY <2>1, <2>2
  <1>6. Way(First, Target) < Way(First, tdh) /\ Way(First, Target) < Way(First, txTail)
    BY <1>3, <1>4, Sizes
  <1> QED BY <1>2, <1>5, <1>6 DEF MarkInv

(* No descriptor the card may still read is counted as free, and what the  *)
(* card has sent does not stay uncounted: whenever RsThresh descriptors or *)
(* more are missing from nb_tx_free the next em_xmit_cleanup takes them    *)
(* back.  This is why a full ring gets room again.                         *)
THEOREM FreeCountIsHonest == Spec => []FreeCountHonest
  <1>1. Inv => FreeCountHonest
    <2> SUFFICES ASSUME Inv PROVE FreeCountHonest OBVIOUS
    <2>1. TypeOK /\ RingInv /\ MarkInv BY DEF Inv
    <2>2. /\ Way(tdh, txTail) = Way(First, txTail) - Way(First, tdh)
          /\ nbTxFree + Way(tdh, txTail) <= RingSize - 1
      BY <2>1, OnTheWay
    <2>3. Way(First, txTail) \in Nat /\ Way(First, tdh) \in Nat /\ nbTxFree = RingSize - 1 - Way(First, txTail)
      BY <2>1, FirstInSlots, Sizes, WayRange DEF TypeOK, RingInv
    <2>4. nbTxFree + Way(tdh, txTail) + RsThresh <= RingSize - 1 => RsThresh <= Way(First, tdh)
      BY <2>2, <2>3, Sizes
    <2> QED BY <2>1, <2>2, <2>4, ReportIsThere DEF FreeCountHonest
  <1> QED BY <1>1, Invariant, PTL

(* A pool of that size is always enough: the 8191 buffers of the client    *)
(* suffice for two rings of 1024 and bursts of 32.                         *)
THEOREM PoolSuffices == Spec => []ArrayNeverStale
  BY Invariant, PTL DEF Inv, PoolInv, EnoughPool, ArrayNeverStale

(* With the figures of the client (basicfwd.c:13-18: rings of 1024,        *)
(* NUM_MBUFS 8191 buffers, bursts of 32) its allocation never fails.       *)
THEOREM ClientNeverStale ==
  ASSUME RingSize = 1024, RxRingSize = 1024, BurstSize = 32, PoolSizes = {8191}
  PROVE  Spec => [](stage # "stale")
  <1>1. Inv => stage # "stale" BY DEF Inv, TypeOK, PoolInv, EnoughPool
  <1> QED BY <1>1, Invariant, PTL

-----------------------------------------------------------------------------
(* EmTransmit implements PacketQueue.                                      *)

(* Packets lie on the whole way from tdh to tx_id.                         *)
LEMMA RingHolds == ASSUME Inv PROVE Holds(pkt, tdh, txTail, Pixels)
  <1> SUFFICES ASSUME NEW i \in Slots, Way(tdh, i) < Way(tdh, txTail)
               PROVE  pkt[i] \in Pixels
    BY DEF Holds
  <1>1. First \in Slots /\ tdh \in Slots /\ txTail \in Slots /\ TypeOK /\ RingInv
    BY FirstInSlots DEF Inv, TypeOK
  <1>2. /\ Way(First, tdh) \in Nat /\ Way(First, i) \in Nat /\ Way(First, txTail) \in Nat
        /\ Way(First, txTail) < RingSize
    BY <1>1, Sizes, WayRange
  <1>3. Way(tdh, txTail) = Way(First, txTail) - Way(First, tdh) BY <1>1, OnTheWay
  <1>4. Way(tdh, i) = IF Way(First, tdh) <= Way(First, i) THEN Way(First, i) - Way(First, tdh)
                        ELSE Way(First, i) - Way(First, tdh) + RingSize
    BY <1>1, Sizes, WaySplit
  <1>5. Way(First, tdh) <= Way(First, i) /\ Way(First, i) < Way(First, txTail)
    BY <1>2, <1>3, <1>4, Sizes
  <1>6. pkt[i] # NoPacket BY <1>1, <1>5 DEF RingInv
  <1> QED BY <1>1, <1>6 DEF TypeOK

(* What eth_em_xmit_pkts accepts comes last.                               *)
LEMMA SendPuts ==
  ASSUME Inv, SendOne
  PROVE  \E p \in Pixels : Stream!Put(p)
  <1> DEFINE p == Head(batch)
  <1>1. /\ TypeOK /\ RingInv /\ tdh \in Slots /\ txTail \in Slots
        /\ p \in Pixels /\ nbTxFree \in Nat /\ nbTxFree > 0
    BY HeadTailProperties DEF Inv, TypeOK, SendOne, Slots
  <1>2. /\ tdh' = tdh /\ txTail' = Onward(txTail, 1) /\ pkt' = [pkt EXCEPT ![txTail] = p]
    BY DEF SendOne
  <1>3. Way(tdh, txTail) \in Nat /\ Way(tdh, txTail) + 1 < RingSize
    BY <1>1, Sizes, OnTheWay
  <1>4. Holds(pkt, tdh, txTail, Pixels) BY RingHolds
  <1>5. Agree(pkt, pkt', tdh, txTail)
    BY <1>1, <1>2, <1>3 DEF TypeOK, Agree
  <1>6. pkt'[txTail] = p BY <1>1, <1>2 DEF TypeOK
  <1>7. Between(pkt', tdh, Onward(txTail, 1)) = Append(Between(pkt, tdh, txTail), p)
    <2> HIDE DEF p
    <2>1. pkt'[txTail] \in Pixels BY <1>1, <1>6
    <2>2. tdh \in Slots /\ txTail \in Slots /\ RingSize \in Nat \ {0}
      BY <1>1, Sizes
    <2>3. Between(pkt', tdh, Onward(txTail, 1)) = Append(Between(pkt, tdh, txTail), pkt'[txTail])
      BY <1>3, <1>4, <1>5, <2>1, <2>2, BetweenAppend
    <2> QED BY <1>6, <2>3
  <1>8. Len(Between(pkt, tdh, txTail)) = Way(tdh, txTail)
    BY <1>1, <1>4, Sizes, BetweenType
  <1>9. Between(pkt, tdh, txTail)' = Between(pkt', tdh, Onward(txTail, 1))
    BY <1>2 DEF Between
  <1> QED BY <1>1, <1>3, <1>7, <1>8, <1>9, Sizes DEF Stream!Put

(* The card sends the oldest.                                              *)
LEMMA CardTakes ==
  ASSUME Inv, CardSends
  PROVE  Stream!Take
  <1>1. /\ TypeOK /\ RingInv /\ tdh \in Slots /\ txTail \in Slots /\ First \in Slots
        /\ tdt \in Slots
    BY FirstInSlots DEF Inv, TypeOK
  <1>2. tdh # tdt /\ tdh' = Onward(tdh, 1) /\ txTail' = txTail /\ pkt' = pkt
    BY DEF CardSends
  <1>3. tdh # txTail
    <2>1. Way(First, tdh) # Way(First, tdt) BY <1>1, <1>2, Sizes, WayInjective
    <2>2. Way(First, tdh) \in Nat /\ Way(First, tdt) \in Nat /\ Way(First, txTail) \in Nat
      BY <1>1, Sizes, WayRange
    <2> QED BY <1>1, <2>1, <2>2 DEF RingInv
  <1>4. Holds(pkt, tdh, txTail, Pixels) BY RingHolds
  <1> DEFINE rest == Between(pkt, Onward(tdh, 1), txTail)
  <1>5. /\ pkt[tdh] \in Pixels /\ rest \in Seq(Pixels)
        /\ Between(pkt, tdh, txTail) = <<pkt[tdh]>> \o rest
    BY <1>1, <1>3, <1>4, Sizes, BetweenTail
  <1>6. Between(pkt, tdh, txTail)' = rest BY <1>2 DEF Between
  <1>7. Between(pkt, tdh, txTail) # <<>> /\ Tail(Between(pkt, tdh, txTail)) = rest
    BY <1>5
  <1> QED BY <1>6, <1>7 DEF Stream!Take

(* Every step of the client and its card is one of a queue of packets: the *)
(* card sends what the ring accepted once and in order.                    *)
THEOREM TransmitImplementsQueue == Spec => ImplementsPacketQueue
  <1>1. Init => Stream!PacketInit
    <2> SUFFICES ASSUME Init PROVE Stream!PacketInit OBVIOUS
    <2>1. Way(0, 0) = 0 BY DEF Way
    <2>2. Between(pkt, tdh, txTail) = <<>> BY <2>1 DEF Init, Between
    <2> QED BY <2>2 DEF Stream!PacketInit
  <1>2. Inv /\ [Next]_vars => [Stream!PacketNext]_(Stream!packetVars)
    <2> SUFFICES ASSUME Inv, [Next]_vars
                 PROVE  Stream!PacketNext \/ Between(pkt, tdh, txTail)' = Between(pkt, tdh, txTail)
      BY DEF Stream!packetVars
    <2>1. CASE UNCHANGED <<pkt, tdh, txTail>>
      BY <2>1 DEF Between
    <2>2. CASE SendOne
      BY <2>2, SendPuts DEF Stream!PacketNext
    <2>3. CASE CardSends
      BY <2>3, CardTakes DEF Stream!PacketNext
    <2> QED
      BY <2>1, <2>2, <2>3
         DEF Next, ClientStep, Lost, vars, AllocBurst, AllocFails, Build, CleanFirst,
             NoCleanFirst, CleanMore, SendEnds, DropOne, BurstDone
  <1> QED BY <1>1, <1>2, Invariant, PTL DEF Spec, ImplementsPacketQueue, Stream!PacketSpec
=============================================================================
