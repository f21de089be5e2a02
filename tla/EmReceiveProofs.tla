-------------------------- MODULE EmReceiveProofs --------------------------
(***************************************************************************)
(* Proofs about EmReceive, for every size of the ring, the pool, the cache *)
(* and the burst.  The invariant places the two registers of the card and  *)
(* the filled descriptors relative to rxTail; that every step keeps it is  *)
(* shown first for the ring and then for the number of buffers.            *)
(***************************************************************************)
EXTENDS EmReceive, DescriptorRingProofs

USE ReceiveAssumption

(* From rxTail on lie the filled descriptors, up to rdh, then those the    *)
(* card may fill, up to rdt; the driver holds the rest.                    *)
RingInv ==
  stage # "closed" =>
    /\ Way(rxTail, rdt) = RingSize - 1 - Held
    /\ Way(rxTail, rdh) <= Way(rxTail, rdt)
    /\ \A i \in Slots : desc[i] # NoPacket <=> Way(rxTail, i) < Way(rxTail, rdh)

(* Where the buffers are, and how long a burst can get.                    *)
PoolInv ==
  /\ common + cache + filled + Len(batch) = poolSize
  /\ CardOn => filled = RingSize
  /\ stage = "fill" => filled < RingSize /\ rdh = rxTail
  /\ stage = "closed" => filled = 0
  /\ stage \notin {"recv", "handle"} => batch = <<>>
  /\ Len(batch) < RingSize
  /\ EnoughBuffers => ~noMbuf

Inv == TypeOK /\ RingInv /\ PoolInv

-----------------------------------------------------------------------------
(* One step along the ring, forward and back.                              *)
LEMMA WayForward ==
  ASSUME NEW i \in Slots, NEW j \in Slots
  PROVE  /\ Onward(j, 1) \in Slots /\ Onward(j, RingSize - 1) \in Slots
         /\ Way(i, j) < RingSize - 1 => Way(i, Onward(j, 1)) = Way(i, j) + 1
         /\ i # j => Way(Onward(i, 1), j) = Way(i, j) - 1
         /\ Way(i, Onward(i, RingSize - 1)) = RingSize - 1
  BY DEF Way, Onward, Slots

-----------------------------------------------------------------------------
LEMMA InitInv == Init => Inv
  <1> SUFFICES ASSUME Init PROVE Inv OBVIOUS
  <1>1. TypeOK
    <2>1. <<>> \in Seq(Packets) /\ Len(<<>>) = 0
      BY EmptySeq
    <2>2. desc \in [Slots -> Packets \union {NoPacket}]
      BY DEF Init
    <2>3. rdt \in Slots /\ rdh \in Slots /\ rxTail \in Slots
      BY DEF Init, Slots
    <2>4. poolSize \in PoolSizes /\ common \in Nat /\ cache \in 0 .. CacheSize
          /\ filled \in 0 .. RingSize /\ nbHold \in 0 .. FreeThresh
      BY DEF Init
    <2>5. batch \in Seq(Packets) /\ Len(batch) <= BurstSize
      BY <2>1 DEF Init
    <2> QED BY <2>2, <2>3, <2>4, <2>5 DEF Init, TypeOK
  <1>2. RingInv
    <2>1. Way(0, RingSize - 1) = RingSize - 1 /\ Way(0, 0) = 0
      BY DEF Way
    <2>2. \A i \in Slots : Way(0, i) \in Nat
      BY WayRange DEF Slots
    <2> QED BY <2>1, <2>2 DEF Init, RingInv, Held
  <1>3. PoolInv
    BY EmptySeq DEF Init, PoolInv, CardOn
  <1> QED BY <1>1, <1>2, <1>3 DEF Inv

LEMMA TypeStep == Inv /\ [Next]_vars => TypeOK'
  <1> SUFFICES ASSUME TypeOK, RingInv, PoolInv, [Next]_vars PROVE TypeOK'
    BY DEF Inv
  <1> USE DEF TypeOK
  <1>1. CASE FillRing
    BY <1>1 DEF FillRing, CachedGet, PoolInv, ringVars
  <1>2. CASE FillFails
    BY <1>2 DEF FillFails, poolVars, ringVars
  <1>3. CASE CardReceives
    BY <1>3, WayForward DEF CardReceives, poolVars
  <1>4. CASE Signal
    BY <1>4 DEF Signal, poolVars, ringVars
  <1>5. CASE Poll
    BY <1>5 DEF Poll, poolVars, ringVars
  <1>6. CASE RecvOne
    <2>1. Append(batch, desc[rxTail]) \in Seq(Packets)
          /\ Len(Append(batch, desc[rxTail])) = Len(batch) + 1 /\ Len(batch) \in Nat
      <3>1. desc[rxTail] \in Packets BY <1>6 DEF RecvOne
      <3> QED BY <3>1, AppendProperties, LenProperties
    <2>2. rxTail' \in Slots BY <1>6, WayForward DEF RecvOne
    <2>3. desc' \in [Slots -> Packets \union {NoPacket}] BY <1>6 DEF RecvOne
    <2> QED BY <1>6, <2>1, <2>2, <2>3 DEF RecvOne
  <1>7. CASE RecvEnds
    <2>1. Len(batch) \in Nat BY LenProperties
    <2>0. Held = nbHold + Len(batch) BY <1>7 DEF RecvEnds, Held
    <2>2. rdt' \in Slots /\ nbHold' \in 0 .. FreeThresh
      <3>1. CASE nbHold + Len(batch) > FreeThresh
        BY <1>7, <2>0, <3>1, WayForward DEF RecvEnds, GiveBack
      <3>2. CASE ~(nbHold + Len(batch) > FreeThresh)
        BY <1>7, <2>0, <2>1, <3>2 DEF RecvEnds, GiveBack
      <3> QED BY <3>1, <3>2
    <2> QED BY <1>7, <2>2 DEF RecvEnds, poolVars
  <1>8. CASE Handle
    <2>1. Tail(batch) \in Seq(Packets) /\ Len(Tail(batch)) = Len(batch) - 1
      BY <1>8, HeadTailProperties DEF Handle
    <2>2. Len(batch) \in Nat BY LenProperties
    <2> QED BY <1>8, <2>1, <2>2 DEF Handle, ringVars
  <1>9. CASE BurstDone
    BY <1>9 DEF BurstDone, poolVars, ringVars
  <1>10. CASE PortStop
    BY <1>10 DEF PortStop, Slots
  <1>11. CASE UNCHANGED vars
    BY <1>11 DEF vars
  <1> QED BY <1>1, <1>2, <1>3, <1>4, <1>5, <1>6, <1>7, <1>8, <1>9, <1>10, <1>11
          DEF Next, ThreadStep
-----------------------------------------------------------------------------
LEMMA RingStep == Inv /\ [Next]_vars => RingInv'
  <1> SUFFICES ASSUME TypeOK, RingInv, PoolInv, [Next]_vars PROVE RingInv'
    BY DEF Inv
  <1>0. Len(batch) \in Nat /\ Held \in Nat
    BY LenProperties DEF TypeOK, Held
  <1>1. CASE FillRing
    BY <1>1 DEF FillRing, RingInv, Held, ringVars, Way
  <1>2. CASE FillFails
    BY <1>2 DEF FillFails, RingInv, Held, ringVars, Way
  <1>3. CASE CardReceives
    <2> DEFINE w == Way(rxTail, rdh)
    <2>1. /\ CardOn /\ rdh # rdt /\ stage # "closed"
          /\ UNCHANGED <<rdt, rxTail, nbHold, batch, stage>>
      BY <1>3 DEF CardReceives, CardOn
    <2>2. PICK p \in Packets : desc' = [desc EXCEPT ![rdh] = p]
      BY <1>3 DEF CardReceives
    <2>3. w < Way(rxTail, rdt) /\ w \in Nat /\ Way(rxTail, rdt) \in Nat
          /\ Way(rxTail, rdt) < RingSize
      <3>1. w # Way(rxTail, rdt) BY <2>1, WayInjective DEF TypeOK
      <3> QED BY <2>1, <3>1, WayRange DEF TypeOK, RingInv
    <2>4. Way(rxTail, rdh') = w + 1
      BY <1>3, <2>3, WayForward DEF CardReceives, TypeOK
    <2>5. Way(rxTail', rdt') = RingSize - 1 - Held' /\ Way(rxTail', rdh') <= Way(rxTail', rdt')
      BY <2>1, <2>3, <2>4 DEF RingInv, Held
    <2>6. ASSUME NEW i \in Slots
          PROVE  desc'[i] # NoPacket <=> Way(rxTail, i) < w + 1
      <3>1. Way(rxTail, i) \in Nat BY WayRange DEF TypeOK
      <3>2. CASE i = rdh BY <2>2, <2>3, <3>2 DEF TypeOK
      <3>3. CASE i # rdh
        <4>1. Way(rxTail, i) # w BY <3>3, WayInjective DEF TypeOK
        <4> QED BY <2>1, <2>2, <2>3, <3>1, <3>3, <4>1 DEF TypeOK, RingInv
      <3> QED BY <3>2, <3>3
    <2> QED BY <2>1, <2>4, <2>5, <2>6 DEF RingInv
  <1>4. CASE Signal
    BY <1>4 DEF Signal, RingInv, Held, ringVars
  <1>5. CASE Poll
    <2>1. batch = <<>> /\ Len(batch) = 0 BY <1>5, EmptySeq DEF Poll, PoolInv
    <2> QED BY <1>5, <2>1 DEF Poll, RingInv, Held, ringVars, TypeOK
  <1>6. CASE RecvOne
    <2> DEFINE w == Way(rxTail, rdh)
    <2>1. /\ stage = "recv" /\ desc[rxTail] # NoPacket
          /\ desc' = [desc EXCEPT ![rxTail] = NoPacket] /\ rxTail' = Onward(rxTail, 1)
          /\ UNCHANGED <<rdh, rdt, nbHold, stage>>
      BY <1>6 DEF RecvOne
    <2>2. Held' = Held + 1
      <3>1. Len(batch') = Len(batch) + 1
        <4>1. desc[rxTail] \in Packets BY <2>1 DEF TypeOK
        <4> QED BY <1>6, <4>1, AppendProperties DEF RecvOne, TypeOK
      <3> QED BY <1>0, <2>1, <3>1 DEF Held, TypeOK
    <2>3. Way(rxTail, rxTail) = 0 /\ w \in Nat /\ w > 0 /\ Way(rxTail, rdt) \in Nat
      BY <2>1, WayRange DEF TypeOK, RingInv
    <2>4. rdh # rxTail /\ rdt # rxTail
      BY <2>1, <2>3 DEF RingInv, TypeOK
    <2>5. Way(rxTail', rdh) = w - 1 /\ Way(rxTail', rdt) = Way(rxTail, rdt) - 1
      BY <2>1, <2>4, WayForward DEF TypeOK
    <2>6. Way(rxTail', rdt') = RingSize - 1 - Held' /\ Way(rxTail', rdh') <= Way(rxTail', rdt')
      BY <1>0, <2>1, <2>2, <2>3, <2>5 DEF RingInv
    <2>7. ASSUME NEW i \in Slots
          PROVE  desc'[i] # NoPacket <=> Way(rxTail', i) < w - 1
      <3>1. Way(rxTail, i) \in Nat BY WayRange DEF TypeOK
      <3>2. CASE i = rxTail
        <4>1. Way(rxTail', i) = RingSize - 1
          BY <2>1, <3>2 DEF Way, Onward, TypeOK, Slots
        <4>2. w < RingSize BY WayRange DEF TypeOK
        <4> QED BY <2>1, <2>3, <3>2, <4>1, <4>2 DEF TypeOK
      <3>3. CASE i # rxTail
        <4>1. Way(rxTail', i) = Way(rxTail, i) - 1
          BY <2>1, <3>3, WayForward DEF TypeOK
        <4> QED BY <2>1, <2>3, <3>1, <3>3, <4>1 DEF TypeOK, RingInv
      <3> QED BY <3>2, <3>3
    <2> QED BY <2>1, <2>5, <2>6, <2>7 DEF RingInv
  <1>7. CASE RecvEnds
    <2>1. /\ stage = "recv" /\ stage' = "handle"
          /\ UNCHANGED <<desc, rdh, rxTail, batch>>
      BY <1>7 DEF RecvEnds
    <2>2. Held = nbHold + Len(batch) BY <2>1 DEF Held
    <2>3. CASE Held > FreeThresh
      <3>1. rdt' = Onward(rxTail, RingSize - 1) /\ Held' = 0
        BY <1>7, <2>1, <2>2, <2>3 DEF RecvEnds, GiveBack, Held
      <3>2. Way(rxTail, rdt') = RingSize - 1 BY <3>1, WayForward DEF TypeOK
      <3>3. Way(rxTail, rdh) <= RingSize - 1 BY WayRange DEF TypeOK
      <3> QED BY <2>1, <3>1, <3>2, <3>3 DEF RingInv, TypeOK
    <2>4. CASE ~(Held > FreeThresh)
      <3>1. rdt' = rdt /\ Held' = Held
        BY <1>0, <1>7, <2>1, <2>2, <2>4 DEF RecvEnds, GiveBack, Held, TypeOK
      <3> QED BY <2>1, <3>1 DEF RingInv
    <2> QED BY <2>3, <2>4
  <1>8. CASE Handle
    BY <1>8 DEF Handle, RingInv, Held, ringVars
  <1>9. CASE BurstDone
    BY <1>9 DEF BurstDone, RingInv, Held, ringVars
  <1>10. CASE PortStop
    BY <1>10 DEF PortStop, RingInv
  <1>11. CASE UNCHANGED vars
    BY <1>11 DEF vars, RingInv, Held
  <1> QED BY <1>1, <1>2, <1>3, <1>4, <1>5, <1>6, <1>7, <1>8, <1>9, <1>10, <1>11
          DEF Next, ThreadStep

LEMMA PoolStep == Inv /\ [Next]_vars => PoolInv'
  <1> SUFFICES ASSUME TypeOK, RingInv, PoolInv, [Next]_vars PROVE PoolInv'
    BY DEF Inv
  <1>0. Len(batch) \in Nat /\ poolSize \in Nat
    BY LenProperties DEF TypeOK
  <1> USE DEF CardOn, EnoughBuffers
  <1>1. CASE FillRing
    BY <1>0, <1>1 DEF FillRing, CachedGet, PoolInv, ringVars, TypeOK
  <1>2. CASE FillFails
    <2>1. batch = <<>> /\ Len(batch) = 0 BY <1>2, EmptySeq DEF FillFails, PoolInv
    <2> QED BY <1>0, <1>2, <2>1 DEF FillFails, PoolInv, poolVars, ringVars, TypeOK
  <1>3. CASE CardReceives
    BY <1>3 DEF CardReceives, PoolInv, poolVars
  <1>4. CASE Signal
    BY <1>4 DEF Signal, PoolInv, poolVars, ringVars
  <1>5. CASE Poll
    BY <1>5 DEF Poll, PoolInv, poolVars, ringVars
  <1>6. CASE RecvOne
    <2>1. Len(batch') = Len(batch) + 1
      <3>1. desc[rxTail] \in Packets BY <1>6 DEF RecvOne, TypeOK
      <3> QED BY <1>6, <3>1, AppendProperties DEF RecvOne, TypeOK
    <2>2. Len(batch) + 1 < RingSize
      <3>1. Way(rxTail, rdh) > 0 /\ Way(rxTail, rdt) = RingSize - 1 - (nbHold + Len(batch))
            /\ Way(rxTail, rdh) <= Way(rxTail, rdt)
        BY <1>6, WayRange DEF RecvOne, RingInv, TypeOK, Held
      <3> QED BY <1>0, <3>1, WayRange DEF TypeOK
    <2> QED BY <1>0, <1>6, <2>1, <2>2 DEF RecvOne, PoolInv, TypeOK
  <1>7. CASE RecvEnds
    <2>1. ASSUME EnoughBuffers PROVE ~noMbuf'
      <3>1. SUFFICES ASSUME desc[rxTail] # NoPacket, Len(batch) < BurstSize PROVE FALSE
        BY <1>7, <2>1, <3>1 DEF RecvEnds, PoolInv
      <3>2. Way(rxTail, rdh) > 0 /\ Way(rxTail, rdt) = RingSize - 1 - (nbHold + Len(batch))
            /\ Way(rxTail, rdh) <= Way(rxTail, rdt)
        BY <1>7, <3>1, WayRange DEF RecvEnds, RingInv, TypeOK, Held
      <3>3. Len(batch) + 1 < RingSize
        BY <1>0, <3>2, WayRange DEF TypeOK
      <3>4. common = 0 BY <1>7, <3>1, <1>0 DEF RecvEnds, TypeOK
      <3> QED BY <1>0, <1>7, <2>1, <3>3, <3>4 DEF RecvEnds, PoolInv, TypeOK
    <2> QED BY <1>7, <2>1 DEF RecvEnds, PoolInv, poolVars
  <1>8. CASE Handle
    <2>1. Len(batch') = Len(batch) - 1
      BY <1>8, HeadTailProperties DEF Handle, TypeOK
    <2> QED BY <1>0, <1>8, <2>1 DEF Handle, PoolInv, ringVars, TypeOK
  <1>9. CASE BurstDone
    BY <1>9 DEF BurstDone, PoolInv, poolVars, ringVars
  <1>10. CASE PortStop
    <2>1. batch' = batch /\ noMbuf' = noMbuf /\ poolSize' = poolSize /\ cache' = cache
          /\ common' = common + filled /\ filled' = 0 /\ stage = "stop" /\ stage' = "closed"
      BY <1>10 DEF PortStop
    <2> QED BY <1>0, <2>1 DEF PoolInv, TypeOK
  <1>11. CASE UNCHANGED vars
    BY <1>11 DEF vars, PoolInv
  <1> QED BY <1>1, <1>2, <1>3, <1>4, <1>5, <1>6, <1>7, <1>8, <1>9, <1>10, <1>11
          DEF Next, ThreadStep

LEMMA Invariant == Spec => []Inv
  <1>1. Init => Inv BY InitInv
  <1>2. Inv /\ [Next]_vars => Inv' BY TypeStep, RingStep, PoolStep DEF Inv
  <1> QED BY <1>1, <1>2, PTL DEF Spec
-----------------------------------------------------------------------------
(* Every variable has its type: no index leaves the ring, and a burst fits *)
(* into the array mbufs of dpdk_thread.                                    *)
THEOREM TypeCorrect == Spec => []TypeOK
  BY Invariant, PTL DEF Inv

(* No buffer is lost, and after rte_eth_dev_close all are in the pool.     *)
THEOREM BuffersAreConserved == Spec => []BuffersConserved
  <1>1. Inv => BuffersConserved
    <2> SUFFICES ASSUME TypeOK, PoolInv PROVE BuffersConserved BY DEF Inv
    <2>1. batch = <<>> => Len(batch) = 0 BY EmptySeq
    <2> QED BY <2>1 DEF PoolInv, BuffersConserved, TypeOK
  <1> QED BY <1>1, Invariant, PTL

(* The card overwrites neither a packet the server has not taken nor a     *)
(* descriptor the driver has taken and not given back: its head lies       *)
(* before its tail, and the tail before what the driver holds.             *)
THEOREM CardStaysOff == Spec => []CardKeepsOff
  <1>1. Inv => CardKeepsOff
    <2> SUFFICES ASSUME TypeOK, RingInv, CardOn, rdh # rdt
                 PROVE  desc[rdh] = NoPacket /\ rdh \notin HeldSlots
      BY DEF Inv, CardKeepsOff
    <2>1. /\ rdh \in Slots /\ rdt \in Slots /\ rxTail \in Slots
          /\ stage # "closed" /\ Held \in Nat
      BY LenProperties DEF TypeOK, CardOn, Held
    <2>2. desc[rdh] = NoPacket
      BY <2>1, WayRange DEF RingInv
    <2>3. ASSUME rdh # rxTail
          PROVE  Way(rdh, rxTail) > Held
      <3>1. /\ Way(rxTail, rdh) < Way(rxTail, rdt)
            /\ Way(rxTail, rdt) = RingSize - 1 - Held
        <4>1. Way(rxTail, rdh) # Way(rxTail, rdt) BY <2>1, WayInjective
        <4> QED BY <2>1, <4>1, WayRange DEF RingInv
      <3>2. Way(rdh, rxTail) = RingSize - Way(rxTail, rdh)
        BY <2>1, <2>3 DEF Way, Slots
      <3>3. Way(rxTail, rdh) \in Nat /\ Way(rxTail, rdt) \in Nat
        BY <2>1, WayRange
      <3> QED BY <2>1, <3>1, <3>2, <3>3
    <2>4. Way(rdh, rxTail) \in Nat
      BY <2>1, WayRange
    <2> QED BY <2>1, <2>2, <2>3, <2>4 DEF HeldSlots
  <1> QED BY <1>1, Invariant, PTL

(* A pool of 2 * RingSize - 1 buffers and the cache is always enough: the  *)
(* 4096 of net_listen suffice for its ring of 512 and its cache of 128.    *)
THEOREM PoolSuffices == Spec => []NeverOutOfBuffers
  BY Invariant, PTL DEF Inv, PoolInv, NeverOutOfBuffers

(* The figures of net_listen, a ring of 512 (network.c:115), a pool of     *)
(* 4096 and a cache of 128 (network.c:254): rte_mbuf_raw_alloc never fails *)
(* in the server, neither while the ring is filled nor in a burst.         *)
THEOREM ServerNeverOutOfBuffers ==
  ASSUME RingSize = 512, CacheSize = 128, PoolSizes = {4096}
  PROVE  Spec => [](~noMbuf)
  <1>1. Inv => ~noMbuf BY DEF Inv, TypeOK, PoolInv, EnoughBuffers
  <1> QED BY <1>1, Invariant, PTL

(* The card and the driver never wait for each other: a card that has used *)
(* up its descriptors, while dpdk_thread is between two bursts, has left   *)
(* it a packet where it polls next.  This needs a threshold below the size *)
(* of the ring less one.  The driver takes any (em_rxtx.c:1462); that of   *)
(* the server is 0.                                                        *)
THEOREM NeverBothWaiting ==
  Spec => [](stage = "poll" /\ rdh = rdt => desc[rxTail] # NoPacket)
  <1>1. Inv => (stage = "poll" /\ rdh = rdt => desc[rxTail] # NoPacket)
    <2> SUFFICES ASSUME TypeOK, RingInv, stage = "poll", rdh = rdt
                 PROVE  desc[rxTail] # NoPacket
      BY DEF Inv
    <2>1. Way(rxTail, rdh) = RingSize - 1 - nbHold /\ nbHold \in 0 .. FreeThresh
      BY DEF RingInv, Held, TypeOK
    <2>2. Way(rxTail, rxTail) = 0 BY WayRange DEF TypeOK
    <2>3. Way(rxTail, rxTail) < Way(rxTail, rdh) BY <2>1, <2>2
    <2> QED BY <2>3 DEF RingInv, TypeOK
  <1> QED BY <1>1, Invariant, PTL

-----------------------------------------------------------------------------
(* EmReceive implements PacketQueue.                                       *)

(* Packets lie on the whole way from rxTail to rdh.                        *)
LEMMA RingHolds ==
  Inv /\ stage # "closed" => Holds(desc, rxTail, rdh, Packets)
  BY DEF Inv, TypeOK, RingInv, Holds

LEMMA OnRingType ==
  Inv /\ stage # "closed" => OnRing \in Seq(Packets) /\ Len(OnRing) = Way(rxTail, rdh)
  BY RingHolds, BetweenType DEF OnRing, Inv, TypeOK

(* What the card receives comes last.                                      *)
LEMMA ReceivePuts ==
  ASSUME Inv, Inv', CardReceives
  PROVE  \E p \in Packets : Stream!Put(p)
  <1> DEFINE w == Way(rxTail, rdh)
  <1>1. PICK p \in Packets : desc' = [desc EXCEPT ![rdh] = p]
    BY DEF CardReceives
  <1>2. /\ CardOn /\ stage # "closed" /\ stage' # "closed" /\ rdh # rdt
        /\ UNCHANGED <<rxTail, batch, stage>> /\ rdh' = Onward(rdh, 1)
    BY DEF CardReceives, CardOn
  <1>3. w < Way(rxTail, rdt) /\ w \in Nat /\ Way(rxTail, rdt) \in Nat
        /\ Way(rxTail, rdt) < RingSize
    <2>1. w # Way(rxTail, rdt) BY <1>2, WayInjective DEF Inv, TypeOK
    <2>2. w <= Way(rxTail, rdt) BY <1>2 DEF Inv, RingInv
    <2>3. rxTail \in Slots /\ rdh \in Slots /\ rdt \in Slots BY DEF Inv, TypeOK
    <2> QED BY <2>1, <2>2, <2>3, WayRange
  <1>4. rxTail \in Slots /\ rdh \in Slots /\ w + 1 < RingSize /\ RingSize \in Nat \ {0}
    BY <1>3 DEF Inv, TypeOK
  <1>5. OnRing \in Seq(Packets) /\ Len(OnRing) = w BY <1>2, OnRingType
  <1>6. OnRing' = Append(OnRing, p)
    <2>1. Holds(desc, rxTail, rdh, Packets) BY <1>2, RingHolds
    <2>2. Agree(desc, desc', rxTail, rdh)
      BY <1>1, <1>3 DEF Inv, TypeOK, Agree
    <2>3. desc'[rdh] = p BY <1>1 DEF Inv, TypeOK
    <2>4. desc'[rdh] \in Packets BY <2>3
    <2>5. Between(desc', rxTail, Onward(rdh, 1)) = Append(Between(desc, rxTail, rdh), desc'[rdh])
      BY <1>4, <2>1, <2>2, <2>4, BetweenAppend
    <2> QED BY <1>2, <2>3, <2>5 DEF OnRing, Between
  <1>7. Pending' = Append(Pending, p)
    <2>1. Pending' = batch \o Append(OnRing, p) BY <1>2, <1>6 DEF Pending
    <2>2. Append(OnRing, p) = OnRing \o <<p>> BY <1>5, AppendIsConcat
    <2>3. batch \in Seq(Packets) /\ batch \o OnRing \in Seq(Packets) /\ <<p>> \in Seq(Packets)
      BY <1>5, ConcatProperties DEF Inv, TypeOK
    <2>4. batch \o (OnRing \o <<p>>) = (batch \o OnRing) \o <<p>>
      BY <1>5, <2>3, ConcatAssociative
    <2> QED BY <1>2, <2>1, <2>2, <2>3, <2>4, AppendIsConcat DEF Pending
  <1>8. Len(Pending) < 2 * (RingSize - 1)
    <2>1. Len(Pending) = Len(batch) + w
      BY <1>2, <1>5, ConcatProperties DEF Pending, Inv, TypeOK
    <2>2. Len(batch) \in Nat /\ Len(batch) < RingSize BY LenProperties DEF Inv, TypeOK, PoolInv
    <2> QED BY <1>3, <2>1, <2>2
  <1> QED BY <1>2, <1>7, <1>8 DEF Stream!Put

(* Taking packets from the ring does not change what is pending.           *)
LEMMA RecvKeeps ==
  ASSUME Inv, Inv', RecvOne
  PROVE  Pending' = Pending
  <1> DEFINE w == Way(rxTail, rdh)
             q == desc[rxTail]
  <1>1. /\ stage = "recv" /\ stage' = "recv" /\ q \in Packets
        /\ desc' = [desc EXCEPT ![rxTail] = NoPacket] /\ rxTail' = Onward(rxTail, 1)
        /\ rdh' = rdh /\ batch' = Append(batch, q)
    BY DEF RecvOne, Inv, TypeOK
  <1>2. w \in Nat /\ w > 0 /\ w < RingSize /\ rdh # rxTail
    <2>1. Way(rxTail, rxTail) = 0 /\ w \in Nat /\ w < RingSize
      BY WayRange DEF Inv, TypeOK
    <2>2. Way(rxTail, rxTail) < w BY <1>1, <2>1, ReceiveAssumption DEF Inv, TypeOK, RingInv
    <2> QED BY <2>1, <2>2
  <1>3. /\ rxTail \in Slots /\ rdh \in Slots /\ rxTail' \in Slots
        /\ Holds(desc, rxTail, rdh, Packets) /\ Way(rxTail', rdh) = w - 1
    BY <1>1, <1>2, RingHolds, WayForward DEF Inv, TypeOK
  <1>4. Between(desc, rxTail', rdh) \in Seq(Packets)
        /\ OnRing = <<q>> \o Between(desc, rxTail', rdh)
    BY <1>1, <1>2, <1>3, BetweenTail DEF OnRing
  <1>5. OnRing' = Between(desc, rxTail', rdh)
    <2>1. Agree(desc, desc', rxTail', rdh)
      <3> SUFFICES ASSUME NEW s \in Slots, Way(rxTail', s) < Way(rxTail', rdh)
                   PROVE  desc'[s] = desc[s]
        BY DEF Agree
      <3>1. s # rxTail BY <1>1, <1>2, <1>3 DEF Way, Onward, Slots
      <3> QED BY <1>1, <3>1 DEF Inv, TypeOK
    <2>2. Between(desc', rxTail', rdh) = Between(desc, rxTail', rdh)
      BY <1>3, <2>1, BetweenSame
    <2> QED BY <1>1, <2>2 DEF OnRing, Between
  <1>6. batch' \o OnRing' = batch \o OnRing
    <2>1. batch' = batch \o <<q>> /\ <<q>> \in Seq(Packets) /\ batch \in Seq(Packets)
      BY <1>1, AppendIsConcat DEF Inv, TypeOK
    <2> DEFINE rest == Between(desc, rxTail', rdh)
    <2>2. rest \in Seq(Packets) /\ OnRing = <<q>> \o rest /\ OnRing' = rest
      BY <1>4, <1>5
    <2> HIDE DEF rest
    <2>3. (batch \o <<q>>) \o rest = batch \o (<<q>> \o rest)
      BY <2>1, <2>2, ConcatAssociative
    <2> QED BY <2>1, <2>2, <2>3
  <1> QED BY <1>1, <1>6 DEF Pending

(* Handling a packet takes the oldest.                                     *)
LEMMA HandleTakes ==
  ASSUME Inv, Handle
  PROVE  Stream!Take
  <1>1. /\ stage = "handle" /\ stage' = "handle" /\ batch # <<>> /\ batch' = Tail(batch)
        /\ OnRing' = OnRing
    BY DEF Handle, ringVars, OnRing, Between
  <1>2. OnRing \in Seq(Packets) /\ batch \in Seq(Packets)
    BY <1>1, OnRingType DEF Inv, TypeOK
  <1>3. Pending # <<>> /\ Tail(Pending) = Tail(batch) \o OnRing
    <2>1. PICK b \in Packets, t \in Seq(Packets) : batch = <<b>> \o t /\ t = Tail(batch)
      <3>1. /\ Head(batch) \in Packets /\ Tail(batch) \in Seq(Packets)
            /\ batch = <<Head(batch)>> \o Tail(batch)
        BY <1>1, <1>2, HeadTailProperties, SubSeqRecursiveFirst, SubSeqFull
      <3> QED BY <3>1
    <2> QED BY <1>1, <1>2, <2>1 DEF Pending
  <1> QED BY <1>1, <1>3 DEF Pending, Stream!Take

(* Every step of the server and its card is one of a queue of packets: the *)
(* server handles every accepted packet once, in the order of arrival.     *)
THEOREM ReceiveImplementsQueue == Spec => ImplementsPacketQueue
  <1>1. Init => Stream!PacketInit
    <2> SUFFICES ASSUME Init PROVE Stream!PacketInit OBVIOUS
    <2>1. Way(0, 0) = 0 BY DEF Way
    <2>2. OnRing = <<>> BY <2>1 DEF Init, OnRing, Between
    <2> QED BY <2>2 DEF Init, Pending, Stream!PacketInit
  <1>2. Inv /\ Inv' /\ [Next]_vars => [Stream!PacketNext]_(Stream!packetVars)
    <2> SUFFICES ASSUME Inv, Inv', [Next]_vars
                 PROVE  Stream!PacketNext \/ (Pending' = Pending /\ (stage # "closed")' = (stage # "closed"))
      BY DEF Stream!packetVars
    <2> DEFINE Same == UNCHANGED <<desc, rdh, rxTail, batch>>
    <2>0. Same /\ stage # "closed" /\ stage' # "closed" => Pending' = Pending
      BY DEF Pending, OnRing, Between
    <2>1. CASE FillRing \/ FillFails \/ Poll \/ RecvEnds \/ BurstDone
      <3>1. Same /\ stage # "closed" /\ stage' # "closed"
        BY <2>1 DEF FillRing, FillFails, Poll, RecvEnds, BurstDone, ringVars
      <3> QED BY <2>0, <3>1
    <2>2. CASE Signal
      <3>1. Same /\ stage # "closed" /\ stage' # "closed" BY <2>2 DEF Signal, ringVars
      <3> QED BY <2>0, <3>1
    <2>3. CASE CardReceives
      BY <2>3, ReceivePuts DEF Stream!PacketNext
    <2>4. CASE RecvOne
      BY <2>4, RecvKeeps DEF RecvOne
    <2>5. CASE Handle
      BY <2>5, HandleTakes DEF Stream!PacketNext
    <2>6. CASE PortStop
      BY <2>6 DEF PortStop, Stream!PacketNext, Stream!Shut, Pending
    <2>7. CASE UNCHANGED vars
      BY <2>7 DEF vars, Pending, OnRing, Between
    <2> QED BY <2>1, <2>2, <2>3, <2>4, <2>5, <2>6, <2>7 DEF Next, ThreadStep
  <1> QED BY <1>1, <1>2, Invariant, PTL DEF Spec, ImplementsPacketQueue, Stream!PacketSpec
=============================================================================
