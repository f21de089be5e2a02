----------------------------- MODULE EmTransmit -----------------------------
(***************************************************************************)
(* The way of a packet out of the DPDK client (pixelflut_v6_client_dpdk):  *)
(* lcore_main, which builds bursts of packets that sweep over the wall,    *)
(* the transmit ring of the e1000 em driver and the network card.          *)
(*                                                                         *)
(* The card sends the descriptors from tdh up to tdt.  It reports only the *)
(* descriptors that carry the RS bit, one in RsThresh, by setting DD; the  *)
(* driver concludes that all before such a descriptor are done.  A buffer  *)
(* is freed only when its descriptor is used again.                        *)
(***************************************************************************)
EXTENDS DescriptorRing, FiniteSets

CONSTANTS
  XFirst, XLast,   \* the columns of the sweep, 100 and 900
  YFirst, YLast,   \* its lines, 100 and 700
  NoPacket,        \* a descriptor without a buffer
  FreeThresh,      \* tx_free_thresh, 32
  RsThresh,        \* tx_rs_thresh, 32
  BurstSize,       \* BURST_SIZE, 32
  CacheSize,       \* cache_size of the pool, 250
  RxRingSize,      \* the buffers of the receive ring, 1024; nobody polls it
  PoolSizes        \* the sizes of the pool that are considered; 8191 in the code

Pixels == (XFirst .. XLast) \X (YFirst .. YLast)

\* The ring has 1024 descriptors.  eth_em_tx_queue_setup demands that
\* RsThresh is at most FreeThresh; the sum of its defaults, 32 or a quarter
\* of the ring each, is below RingSize.
ASSUME TransmitAssumption ==
  /\ XFirst \in Nat /\ XLast \in Nat /\ XFirst <= XLast
  /\ YFirst \in Nat /\ YLast \in Nat /\ YFirst <= YLast
  /\ NoPacket \notin Pixels
  /\ RingSize \in Nat /\ FreeThresh \in Nat /\ RsThresh \in Nat \ {0}
  /\ RsThresh <= FreeThresh /\ FreeThresh + RsThresh <= RingSize
  /\ BurstSize \in Nat \ {0} /\ CacheSize \in Nat /\ BurstSize < CacheSize
  /\ RxRingSize \in Nat
  /\ PoolSizes \subseteq Nat /\ \A s \in PoolSizes : RxRingSize + CacheSize <= s

VARIABLES
  poolSize,      \* the size the pool was created with
  common,        \* free buffers in the common pool
  cache,         \* free buffers in the cache of the client's thread
  pkt,           \* the packet whose buffer sw_ring holds for a descriptor
  rs, dd,        \* the descriptors with the RS and with the DD bit set
  tdh, tdt,      \* the head and tail register of the card
  txTail,        \* tx_id, the descriptor that is used next
  nbTxFree,      \* txq->nb_tx_free
  nbTxUsed,      \* txq->nb_tx_used
  lastCleaned,   \* txq->last_desc_cleaned
  pixel,         \* the next pixel of the sweep, x and y
  batch,         \* the packets in m_head, from the first unsent one
  stage          \* where the client is

poolVars == <<common, cache>>
countVars == <<nbTxFree, nbTxUsed, lastCleaned>>
vars == <<poolSize, common, cache, pkt, rs, dd, tdh, tdt, txTail, nbTxFree,
          nbTxUsed, lastCleaned, pixel, batch, stage>>

\* port_init has filled the receive ring through the cache.  All descriptors
\* look done, and one is never used, so that head and tail never meet on a
\* full ring.
Init ==
  /\ poolSize \in PoolSizes
  /\ cache \in 0 .. CacheSize
  /\ common = poolSize - RxRingSize - cache
  /\ pkt = [i \in Slots |-> NoPacket]
  /\ rs = {} /\ dd = Slots
  /\ tdh = 0 /\ tdt = 0 /\ txTail = 0
  /\ nbTxFree = RingSize - 1 /\ nbTxUsed = 0 /\ lastCleaned = RingSize - 1
  /\ pixel = <<XFirst, YFirst>>
  /\ batch = <<>>
  /\ stage = "alloc"

-----------------------------------------------------------------------------
(* The pool: the client runs on an lcore of the EAL and uses its cache.    *)

\* Broken variants of definitions have names that begin with Bad.  No
\* specification uses them; they show that the properties can fail.
BadFreeBuffer ==
  /\ cache' = IF cache + 1 < (3 * CacheSize) \div 2 THEN cache + 1 ELSE CacheSize
  /\ UNCHANGED common

\* rte_mempool_put of one buffer: what exceeds CacheSize leaves the cache
\* when it holds half as much again.
FreeBuffer ==
  IF cache + 1 < (3 * CacheSize) \div 2
  THEN cache' = cache + 1 /\ UNCHANGED common
  ELSE cache' = CacheSize /\ common' = common + (cache + 1 - CacheSize)

\* rte_pktmbuf_alloc_bulk of a burst.
AllocBurst ==
  /\ stage = "alloc"
  /\ \/ cache >= BurstSize /\ cache' = cache - BurstSize /\ UNCHANGED common
     \/ /\ cache < BurstSize /\ common >= BurstSize + (CacheSize - cache)
        /\ cache' = CacheSize
        /\ common' = common - (BurstSize + (CacheSize - cache))
     \/ /\ cache < BurstSize
        /\ BurstSize <= common /\ common < BurstSize + (CacheSize - cache)
        /\ common' = common - BurstSize /\ UNCHANGED cache
  /\ stage' = "build"
  /\ UNCHANGED <<poolSize, pkt, rs, dd, tdh, tdt, txTail, countVars, pixel, batch>>

\* "Allocation problem": the client goes on with the buffers of the burst
\* before, which belong to the card or to the pool by now.  What it does
\* with them is not followed.
AllocFails ==
  /\ stage = "alloc"
  /\ cache < BurstSize /\ common < BurstSize
  /\ stage' = "stale"
  /\ UNCHANGED <<poolSize, poolVars, pkt, rs, dd, tdh, tdt, txTail, countVars, pixel, batch>>

-----------------------------------------------------------------------------
(* lcore_main.                                                             *)

\* The pixel that comes after p in the sweep.
After(p) ==
  IF p[1] < XLast THEN <<p[1] + 1, p[2]>>
  ELSE IF p[2] < YLast THEN <<XFirst, p[2] + 1>> ELSE <<XFirst, YFirst>>

Build ==
  /\ stage = "build"
  /\ batch' = Append(batch, pixel)
  /\ pixel' = After(pixel)
  /\ stage' = IF Len(batch) + 1 = BurstSize THEN "clean" ELSE "build"
  /\ UNCHANGED <<poolSize, poolVars, pkt, rs, dd, tdh, tdt, txTail, countVars>>

BadDropOne ==
  /\ stage = "drop" /\ batch # <<>>
  /\ batch' = Tail(batch)
  /\ UNCHANGED <<poolSize, poolVars, pkt, rs, dd, tdh, tdt, txTail, countVars, pixel, stage>>

\* What was not sent is freed; the sweep does not come back to it.
DropOne ==
  /\ stage = "drop" /\ batch # <<>>
  /\ batch' = Tail(batch)
  /\ FreeBuffer
  /\ UNCHANGED <<poolSize, pkt, rs, dd, tdh, tdt, txTail, countVars, pixel, stage>>

BurstDone ==
  /\ stage = "drop" /\ batch = <<>>
  /\ stage' = "alloc"
  /\ UNCHANGED <<poolSize, poolVars, pkt, rs, dd, tdh, tdt, txTail, countVars, pixel, batch>>

-----------------------------------------------------------------------------
(* eth_em_xmit_pkts.                                                       *)

\* em_xmit_cleanup looks at one descriptor and, when that is done, takes
\* back all up to it.
Target == Onward(lastCleaned, RsThresh)

Cleanup ==
  /\ Target \in dd
  /\ lastCleaned' = Target
  /\ nbTxFree' = nbTxFree + Way(lastCleaned, Target)
  /\ dd' = dd \ {Target}

CleanFirst ==
  /\ stage = "clean" /\ nbTxFree < FreeThresh
  /\ Cleanup
  /\ stage' = "send"
  /\ UNCHANGED <<poolSize, poolVars, pkt, rs, tdh, tdt, txTail, nbTxUsed, pixel, batch>>

NoCleanFirst ==
  /\ stage = "clean" /\ (nbTxFree >= FreeThresh \/ Target \notin dd)
  /\ stage' = "send"
  /\ UNCHANGED <<poolSize, poolVars, pkt, rs, dd, tdh, tdt, txTail, countVars, pixel, batch>>

CleanMore ==
  /\ stage = "send" /\ batch # <<>> /\ nbTxFree = 0
  /\ Cleanup
  /\ UNCHANGED <<poolSize, poolVars, pkt, rs, tdh, tdt, txTail, nbTxUsed, pixel, batch, stage>>

BadMark ==
  IF nbTxUsed > RsThresh THEN rs' = rs \union {txTail} /\ nbTxUsed' = 0
                         ELSE rs' = rs \ {txTail} /\ nbTxUsed' = nbTxUsed + 1

\* Only the last descriptor of RsThresh asks for a report.
Mark ==
  IF nbTxUsed + 1 >= RsThresh THEN rs' = rs \union {txTail} /\ nbTxUsed' = 0
                              ELSE rs' = rs \ {txTail} /\ nbTxUsed' = nbTxUsed + 1

BadSendOne ==
  /\ stage = "send" /\ batch # <<>> /\ nbTxFree > 0
  /\ IF pkt[txTail] = NoPacket THEN UNCHANGED poolVars ELSE FreeBuffer
  /\ pkt' = [pkt EXCEPT ![txTail] = Head(batch)]
  /\ Mark
  /\ txTail' = Onward(txTail, 1)
  /\ nbTxFree' = nbTxFree - 1
  /\ batch' = Tail(batch)
  /\ UNCHANGED <<poolSize, dd, tdh, tdt, lastCleaned, pixel, stage>>

\* A packet goes into the next descriptor, whose old buffer is freed.
SendOne ==
  /\ stage = "send" /\ batch # <<>> /\ nbTxFree > 0
  /\ IF pkt[txTail] = NoPacket THEN UNCHANGED poolVars ELSE FreeBuffer
  /\ pkt' = [pkt EXCEPT ![txTail] = Head(batch)]
  /\ dd' = dd \ {txTail}
  /\ Mark
  /\ txTail' = Onward(txTail, 1)
  /\ nbTxFree' = nbTxFree - 1
  /\ batch' = Tail(batch)
  /\ UNCHANGED <<poolSize, tdh, tdt, lastCleaned, pixel, stage>>

\* The card learns of the whole burst at once.
SendEnds ==
  /\ stage = "send"
  /\ batch = <<>> \/ (nbTxFree = 0 /\ Target \notin dd)
  /\ tdt' = txTail
  /\ stage' = "drop"
  /\ UNCHANGED <<poolSize, poolVars, pkt, rs, dd, tdh, txTail, countVars, pixel, batch>>

-----------------------------------------------------------------------------
(* The network card.                                                       *)

CardSends ==
  /\ tdh # tdt
  /\ dd' = IF tdh \in rs THEN dd \union {tdh} ELSE dd
  /\ tdh' = Onward(tdh, 1)
  /\ UNCHANGED <<poolSize, poolVars, pkt, rs, tdt, txTail, countVars, pixel, batch, stage>>

-----------------------------------------------------------------------------
ClientStep ==
  \/ AllocBurst \/ AllocFails \/ Build \/ CleanFirst \/ NoCleanFirst \/ CleanMore
  \/ SendOne \/ SendEnds \/ DropOne \/ BurstDone

\* The model does not follow the client beyond a failed allocation.
Lost == stage = "stale" /\ UNCHANGED vars

Next == ClientStep \/ CardSends \/ Lost

Spec == Init /\ [][Next]_vars

\* The client never blocks, and the card sends what it is given.
FairSpec == Spec /\ WF_vars(ClientStep) /\ WF_vars(CardSends)

-----------------------------------------------------------------------------
(* Properties.                                                             *)

(* Every variable has its type.                                            *)
TypeOK ==
  /\ poolSize \in PoolSizes
  /\ common \in Nat /\ cache \in Nat
  /\ pkt \in [Slots -> Pixels \union {NoPacket}]
  /\ rs \subseteq Slots /\ dd \subseteq Slots
  /\ tdh \in Slots /\ tdt \in Slots /\ txTail \in Slots
  /\ nbTxFree \in Slots /\ nbTxUsed \in 0 .. RsThresh - 1 /\ lastCleaned \in Slots
  /\ pixel \in Pixels
  /\ batch \in Seq(Pixels) /\ Len(batch) <= BurstSize
  /\ stage \in {"alloc", "build", "clean", "send", "drop", "stale"}

(* Each buffer is in exactly one place: in the pool or the cache, in one   *)
(* of the rings, or in the array m_head.                                   *)
BuffersConserved ==
  LET inArray == IF stage = "build" THEN BurstSize ELSE Len(batch)
      onRing == Cardinality({i \in Slots : pkt[i] # NoPacket})
  IN  common + cache + RxRingSize + onRing + inArray = poolSize

(* nb_tx_free never counts a descriptor the card may still read: neither   *)
(* the descriptor nor the buffer of a packet under way is used again.  And *)
(* it misses few: once the card has sent RsThresh descriptors that are not *)
(* counted, the one that em_xmit_cleanup looks at carries its report.      *)
FreeCountHonest ==
  LET counted == nbTxFree + Way(tdh, txTail)
  IN  /\ counted <= RingSize - 1
      /\ counted + RsThresh <= RingSize - 1 => Target \in dd

(* The pool of the client is large enough for its two rings and its burst: *)
(* the return value of rte_pktmbuf_alloc_bulk, which the client does not   *)
(* act on, is never an error, and no buffer of an old burst is reused.     *)
ArrayNeverStale ==
  poolSize >= RxRingSize + RingSize + 2 * BurstSize - 1 => stage # "stale"

(* A full ring gets room again: the RS bit is set on the very descriptors  *)
(* that em_xmit_cleanup looks at.  A failed allocation ends the sending.    *)
FullRingDrains == nbTxFree = 0 ~> nbTxFree > 0 \/ stage = "stale"

\* The ring as a queue: the packets the card has not sent, in the order in
\* which they were handed over.
Stream == INSTANCE PacketQueue WITH
  Packets <- Pixels, Capacity <- RingSize - 1,
  queue <- Between(pkt, tdh, txTail), open <- TRUE

(* EmTransmit implements PacketQueue: the card sends every packet that     *)
(* eth_em_xmit_pkts accepted once and in order.                            *)
ImplementsPacketQueue == Stream!PacketSpec
=============================================================================
