----------------------------- MODULE EmReceive -----------------------------
(***************************************************************************)
(* The way of a packet into the pixelflut server: the network card, the    *)
(* receive ring of its driver (the e1000 em driver, README.md:9), the pool *)
(* of packet buffers and the polling loop dpdk_thread of network.c.        *)
(*                                                                         *)
(* The card fills the descriptors from the head register rdh up to, but    *)
(* not including, the tail register rdt; the driver takes filled ones at   *)
(* rxTail, puts a new buffer in place of the one it hands out, and gives   *)
(* descriptors back by moving rdt.  Nothing but the order of these steps   *)
(* keeps the card off a packet the server has not read.                    *)
(***************************************************************************)
EXTENDS DescriptorRing

CONSTANTS
  Packets,      \* the contents of a packet
  NoPacket,     \* a descriptor whose DD bit is clear
  FreeThresh,   \* rx_free_thresh, 0 by default
  BurstSize,    \* RX_BURST_SIZE, 2048
  CacheSize,    \* cache_size of the pool, 128
  PoolSizes     \* the sizes of the pool that are considered; 4096 in the code

ASSUME ReceiveAssumption ==
  /\ NoPacket \notin Packets
  /\ RingSize \in Nat /\ RingSize > 1
  /\ FreeThresh \in Nat /\ FreeThresh < RingSize - 1
  /\ BurstSize \in Nat \ {0}
  /\ CacheSize \in Nat /\ CacheSize > 1
  /\ PoolSizes \subseteq Nat

VARIABLES
  poolSize,    \* the size the pool was created with
  common,      \* free buffers in the common pool
  cache,       \* free buffers in the cache of the main thread
  filled,      \* entries of sw_ring that hold a buffer: the first ones
  desc,        \* what each descriptor holds: its packet when DD is set
  rdh, rdt,    \* the head and tail register of the card
  rxTail,      \* rxq->rx_tail
  nbHold,      \* rxq->nb_rx_hold
  batch,       \* mbufs: the packets handed out and not yet freed
  stage,       \* where the threads of the server are
  forceQuit,   \* force_quit
  noMbuf       \* an allocation has failed

poolVars == <<common, cache, filled>>
ringVars == <<desc, rdh, rdt, rxTail, nbHold>>
vars == <<poolSize, common, cache, filled, desc, rdh, rdt, rxTail, nbHold,
          batch, stage, forceQuit, noMbuf>>

\* The ring has 512 descriptors; one is kept from the card.
Init ==
  /\ poolSize \in PoolSizes
  /\ common = poolSize /\ cache = 0 /\ filled = 0
  /\ desc = [i \in Slots |-> NoPacket]
  /\ rdh = 0 /\ rdt = RingSize - 1
  /\ rxTail = 0 /\ nbHold = 0
  /\ batch = <<>>
  /\ stage = "fill"
  /\ forceQuit = FALSE /\ noMbuf = FALSE

-----------------------------------------------------------------------------
(* net_listen and init_port, called by the main thread: it is an lcore of  *)
(* the EAL and takes buffers through its cache.                            *)

\* rte_mempool_get of one buffer: from the cache, which is filled up from
\* the common pool when it is empty, or else from the common pool itself.
CachedGet ==
  \/ cache > 0 /\ cache' = cache - 1 /\ UNCHANGED common
  \/ /\ cache = 0 /\ common >= 1 + CacheSize
     /\ cache' = CacheSize /\ common' = common - (1 + CacheSize)
  \/ /\ cache = 0 /\ 0 < common /\ common < 1 + CacheSize
     /\ common' = common - 1 /\ UNCHANGED cache

\* em_alloc_rx_queue_mbufs puts a buffer into every descriptor; the card
\* receives from the moment the last one has its buffer.
FillRing ==
  /\ stage = "fill"
  /\ CachedGet
  /\ filled' = filled + 1
  /\ stage' = IF filled + 1 = RingSize THEN "poll" ELSE "fill"
  /\ UNCHANGED <<poolSize, ringVars, batch, forceQuit, noMbuf>>

\* The pool is empty: rte_eth_dev_start fails and the program exits.
FillFails ==
  /\ stage = "fill"
  /\ common = 0 /\ cache = 0
  /\ stage' = "exited"
  /\ noMbuf' = TRUE
  /\ UNCHANGED <<poolSize, poolVars, ringVars, batch, forceQuit>>

-----------------------------------------------------------------------------
(* The network card.                                                       *)

CardOn == stage \in {"poll", "recv", "handle", "stop"}

\* A packet is written to the descriptor at the head.  When head and tail
\* meet the card has no descriptor and drops what arrives.
CardReceives ==
  /\ CardOn
  /\ rdh # rdt
  /\ \E p \in Packets : desc' = [desc EXCEPT ![rdh] = p]
  /\ rdh' = Onward(rdh, 1)
  /\ UNCHANGED <<poolSize, poolVars, rdt, rxTail, nbHold, batch, stage, forceQuit, noMbuf>>

-----------------------------------------------------------------------------
(* dpdk_thread and eth_em_recv_pkts.  The thread is no lcore of the EAL:   *)
(* it takes buffers from, and gives them back to, the common pool.         *)

\* The handler is installed before the pool is made.
Signal ==
  /\ stage \notin {"exited", "closed"}
  /\ forceQuit' = TRUE
  /\ UNCHANGED <<poolSize, poolVars, ringVars, batch, stage, noMbuf>>

\* force_quit is only looked at between two bursts.
Poll ==
  /\ stage = "poll"
  /\ stage' = IF forceQuit THEN "stop" ELSE "recv"
  /\ UNCHANGED <<poolSize, poolVars, ringVars, batch, forceQuit, noMbuf>>

\* Broken variants of definitions have names that begin with Bad.  No
\* specification uses them; they show that the properties can fail.
BadRecvOne ==
  /\ stage = "recv"
  /\ Len(batch) < BurstSize
  /\ desc[rxTail] # NoPacket
  /\ common > 0
  /\ common' = common - 1
  /\ batch' = Append(batch, desc[rxTail])
  /\ rxTail' = Onward(rxTail, 1)
  /\ UNCHANGED <<poolSize, cache, filled, desc, rdh, rdt, nbHold, stage, forceQuit, noMbuf>>

\* One turn of the loop: a new buffer takes the place of the filled one.
RecvOne ==
  /\ stage = "recv"
  /\ Len(batch) < BurstSize
  /\ desc[rxTail] # NoPacket
  /\ common > 0
  /\ common' = common - 1
  /\ batch' = Append(batch, desc[rxTail])
  /\ desc' = [desc EXCEPT ![rxTail] = NoPacket]
  /\ rxTail' = Onward(rxTail, 1)
  /\ UNCHANGED <<poolSize, cache, filled, rdh, rdt, nbHold, stage, forceQuit, noMbuf>>

\* More than FreeThresh descriptors are given back to the card at once, all
\* but one: head and tail must not meet on a ring that is free.
BadGiveBack(held) ==
  IF held > FreeThresh THEN rdt' = rxTail /\ nbHold' = 0
                       ELSE nbHold' = held /\ UNCHANGED rdt

\* nb_rx_hold is not reset after the descriptors have been given back.
BadGiveBackHeld(held) ==
  IF held > FreeThresh THEN rdt' = Onward(rxTail, RingSize - 1) /\ nbHold' = held
                       ELSE nbHold' = held /\ UNCHANGED rdt

GiveBack(held) ==
  IF held > FreeThresh THEN rdt' = Onward(rxTail, RingSize - 1) /\ nbHold' = 0
                       ELSE nbHold' = held /\ UNCHANGED rdt

\* How many descriptors the driver has taken and not given back, in earlier
\* bursts and in this one: nb_rx_hold once the loop is through.
Held == nbHold + (IF stage = "recv" THEN Len(batch) ELSE 0)

\* It ends when the array is full, no descriptor is done or no buffer is left.
RecvEnds ==
  /\ stage = "recv"
  /\ Len(batch) = BurstSize \/ desc[rxTail] = NoPacket \/ common = 0
  /\ noMbuf' = (noMbuf \/ (Len(batch) < BurstSize /\ desc[rxTail] # NoPacket))
  /\ GiveBack(Held)
  /\ stage' = "handle"
  /\ UNCHANGED <<poolSize, poolVars, desc, rdh, rxTail, batch, forceQuit>>

BadHandle ==
  /\ stage = "handle" /\ batch # <<>>
  /\ batch' = Tail(batch)
  /\ UNCHANGED <<poolSize, poolVars, ringVars, stage, forceQuit, noMbuf>>

\* A packet is drawn if it is IPv6; its buffer is freed in any case.
Handle ==
  /\ stage = "handle" /\ batch # <<>>
  /\ batch' = Tail(batch)
  /\ common' = common + 1
  /\ UNCHANGED <<poolSize, cache, filled, ringVars, stage, forceQuit, noMbuf>>

BurstDone ==
  /\ stage = "handle" /\ batch = <<>>
  /\ stage' = "poll"
  /\ UNCHANGED <<poolSize, poolVars, ringVars, batch, forceQuit, noMbuf>>

\* rte_eth_dev_stop and rte_eth_dev_close: the card is switched off, the
\* buffers of the ring are freed, with the packets in them.
PortStop ==
  /\ stage = "stop"
  /\ stage' = "closed"
  /\ common' = common + filled
  /\ filled' = 0
  /\ rxTail' = 0 /\ nbHold' = 0
  /\ UNCHANGED <<poolSize, cache, desc, rdh, rdt, batch, forceQuit, noMbuf>>

ThreadStep == Poll \/ RecvOne \/ RecvEnds \/ Handle \/ BurstDone \/ PortStop

Next == FillRing \/ FillFails \/ CardReceives \/ Signal \/ ThreadStep

Spec == Init /\ [][Next]_vars

\* The operating system runs the polling thread; packets and signals may
\* come or not.
FairSpec == Spec /\ WF_vars(FillRing) /\ WF_vars(ThreadStep)

-----------------------------------------------------------------------------
(* Properties.                                                             *)

(* Every variable has its type; a burst is never longer than the array     *)
(* mbufs of dpdk_thread.                                                   *)
TypeOK ==
  /\ poolSize \in PoolSizes
  /\ common \in Nat /\ cache \in 0 .. CacheSize /\ filled \in 0 .. RingSize
  /\ desc \in [Slots -> Packets \union {NoPacket}]
  /\ rdh \in Slots /\ rdt \in Slots /\ rxTail \in Slots /\ nbHold \in 0 .. FreeThresh
  /\ batch \in Seq(Packets) /\ Len(batch) <= BurstSize
  /\ stage \in {"fill", "exited", "poll", "recv", "handle", "stop", "closed"}
  /\ forceQuit \in BOOLEAN /\ noMbuf \in BOOLEAN

(* Each buffer is in exactly one place, and in the end all are back in the *)
(* pool: nothing on the way of a packet loses a buffer, whatever kind of   *)
(* packet it is and wherever the server is stopped.                        *)
BuffersConserved ==
  /\ common + cache + filled + Len(batch) = poolSize
  /\ stage = "closed" => common + cache = poolSize

\* The descriptors the driver holds are the last ones before rxTail.
HeldSlots == {i \in Slots : i # rxTail /\ Way(i, rxTail) <= Held}

(* The card never writes over a packet that dpdk_thread has not taken, nor *)
(* over a descriptor the driver still holds: one that is taken and not yet *)
(* given back by a store to RDT.                                           *)
CardKeepsOff ==
  CardOn /\ rdh # rdt => desc[rdh] = NoPacket /\ rdh \notin HeldSlots

\* What the ring, one burst and the cache of the main thread can hold.
EnoughBuffers == poolSize >= 2 * RingSize - 1 + CacheSize

(* The pool of net_listen is large enough: with 4096 buffers for a ring of *)
(* 512, at most 511 packets in a burst and a cache of 128, no allocation   *)
(* ever fails, so no packet waits on the ring for a buffer.                *)
NeverOutOfBuffers == EnoughBuffers => ~noMbuf

(* The card is not left without descriptors, and a packet it has written   *)
(* is handed to the server, unless the server stops.  One buffer more than *)
(* the ring and the cache of the main thread can keep is enough for that.  *)
CardIsServed ==
  poolSize > RingSize + CacheSize =>
    /\ CardOn /\ rdh = rdt ~> rdh # rdt \/ ~CardOn
    /\ \A i \in Slots : CardOn /\ desc[i] # NoPacket ~> desc[i] = NoPacket \/ ~CardOn

\* The packets the card has accepted and the server has not handled, in the
\* order in which they were received.
OnRing == Between(desc, rxTail, rdh)
Pending == IF stage = "closed" THEN <<>> ELSE batch \o OnRing

\* The ring and the burst as one queue of packets.
Stream == INSTANCE PacketQueue WITH
  Capacity <- 2 * (RingSize - 1),
  queue <- Pending,
  open <- stage # "closed"

(* EmReceive implements PacketQueue: the server handles every packet the   *)
(* card has accepted once and in order, and never more than twice the ring *)
(* are under way.                                                          *)
ImplementsPacketQueue == Stream!PacketSpec
=============================================================================
