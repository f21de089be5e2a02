---------------------------- MODULE PacketQueue ----------------------------
(***************************************************************************)
(* What a descriptor ring promises: packets come out in the order they     *)
(* went in, each once, and there are never more than Capacity inside; once *)
(* the queue is closed whatever is left in it is gone.  EmReceive and      *)
(* EmTransmit implement this module.                                       *)
(***************************************************************************)
EXTENDS Naturals, Sequences

CONSTANTS
  Packets,    \* the packets that may ever be handed over
  Capacity    \* how many the queue holds at most

VARIABLES
  queue,      \* the packets inside, the oldest first
  open        \* FALSE once the queue is closed

packetVars == <<queue, open>>

PacketInit == queue = <<>> /\ open = TRUE

Put(p) ==
  /\ open
  /\ Len(queue) < Capacity
  /\ queue' = Append(queue, p)
  /\ UNCHANGED open

Take ==
  /\ queue # <<>>
  /\ queue' = Tail(queue)
  /\ UNCHANGED open

Shut ==
  /\ open' = FALSE
  /\ queue' = <<>>

PacketNext == (\E p \in Packets : Put(p)) \/ Take \/ Shut

PacketSpec == PacketInit /\ [][PacketNext]_packetVars
=============================================================================
