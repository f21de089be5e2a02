-------------------------------- MODULE Wire --------------------------------
(***************************************************************************)
(* How a colour gets from a client to a wall: the clients foo.c (raw       *)
(* socket) and basicfwd.c (DPDK) write a position and a colour into the    *)
(* last eight bytes of an IPv6 destination address, the network carries    *)
(* the packet, and a server reads the address back.  There are two         *)
(* servers, dpdk_thread with fb_set_pixel and the XDP program; the module  *)
(* shows the same packets to both, to say where they agree.                *)
(*                                                                         *)
(* The network may lose, repeat and reorder packets; neither clients nor   *)
(* servers notice.  Frames that are not IPv6 change nothing and are left   *)
(* out; a client that ends sends no more.                                  *)
(***************************************************************************)
EXTENDS Naturals, FiniteSets

CONSTANTS
  Byte,                  \* how many values a byte has, 256
  RangeX, RangeY, Side,  \* the squares of foo.c: 700, 500 and 50
  First, LastX, LastY,   \* what basicfwd.c sweeps: 100 to 900 and to 700
  Width, Height,         \* the size of the framebuffer of the server; its
                         \* index does not wrap around (Framebuffer: Exact)
  MapWidth, MapHeight,   \* WIDTH and HEIGHT of the XDP program: 1280, 720
  Random,                \* what rand() returns, kept in a uint32_t
  MaxInFlight            \* bound on the packets under way

\* A uint32_t is a colour; its byte k weighs Weight(k).
Colours == 0 .. Byte * Byte * Byte * Byte - 1
Weight(k) == CASE k = 0 -> 1            [] k = 1 -> Byte
               [] k = 2 -> Byte * Byte  [] k = 3 -> Byte * Byte * Byte

ASSUME WireAssumption ==
  /\ Byte \in Nat /\ Byte > 1
  /\ RangeX \in Nat \ {0} /\ RangeY \in Nat \ {0} /\ Side \in Nat \ {0}
  /\ First \in Nat /\ LastX \in Nat /\ LastY \in Nat /\ First <= LastX /\ First <= LastY
  /\ RangeX + Side <= Byte * Byte /\ RangeY + Side <= Byte * Byte
  /\ LastX < Byte * Byte /\ LastY < Byte * Byte
  /\ Width \in Nat \ {0} /\ Height \in Nat \ {0} /\ Width * Height - 1 \in Colours
  /\ MapWidth \in Nat \ {0} /\ MapHeight \in Nat \ {0}
  /\ Random \subseteq Colours /\ Random # {}

VARIABLES
  square,   \* foo.c: startX, startY, x, y and rgb
  sweep,    \* basicfwd.c: x, y and rgb
  net,      \* the packets under way, each with what its sender meant
  picture,  \* fb->pixels of the server
  map       \* the array `framebuffer' of the XDP program

wireVars == <<square, sweep, net, picture, map>>

Cells(w, h) == 0 .. w * h - 1

\* A square starts anywhere and has one colour.
NewSquare == { [startX |-> i, startY |-> j, x |-> i, y |-> j, rgb |-> c] :
                 i \in 0 .. RangeX - 1, j \in 0 .. RangeY - 1, c \in Random }

WireInit ==
  /\ square \in NewSquare
  /\ sweep \in { [x |-> First, y |-> First, rgb |-> c] : c \in Random }
  /\ net = {}
  /\ picture = [i \in Cells(Width, Height) |-> 0]
  /\ map = [i \in Cells(MapWidth, MapHeight) |-> 0]

-----------------------------------------------------------------------------
(* The clients.                                                            *)

\* v >> (8 * k), stored in a byte.
ByteOf(v, k) == (v \div Weight(k)) % Byte

\* Broken variants of definitions have names that begin with Bad.  No
\* specification uses them; they show that the properties can fail.
BadAddress(x, y, rgb, last) ==
  [n \in 8 .. 15 |->
     CASE n = 8 -> ByteOf(x, 1)      [] n = 9 -> ByteOf(x, 0)
       [] n = 10 -> ByteOf(y, 0)     [] n = 11 -> ByteOf(y, 1)
       [] n = 12 -> ByteOf(rgb, 3)   [] n = 13 -> ByteOf(rgb, 2)
       [] n = 14 -> ByteOf(rgb, 1)   [] n = 15 -> last]

\* dst_addr[8] to dst_addr[15].
Address(x, y, rgb, last) ==
  [n \in 8 .. 15 |->
     CASE n = 8 -> ByteOf(x, 1)      [] n = 9 -> ByteOf(x, 0)
       [] n = 10 -> ByteOf(y, 1)     [] n = 11 -> ByteOf(y, 0)
       [] n = 12 -> ByteOf(rgb, 3)   [] n = 13 -> ByteOf(rgb, 2)
       [] n = 14 -> ByteOf(rgb, 1)   [] n = 15 -> last]

Send(x, y, rgb, last) ==
  net' = net \union {[dst |-> Address(x, y, rgb, last), x |-> x, y |-> y, rgb |-> rgb]}

Room == Cardinality(net) < MaxInFlight

\* foo.c: column after column of a square, then the next square.
SquareSends ==
  /\ Room
  /\ Send(square.x, square.y, square.rgb, ByteOf(square.rgb, 0))
  /\ \/ /\ square.y + 1 < square.startY + Side
        /\ square' = [square EXCEPT !.y = @ + 1]
     \/ /\ square.y + 1 = square.startY + Side
        /\ square.x + 1 < square.startX + Side
        /\ square' = [square EXCEPT !.x = @ + 1, !.y = square.startY]
     \/ /\ square.y + 1 = square.startY + Side
        /\ square.x + 1 = square.startX + Side
        /\ square' \in NewSquare
  /\ UNCHANGED <<sweep, picture, map>>

\* basicfwd.c: row after row of a fixed rectangle, then the next colour.
SweepSends ==
  /\ Room
  /\ Send(sweep.x, sweep.y, sweep.rgb, 0)
  /\ \/ /\ sweep.x < LastX
        /\ sweep' = [sweep EXCEPT !.x = @ + 1]
     \/ /\ sweep.x = LastX /\ sweep.y < LastY
        /\ sweep' = [sweep EXCEPT !.x = First, !.y = @ + 1]
     \/ /\ sweep.x = LastX /\ sweep.y = LastY
        /\ \E c \in Random : sweep' = [x |-> First, y |-> First, rgb |-> c]
  /\ UNCHANGED <<square, picture, map>>

-----------------------------------------------------------------------------
(* The servers.                                                            *)

\* dpdk_thread: the address read back; the last byte is not looked at.
Decoded(dst) ==
  [x   |-> dst[8] * Weight(1) + dst[9],
   y   |-> dst[10] * Weight(1) + dst[11],
   rgb |-> dst[12] * Weight(3) + dst[13] * Weight(2) + dst[14] * Weight(1)]

BadXdpDecoded(dst) ==
  [x   |-> dst[8] * Weight(1) + dst[9],
   y   |-> dst[10] * Weight(1) + dst[11],
   rgb |-> dst[12] * Weight(3) + dst[13] * Weight(2) + dst[14] * Weight(1) + dst[15]]

\* xdp_pixelflut: three shifts and the same bytes; the last one is commented
\* out.
XdpDecoded(dst) ==
  [x   |-> dst[8] * Weight(1) + dst[9],
   y   |-> dst[10] * Weight(1) + dst[11],
   rgb |-> dst[12] * Weight(3) + dst[13] * Weight(2) + dst[14] * Weight(1)]

BadSetPixel(c) ==
  IF c.x > Width \/ c.y > Height THEN picture
  ELSE LET i == c.y * Width + c.x
       IN [j \in DOMAIN picture \union {i} |-> IF j = i THEN c.rgb ELSE picture[j]]

\* fb_set_pixel; a store beyond the block would add a cell to it.
SetPixel(c) ==
  IF c.x >= Width \/ c.y >= Height THEN picture
  ELSE LET i == c.y * Width + c.x
       IN [j \in DOMAIN picture \union {i} |-> IF j = i THEN c.rgb ELSE picture[j]]

BadUpdateMap(c) ==
  IF c.x >= MapWidth \/ c.y >= MapHeight THEN map
  ELSE [map EXCEPT ![c.x + c.y * MapHeight] = c.rgb]

\* xdp_pixelflut; an update beyond max_entries would be refused.
UpdateMap(c) ==
  IF c.x >= MapWidth \/ c.y >= MapHeight THEN map
  ELSE [map EXCEPT ![c.x + c.y * MapWidth] = c.rgb]

\* A packet arrives; a copy of it may still be under way.
Arrives(m) ==
  /\ picture' = SetPixel(Decoded(m.dst))
  /\ map' = UpdateMap(XdpDecoded(m.dst))
  /\ net' \in {net, net \ {m}}
  /\ UNCHANGED <<square, sweep>>

\* The network, or a full receive ring, loses a packet.
Lost(m) ==
  /\ net' = net \ {m}
  /\ UNCHANGED <<square, sweep, picture, map>>

WireNext ==
  \/ SquareSends
  \/ SweepSends
  \/ \E m \in net : Arrives(m)
  \/ \E m \in net : Lost(m)

WireSpec == WireInit /\ [][WireNext]_wireVars

-----------------------------------------------------------------------------
(* Properties.                                                             *)

(* Every variable has its type; in particular no accepted packet stores    *)
(* beyond the block of the framebuffer, and clients stay in their areas.   *)
WireTypeOK ==
  /\ square.startX \in 0 .. RangeX - 1 /\ square.startY \in 0 .. RangeY - 1
  /\ square.x \in square.startX .. square.startX + Side - 1
  /\ square.y \in square.startY .. square.startY + Side - 1
  /\ square.rgb \in Random /\ sweep.rgb \in Random
  /\ sweep.x \in First .. LastX /\ sweep.y \in First .. LastY
  /\ \A m \in net : m.dst \in [8 .. 15 -> 0 .. Byte - 1]
  /\ picture \in [Cells(Width, Height) -> Colours]
  /\ map \in [Cells(MapWidth, MapHeight) -> Colours]

\* The cell of an array of rows of width w that m's sender meant.
Meant(m, w) == m.y * w + m.x

(* End to end: a cell of either picture only ever changes because a client *)
(* sent a packet for this position, and takes the colour it meant but for  *)
(* the lowest byte.  Losing, repeating or reordering packets paints no     *)
(* position that nobody named and mixes no two packets.                    *)
PaintsWhatWasMeant ==
  [][\E m \in net :
       /\ \A i \in DOMAIN picture : picture'[i] # picture[i] =>
            m.x < Width /\ i = Meant(m, Width) /\ picture'[i] = m.rgb - (m.rgb % Byte)
       /\ \A i \in DOMAIN map : map'[i] # map[i] =>
            m.x < MapWidth /\ i = Meant(m, MapWidth) /\ map'[i] = m.rgb - (m.rgb % Byte)
    ]_<<picture, map>>

(* A server and the XDP program that are shown the same packets show the   *)
(* same colour wherever both have a pixel, whatever their sizes: each has  *)
(* its own decoding of the address, test of the bounds and index.          *)
ServersAgree ==
  \A x \in 0 .. Width - 1, y \in 0 .. Height - 1 :
    x < MapWidth /\ y < MapHeight => picture[y * Width + x] = map[x + y * MapWidth]
=============================================================================
