---------------------------- MODULE Framebuffer ----------------------------
(***************************************************************************)
(* The framebuffer of the pixelflut server (framebuffer.c) as the two      *)
(* threads that share it use it.  The DPDK thread decodes a command and    *)
(* calls fb_set_pixel; the main thread resizes the picture with fb_resize  *)
(* when the SDL window changes.  There is no lock: every load and store of *)
(* a field of struct fb is a step of its own, in the order in which the    *)
(* source performs them.                                                   *)
(*                                                                         *)
(* Heap blocks are addresses that the allocator reuses once they are free. *)
(* A store that hits no live block, or the outside of one, is undefined    *)
(* behaviour: `wild' is set and nothing is claimed about what follows.     *)
(***************************************************************************)
EXTENDS Integers

CONSTANTS
  Blocks,       \* addresses malloc may return
  NoBlock,      \* a pointer that was never set
  Pixels,       \* pixel values, uint32_t in the code
  Blank,        \* the value calloc and memset leave, 0 in the code
  Coords,       \* coordinates a command may carry, uint16_t in the code
  InitSizes,    \* sizes main may pass to fb_alloc: -w and -h are positive
  Resizes,      \* sizes the window may get; empty when there is no SDL window
  Word,         \* unsigned int counts modulo this, 2^32 in the build
  CounterWord   \* unsigned long long counts modulo this, 2^64 in the build

ASSUME FramebufferAssumption ==
  /\ NoBlock \notin Blocks
  /\ Blank \in Pixels
  /\ Coords \subseteq Nat
  /\ Word \in Nat \ {0} /\ CounterWord \in Nat \ {0}
  /\ InitSizes \subseteq (1 .. Word - 1) \X (1 .. Word - 1)
  /\ Resizes \subseteq (0 .. Word - 1) \X (0 .. Word - 1)

VARIABLES
  width, height,   \* fb->size
  pixels,          \* fb->pixels
  pixelCounter,    \* fb->pixelCounter
  live,            \* the blocks that are allocated
  cells,           \* how many pixels each block holds
  words,           \* what each block holds
  rx,              \* the DPDK thread inside fb_set_pixel
  rs,              \* the main thread inside fb_resize
  disturbed,       \* the command of the DPDK thread overlaps a switch of size
  wild             \* a store has hit memory it does not own

size == <<width, height>>
heap == <<live, cells, words>>
vars == <<width, height, pixels, pixelCounter, live, cells, words,
          rx, rs, disturbed, wild>>

-----------------------------------------------------------------------------
(* The arithmetic of the code: unsigned int wraps around.                  *)

Index(x, y, w) == (y * w + x) % Word
CellCount(w, h) == (w * h) % Word

\* The dimensions multiply without wrapping around.
Exact(w, h) == w * h < Word

\* Broken variants of definitions have names that begin with Bad.  No
\* specification uses them; they show that the properties can fail.
BadFilled(n, pixel) == [i \in 0 .. n |-> pixel]

Filled(n, pixel) == [i \in 0 .. n - 1 |-> pixel]

-----------------------------------------------------------------------------
(* The two threads.                                                        *)

IdleRx == [pc |-> "idle", x |-> 0, y |-> 0, pixel |-> Blank,
           w |-> 0, base |-> NoBlock]

IdleRs == [pc |-> "idle", w |-> 0, h |-> 0, oldw |-> 0, oldh |-> 0,
           fbmem |-> NoBlock, oldmem |-> NoBlock]

Drawing == rx.pc # "idle"

BadShrinking == CellCount(rs.oldw, rs.oldh) < CellCount(rs.w, rs.h)

\* The branch of fb_resize: oldmemsize > memsize.
Shrinking == CellCount(rs.oldw, rs.oldh) > CellCount(rs.w, rs.h)

\* fb_resize has stored some of width, height and pixels, and not all.
InTransit == rs.pc \in IF Shrinking THEN {"height", "pixels"}
                                    ELSE {"width", "height"}

\* fb_resize owns the new block and has not published it completely.
Replacing == rs.pc \in {"clear", "width", "height", "pixels"}

Init ==
  /\ \E s \in InitSizes : width = s[1] /\ height = s[2]
  /\ pixels \in Blocks
  /\ pixelCounter = 0
  /\ live = {pixels}
  /\ cells = [b \in Blocks |-> IF b = pixels THEN CellCount(width, height) ELSE 0]
  /\ words = [b \in Blocks |-> Filled(cells[b], Blank)]
  /\ rx = IdleRx
  /\ rs = IdleRs
  /\ disturbed = FALSE
  /\ wild = FALSE

-----------------------------------------------------------------------------
(* fb_set_pixel, called by the DPDK thread.                                *)

RxCommand ==
  /\ rx.pc = "idle"
  /\ \E x \in Coords, y \in Coords, pixel \in Pixels :
       rx' = [IdleRx EXCEPT !.pc = "checkX", !.x = x, !.y = y, !.pixel = pixel]
  /\ disturbed' = (InTransit \/ (Replacing /\ disturbed))
  /\ UNCHANGED <<size, pixels, pixelCounter, heap, rs, wild>>

CheckX ==
  /\ rx.pc = "checkX"
  /\ rx' = IF rx.x >= width THEN IdleRx ELSE [rx EXCEPT !.pc = "checkY", !.w = width]
  /\ UNCHANGED <<size, pixels, pixelCounter, heap, rs, disturbed, wild>>

BadCheckY ==
  /\ rx.pc = "checkY"
  /\ rx' = IF rx.y > height THEN IdleRx ELSE [rx EXCEPT !.pc = "width"]
  /\ UNCHANGED <<size, pixels, pixelCounter, heap, rs, disturbed, wild>>

CheckY ==
  /\ rx.pc = "checkY"
  /\ rx' = IF rx.y >= height THEN IdleRx ELSE [rx EXCEPT !.pc = "width"]
  /\ UNCHANGED <<size, pixels, pixelCounter, heap, rs, disturbed, wild>>

\* The source reads the width a second time; the optimised build keeps the
\* value it has compared with x.
LoadWidth ==
  /\ rx.pc = "width"
  /\ \E w \in {rx.w, width} : rx' = [rx EXCEPT !.pc = "base", !.w = w]
  /\ UNCHANGED <<size, pixels, pixelCounter, heap, rs, disturbed, wild>>

LoadPixels ==
  /\ rx.pc = "base"
  /\ rx' = [rx EXCEPT !.pc = "store", !.base = pixels]
  /\ UNCHANGED <<size, pixels, pixelCounter, heap, rs, disturbed, wild>>

Target == Index(rx.x, rx.y, rx.w)

StoreFits == rx.base \in live /\ Target < cells[rx.base]

Store ==
  /\ rx.pc = "store"
  /\ StoreFits
  /\ words' = [words EXCEPT ![rx.base] = [@ EXCEPT ![Target] = rx.pixel]]
  /\ pixelCounter' = (pixelCounter + 1) % CounterWord
  /\ rx' = IdleRx
  /\ UNCHANGED <<size, pixels, live, cells, rs, disturbed, wild>>

StoreWild ==
  /\ rx.pc = "store"
  /\ ~StoreFits
  /\ wild' = TRUE
  /\ UNCHANGED <<size, pixels, pixelCounter, heap, rx, rs, disturbed>>

-----------------------------------------------------------------------------
(* fb_resize, called by the main thread.                                   *)

ResizeCall ==
  /\ rs.pc = "idle"
  /\ \E new \in Resizes :
       rs' = [IdleRs EXCEPT !.pc = "malloc", !.w = new[1], !.h = new[2],
                            !.oldw = width, !.oldh = height]
  /\ UNCHANGED <<size, pixels, pixelCounter, heap, rx, disturbed, wild>>

\* malloc fails: -ENOMEM, nothing has changed.
ResizeFail ==
  /\ rs.pc = "malloc"
  /\ rs' = IdleRs
  /\ UNCHANGED <<size, pixels, pixelCounter, heap, rx, disturbed, wild>>

\* malloc returns a block that is not in use, with anything in it.
ResizeMalloc ==
  /\ rs.pc = "malloc"
  /\ \E b \in Blocks \ live :
       LET n == CellCount(rs.w, rs.h) IN
       \E garbage \in [0 .. n - 1 -> Pixels] :
         /\ live' = live \union {b}
         /\ cells' = [cells EXCEPT ![b] = n]
         /\ words' = [words EXCEPT ![b] = garbage]
         /\ rs' = [rs EXCEPT !.pc = "clear", !.fbmem = b]
  /\ disturbed' = (Drawing /\ disturbed)
  /\ UNCHANGED <<size, pixels, pixelCounter, rx, wild>>

BadResizeClear ==
  /\ rs.pc = "clear"
  /\ rs' = [rs EXCEPT !.pc = IF Shrinking THEN "width" ELSE "pixels",
                      !.oldmem = pixels]
  /\ UNCHANGED <<size, pixels, pixelCounter, heap, rx, disturbed, wild>>

\* memset, and oldmem = fb->pixels.
ResizeClear ==
  /\ rs.pc = "clear"
  /\ words' = [words EXCEPT ![rs.fbmem] = Filled(cells[rs.fbmem], Blank)]
  /\ rs' = [rs EXCEPT !.pc = IF Shrinking THEN "width" ELSE "pixels",
                      !.oldmem = pixels]
  /\ UNCHANGED <<size, pixels, pixelCounter, live, cells, rx, disturbed, wild>>

StoreWidth ==
  /\ rs.pc = "width"
  /\ width' = rs.w
  /\ rs' = [rs EXCEPT !.pc = "height"]
  /\ disturbed' = (disturbed \/ Drawing)
  /\ UNCHANGED <<height, pixels, pixelCounter, heap, rx, wild>>

StoreHeight ==
  /\ rs.pc = "height"
  /\ height' = rs.h
  /\ rs' = [rs EXCEPT !.pc = IF Shrinking THEN "pixels" ELSE "free"]
  /\ disturbed' = (disturbed \/ Drawing)
  /\ UNCHANGED <<width, pixels, pixelCounter, heap, rx, wild>>

StorePixels ==
  /\ rs.pc = "pixels"
  /\ pixels' = rs.fbmem
  /\ rs' = [rs EXCEPT !.pc = IF Shrinking THEN "free" ELSE "width"]
  /\ disturbed' = (disturbed \/ Drawing)
  /\ UNCHANGED <<size, pixelCounter, heap, rx, wild>>

BadFreeOld ==
  /\ rs.pc = "free"
  /\ rs' = IdleRs
  /\ UNCHANGED <<size, pixels, pixelCounter, heap, rx, disturbed, wild>>

FreeOld ==
  /\ rs.pc = "free"
  /\ live' = live \ {rs.oldmem}
  /\ cells' = [cells EXCEPT ![rs.oldmem] = 0]
  /\ words' = [words EXCEPT ![rs.oldmem] = Filled(0, Blank)]
  /\ rs' = IdleRs
  /\ UNCHANGED <<size, pixels, pixelCounter, rx, disturbed, wild>>

-----------------------------------------------------------------------------
RxStep ==
  RxCommand \/ CheckX \/ CheckY \/ LoadWidth \/ LoadPixels \/ Store \/ StoreWild

ResizeStep ==
  \/ ResizeCall \/ ResizeFail \/ ResizeMalloc \/ ResizeClear
  \/ StoreWidth \/ StoreHeight \/ StorePixels \/ FreeOld

\* After a wild store the model stops.
Undefined == wild /\ UNCHANGED vars

Next ==
  \/ ~wild /\ RxStep
  \/ ~wild /\ ResizeStep
  \/ Undefined

Spec == Init /\ [][Next]_vars

-----------------------------------------------------------------------------
(* Properties.                                                             *)

Addresses == Blocks \union {NoBlock}
Dims == 0 .. Word - 1
Contents == UNION {[0 .. n - 1 -> Pixels] : n \in Dims}

Commands ==
  [pc : {"idle", "checkX", "checkY", "width", "base", "store"},
   x : Coords \union {0}, y : Coords \union {0}, pixel : Pixels,
   w : Dims, base : Addresses]

ResizeCalls ==
  [pc : {"idle", "malloc", "clear", "width", "height", "pixels", "free"},
   w : Dims, h : Dims, oldw : Dims, oldh : Dims,
   fbmem : Addresses, oldmem : Addresses]

(* Every variable has its type; a block holds as many words as it has      *)
(* cells.                                                                  *)
TypeOK ==
  /\ width \in Dims /\ height \in Dims
  /\ pixels \in Blocks
  /\ pixelCounter \in 0 .. CounterWord - 1
  /\ live \subseteq Blocks
  /\ cells \in [Blocks -> Dims]
  /\ words \in [Blocks -> Contents]
  /\ \A b \in Blocks : words[b] \in [0 .. cells[b] - 1 -> Pixels]
  /\ rx \in Commands
  /\ rs \in ResizeCalls
  /\ disturbed \in BOOLEAN
  /\ wild \in BOOLEAN

(* Between two calls of fb_resize the heap holds the picture and nothing   *)
(* else, in a block of exactly width * height cells: fb_resize leaks no    *)
(* block, frees none twice and leaves fields that agree, on its error path *)
(* as well.                                                                *)
RestingPictureIsExact ==
  rs.pc = "idle" =>
    /\ live = {pixels}
    /\ cells[pixels] = CellCount(width, height)

Comparable(w1, h1, w2, h2) ==
  \/ w1 <= w2 /\ h1 <= h2
  \/ w2 <= w1 /\ h2 <= h1

(* What the order of the stores in fb_resize achieves ("Try to prevent oob *)
(* writes", framebuffer.c:106): when the picture grows in both directions  *)
(* or shrinks in both, the block that fb->pixels points to can hold the    *)
(* size announced at every instant.  Only for products that do not wrap.   *)
AnnouncedSizeFits ==
  /\ rs.pc # "idle"
  /\ Comparable(rs.oldw, rs.oldh, rs.w, rs.h)
  /\ Exact(rs.oldw, rs.oldh) /\ Exact(rs.w, rs.h)
  => /\ pixels \in live
     /\ width * height <= cells[pixels]

(* A command that overlaps no switch of the size is stored inside the live *)
(* picture, whatever resizes were made before it, start after its checks   *)
(* or free and reuse blocks while it is under way.                         *)
UndisturbedStoreFits ==
  rx.pc = "store" /\ ~disturbed /\ Exact(width, height) => StoreFits

(* No store ever leaves the picture.                                       *)
NoWildStore == ~wild

-----------------------------------------------------------------------------
(* The abstract wall.  While the size is being switched the picture is     *)
(* still the old one.                                                      *)

WallSize == IF InTransit THEN <<rs.oldw, rs.oldh>> ELSE size
WallBlock == IF InTransit THEN rs.oldmem ELSE pixels

WallCanvas ==
  [p \in (0 .. WallSize[1] - 1) \X (0 .. WallSize[2] - 1) |->
     words[WallBlock][Index(p[1], p[2], WallSize[1])]]

Promise == INSTANCE Wall WITH
  size <- WallSize, canvas <- WallCanvas, drawn <- pixelCounter, racing <- disturbed

(* Framebuffer implements Wall: commands that overlap no switch of the     *)
(* size recolour exactly their pixel and count once, and a resize blanks   *)
(* the picture.                                                            *)
ImplementsWall == Promise!WallSpec
=============================================================================
