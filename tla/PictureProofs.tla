---------------------------- MODULE PictureProofs ----------------------------
(***************************************************************************)
(* What is proved of the picture: of Framebuffer, where two threads share  *)
(* it, for every set of blocks, every picture, every word length; and of   *)
(* Wire, where packets of the clients paint it, for every size of a byte,  *)
(* of a picture and of what the clients paint.  Both rest on the same      *)
(* arithmetic of positions.                                                *)
(*                                                                         *)
(* The inductive invariant of Framebuffer has three parts.  TypeOK gives   *)
(* every field its type.  ResizeInv says, for every point of fb_resize,    *)
(* which blocks are allocated, how large they are and which of width,      *)
(* height and pixels are new already.  CommandInv says that a command that *)
(* overlaps no switch of the size has compared its coordinates with the    *)
(* very fields that are still in force.  The refinement of Wall adds two   *)
(* facts: no size in use wraps around, and the block of fb_resize stays    *)
(* blank until it is the picture.                                          *)
(*                                                                         *)
(* The inductive invariant of Wire says of each packet under way that its  *)
(* address was made by a client from what it meant, and of the two         *)
(* pictures that they agree; reading an address back is then a statement   *)
(* about division, proved for a byte of any size.                          *)
(***************************************************************************)
EXTENDS Framebuffer, Wire, TLAPS

OldSize == width = rs.oldw /\ height = rs.oldh
NewSize == width = rs.w /\ height = rs.h

\* fb_resize holds two different blocks, one for each size.
TwoBlocks ==
  /\ rs.oldmem \in Blocks /\ rs.fbmem \in Blocks /\ rs.oldmem # rs.fbmem
  /\ live = {rs.oldmem, rs.fbmem}
  /\ cells[rs.oldmem] = CellCount(rs.oldw, rs.oldh)
  /\ cells[rs.fbmem] = CellCount(rs.w, rs.h)

OneBlock == live = {pixels} /\ cells[pixels] = CellCount(width, height)

ResizeInv ==
  /\ rs.pc = "idle" => OneBlock
  /\ rs.pc = "malloc" => OneBlock /\ OldSize
  /\ rs.pc = "clear" =>
       /\ rs.fbmem \in Blocks /\ rs.fbmem # pixels
       /\ live = {pixels, rs.fbmem}
       /\ cells[pixels] = CellCount(rs.oldw, rs.oldh)
       /\ cells[rs.fbmem] = CellCount(rs.w, rs.h)
       /\ OldSize
  /\ rs.pc \in {"width", "height", "pixels", "free"} => TwoBlocks
  /\ rs.pc = "width" =>
       /\ OldSize
       /\ pixels = IF Shrinking THEN rs.oldmem ELSE rs.fbmem
  /\ rs.pc = "height" =>
       /\ width = rs.w /\ height = rs.oldh
       /\ pixels = IF Shrinking THEN rs.oldmem ELSE rs.fbmem
  /\ rs.pc = "pixels" =>
       /\ pixels = rs.oldmem
       /\ IF Shrinking THEN NewSize ELSE OldSize
  /\ rs.pc = "free" => NewSize /\ pixels = rs.fbmem

CommandInv ==
  Drawing /\ ~disturbed =>
    /\ ~InTransit
    /\ rx.pc \in {"checkY", "width", "base", "store"} => rx.x < width /\ rx.w = width
    /\ rx.pc \in {"width", "base", "store"} => rx.y < height
    /\ rx.pc = "store" => rx.base = pixels

IInv == TypeOK /\ ResizeInv /\ CommandInv

-----------------------------------------------------------------------------
(* Arithmetic.                                                             *)

(* Multiplication by a natural number is monotone: what the comparison of  *)
(* sizes in fb_resize relies on.                                           *)
LEMMA TimesMonotone ==
  ASSUME NEW a \in Nat, NEW b \in Nat, NEW c \in Nat, a <= b
  PROVE  a * c <= b * c /\ c * a <= c * b
<1>1. PICK d \in Nat : b = a + d
  BY b - a \in Nat
<1>2. d * c \in Nat /\ b * c = a * c + d * c /\ c * b = b * c /\ c * a = a * c
  BY <1>1
<1> QED
  BY <1>2

(* A position inside a w x h picture has an index below w * h: what the    *)
(* two comparisons of fb_set_pixel are for.                                *)
LEMMA PositionFits ==
  ASSUME NEW x \in Nat, NEW y \in Nat, NEW w \in Nat, NEW h \in Nat,
         x < w, y < h
  PROVE  y * w + x \in Nat /\ y * w + x < w * h
<1>1. y + 1 <= h /\ y + 1 \in Nat
  OBVIOUS
<1>2. (y + 1) * w <= h * w
  BY <1>1, TimesMonotone
<1>3. (y + 1) * w = y * w + w /\ h * w = w * h /\ y * w \in Nat /\ w * h \in Nat
  OBVIOUS
<1> QED
  BY <1>2, <1>3

(* A product of unsigned ints is an unsigned int, and it is the true one   *)
(* when it does not wrap.                                                  *)
LEMMA CellCountType ==
  ASSUME NEW w \in Nat, NEW h \in Nat
  PROVE  /\ CellCount(w, h) \in Dims
         /\ Exact(w, h) => CellCount(w, h) = w * h
<1>1. w * h \in Nat /\ Word \in Nat /\ Word > 0
  BY FramebufferAssumption
<1> DEFINE p == w * h
<1>2. p % Word \in 0 .. Word - 1 /\ (p < Word => p % Word = p)
  <2> HIDE DEF p
  <2>1. p \in Nat
    BY <1>1 DEF p
  <2> QED
    BY <1>1, <2>1
<1> QED
  BY <1>2 DEF CellCount, Dims, Exact

-----------------------------------------------------------------------------
(* Initial states.                                                         *)

(* What the two threads look like outside of the functions.                *)
LEMMA IdleTypes == IdleRx \in Commands /\ IdleRs \in ResizeCalls
BY FramebufferAssumption DEF IdleRx, IdleRs, Commands, ResizeCalls, Addresses, Dims

LEMMA InitInv == Init => IInv
<1> SUFFICES ASSUME Init PROVE IInv
  OBVIOUS
<1> USE FramebufferAssumption
<1>1. width \in Dims /\ height \in Dims /\ width \in Nat /\ height \in Nat
  BY DEF Init, Dims
<1>2. CellCount(width, height) \in Dims /\ 0 \in Dims
  BY <1>1, CellCountType DEF Dims
<1>3. cells \in [Blocks -> Dims] /\ live \subseteq Blocks /\ pixels \in Blocks
  BY <1>2 DEF Init
<1>4. \A b \in Blocks : words[b] \in [0 .. cells[b] - 1 -> Pixels]
  BY DEF Init, Filled
<1>5. words \in [Blocks -> Contents]
  BY <1>3, <1>4 DEF Init, Contents
<1>6. TypeOK
  <2>1. rx = IdleRx /\ rs = IdleRs /\ pixelCounter = 0 /\ disturbed = FALSE /\ wild = FALSE
    BY DEF Init
  <2>2. rx \in Commands /\ rs \in ResizeCalls
    BY <2>1, IdleTypes
  <2>3. pixelCounter \in 0 .. CounterWord - 1
    BY <2>1
  <2> QED
    BY <1>1, <1>3, <1>4, <1>5, <2>1, <2>2, <2>3 DEF TypeOK
<1>7. ResizeInv
  BY <1>3 DEF Init, ResizeInv, IdleRs, OneBlock
<1>8. CommandInv
  BY DEF Init, CommandInv, IdleRx, Drawing
<1> QED
  BY <1>6, <1>7, <1>8 DEF IInv

-----------------------------------------------------------------------------
(* The type of every variable.                                             *)

LEMMA TypeStep == IInv /\ [Next]_vars => TypeOK'
<1> SUFFICES ASSUME IInv, [Next]_vars PROVE TypeOK'
  OBVIOUS
<1> USE FramebufferAssumption
<1>0. TypeOK /\ ResizeInv
  BY DEF IInv
<1>1. CASE RxCommand
  <2>1. PICK x \in Coords, y \in Coords, pixel \in Pixels :
          rx' = [IdleRx EXCEPT !.pc = "checkX", !.x = x, !.y = y, !.pixel = pixel]
    BY <1>1 DEF RxCommand
  <2>2. rx' \in Commands
    BY <2>1, IdleTypes DEF Commands
  <2>3. disturbed' \in BOOLEAN
    BY <1>0, <1>1 DEF RxCommand, TypeOK, InTransit, Replacing
  <2> QED
    BY <1>0, <1>1, <2>2, <2>3 DEF TypeOK, RxCommand, size, heap
<1>2. CASE CheckX
  <2>1. rx' \in Commands
    BY <1>0, <1>2, IdleTypes DEF TypeOK, CheckX, Commands
  <2> QED
    BY <1>0, <1>2, <2>1 DEF TypeOK, CheckX, size, heap
<1>3. CASE CheckY
  <2>1. rx' \in Commands
    BY <1>0, <1>3, IdleTypes DEF TypeOK, CheckY, Commands
  <2> QED
    BY <1>0, <1>3, <2>1 DEF TypeOK, CheckY, size, heap
<1>4. CASE LoadWidth
  <2>1. PICK w \in {rx.w, width} : rx' = [rx EXCEPT !.pc = "base", !.w = w]
    BY <1>4 DEF LoadWidth
  <2>2. w \in Dims /\ rx \in Commands
    BY <1>0 DEF TypeOK, Commands
  <2>3. rx' \in Commands
    BY <2>1, <2>2 DEF Commands
  <2> QED
    BY <1>0, <1>4, <2>3 DEF TypeOK, LoadWidth, size, heap
<1>5. CASE LoadPixels
  <2>1. rx' \in Commands
    BY <1>0, <1>5 DEF TypeOK, LoadPixels, Commands, Addresses
  <2> QED
    BY <1>0, <1>5, <2>1 DEF TypeOK, LoadPixels, size, heap
<1>6. CASE Store
  <2>1. pixelCounter' \in 0 .. CounterWord - 1
    BY <1>0, <1>6 DEF TypeOK, Store
  <2>2. rx.pixel \in Pixels
    BY <1>0 DEF TypeOK, Commands
  <2>3. words' = [words EXCEPT ![rx.base] = [@ EXCEPT ![Target] = rx.pixel]] /\ cells' = cells
    BY <1>6 DEF Store, heap
  <2>4. \A b \in Blocks : words'[b] \in [0 .. cells'[b] - 1 -> Pixels]
    BY <1>0, <2>2, <2>3 DEF TypeOK
  <2>5. words' \in [Blocks -> Contents]
    <3>1. \A b \in Blocks : words'[b] \in Contents
      BY <1>0, <2>3, <2>4 DEF TypeOK, Contents
    <3> QED
      BY <1>0, <2>3, <3>1 DEF TypeOK
  <2>6. rx' \in Commands
    BY <1>6, IdleTypes DEF Store
  <2> QED
    BY <1>0, <1>6, <2>1, <2>4, <2>5, <2>6 DEF TypeOK, Store, size
<1>7. CASE StoreWild
  BY <1>0, <1>7 DEF TypeOK, StoreWild, size, heap
<1>8. CASE ResizeCall
  <2>1. PICK new \in Resizes :
          rs' = [IdleRs EXCEPT !.pc = "malloc", !.w = new[1], !.h = new[2],
                               !.oldw = width, !.oldh = height]
    BY <1>8 DEF ResizeCall
  <2>2. new[1] \in Dims /\ new[2] \in Dims
    BY DEF Dims
  <2>3. rs' \in ResizeCalls
    BY <1>0, <2>1, <2>2, IdleTypes DEF TypeOK, ResizeCalls
  <2> QED
    BY <1>0, <1>8, <2>3 DEF TypeOK, ResizeCall, size, heap
<1>9. CASE ResizeFail
  BY <1>0, <1>9, IdleTypes DEF TypeOK, ResizeFail, size, heap
<1>10. CASE ResizeMalloc
  <2> DEFINE n == CellCount(rs.w, rs.h)
  <2>1. n \in Dims
    BY <1>0, CellCountType DEF TypeOK, ResizeCalls, Dims
  <2> HIDE DEF n
  <2>2. PICK b \in Blocks \ live, garbage \in [0 .. n - 1 -> Pixels] :
          /\ live' = live \union {b}
          /\ cells' = [cells EXCEPT ![b] = n]
          /\ words' = [words EXCEPT ![b] = garbage]
          /\ rs' = [rs EXCEPT !.pc = "clear", !.fbmem = b]
    BY <1>10 DEF ResizeMalloc, n
  <2>3. cells' \in [Blocks -> Dims] /\ live' \subseteq Blocks
    BY <1>0, <2>1, <2>2 DEF TypeOK
  <2>4. garbage \in Contents
    BY <2>1 DEF Contents
  <2>5. words' \in [Blocks -> Contents]
    BY <1>0, <2>2, <2>4 DEF TypeOK
  <2>6. \A c \in Blocks : words'[c] \in [0 .. cells'[c] - 1 -> Pixels]
    BY <1>0, <2>2 DEF TypeOK
  <2>7. rs' \in ResizeCalls
    BY <1>0, <2>2 DEF TypeOK, ResizeCalls, Addresses
  <2> QED
    BY <1>0, <1>10, <2>3, <2>5, <2>6, <2>7 DEF TypeOK, ResizeMalloc, Drawing, size
<1>11. CASE ResizeClear
  <2>1. rs.fbmem \in Blocks
    BY <1>0, <1>11 DEF ResizeInv, ResizeClear
  <2>2. words' = [words EXCEPT ![rs.fbmem] = Filled(cells[rs.fbmem], Blank)]
    BY <1>11 DEF ResizeClear
  <2>3. Filled(cells[rs.fbmem], Blank) \in [0 .. cells[rs.fbmem] - 1 -> Pixels]
    BY DEF Filled
  <2>4. Filled(cells[rs.fbmem], Blank) \in Contents
    BY <1>0, <2>1, <2>3 DEF Contents, TypeOK
  <2>5. words' \in [Blocks -> Contents]
    BY <1>0, <2>2, <2>4 DEF TypeOK
  <2>6. \A c \in Blocks : words'[c] \in [0 .. cells[c] - 1 -> Pixels]
    BY <1>0, <2>2, <2>3 DEF TypeOK
  <2>7. rs' \in ResizeCalls
    BY <1>0, <1>11 DEF TypeOK, ResizeClear, ResizeCalls, Addresses
  <2> QED
    BY <1>0, <1>11, <2>5, <2>6, <2>7 DEF TypeOK, ResizeClear, size
<1>12. CASE StoreWidth
  <2>1. rs' \in ResizeCalls /\ width' \in Dims
    BY <1>0, <1>12 DEF TypeOK, StoreWidth, ResizeCalls
  <2> QED
    BY <1>0, <1>12, <2>1 DEF TypeOK, StoreWidth, heap, Drawing
<1>13. CASE StoreHeight
  <2>1. rs' \in ResizeCalls /\ height' \in Dims
    BY <1>0, <1>13 DEF TypeOK, StoreHeight, ResizeCalls
  <2> QED
    BY <1>0, <1>13, <2>1 DEF TypeOK, StoreHeight, heap, Drawing
<1>14. CASE StorePixels
  <2>1. pixels' \in Blocks
    BY <1>0, <1>14 DEF ResizeInv, StorePixels, TwoBlocks
  <2>2. rs' \in ResizeCalls
    BY <1>0, <1>14 DEF TypeOK, StorePixels, ResizeCalls
  <2> QED
    BY <1>0, <1>14, <2>1, <2>2 DEF TypeOK, StorePixels, size, heap, Drawing
<1>15. CASE FreeOld
  <2>1. cells' = [cells EXCEPT ![rs.oldmem] = 0]
        /\ words' = [words EXCEPT ![rs.oldmem] = Filled(0, Blank)]
    BY <1>15 DEF FreeOld
  <2>2. 0 \in Dims /\ Filled(0, Blank) \in [0 .. 0 - 1 -> Pixels]
    BY DEF Dims, Filled
  <2>3. Filled(0, Blank) \in Contents
    BY <2>2 DEF Contents
  <2>4. cells' \in [Blocks -> Dims] /\ words' \in [Blocks -> Contents]
    BY <1>0, <2>1, <2>2, <2>3 DEF TypeOK
  <2>5. \A c \in Blocks : words'[c] \in [0 .. cells'[c] - 1 -> Pixels]
    BY <1>0, <2>1, <2>2 DEF TypeOK
  <2> QED
    BY <1>0, <1>15, <2>4, <2>5, IdleTypes DEF TypeOK, FreeOld, size
<1>16. CASE UNCHANGED vars
  BY <1>0, <1>16 DEF TypeOK, vars
<1> QED
  BY <1>1, <1>2, <1>3, <1>4, <1>5, <1>6, <1>7, <1>8, <1>9, <1>10, <1>11, <1>12,
     <1>13, <1>14, <1>15, <1>16 DEF Next, RxStep, ResizeStep, Undefined

-----------------------------------------------------------------------------
(* The blocks and fields at every point of fb_resize.                      *)

LEMMA ResizeInvStep == IInv /\ [Next]_vars => ResizeInv'
<1> SUFFICES ASSUME IInv, [Next]_vars PROVE ResizeInv'
  OBVIOUS
<1> USE DEF OldSize, NewSize, OneBlock, Shrinking
<1>0. TypeOK /\ ResizeInv
  BY DEF IInv
<1>1. CASE UNCHANGED <<width, height, pixels, live, cells, rs>>
  BY <1>0, <1>1 DEF ResizeInv, TwoBlocks
<1>2. CASE ResizeCall
  BY <1>0, <1>2 DEF ResizeInv, ResizeCall, IdleRs, size, heap
<1>3. CASE ResizeFail
  BY <1>0, <1>3 DEF ResizeInv, ResizeFail, IdleRs, size, heap
<1>4. CASE ResizeMalloc
  <2>1. PICK b \in Blocks \ live :
          /\ live' = live \union {b}
          /\ cells' = [cells EXCEPT ![b] = CellCount(rs.w, rs.h)]
          /\ rs' = [rs EXCEPT !.pc = "clear", !.fbmem = b]
    BY <1>4 DEF ResizeMalloc
  <2>2. b # pixels /\ live' = {pixels, b}
    BY <1>0, <1>4, <2>1 DEF ResizeInv, ResizeMalloc
  <2>3. /\ cells'[b] = CellCount(rs.w, rs.h)
        /\ cells'[pixels] = CellCount(rs.oldw, rs.oldh)
    BY <1>0, <1>4, <2>1, <2>2 DEF ResizeInv, ResizeMalloc, TypeOK
  <2>4. rs'.pc = "clear" /\ rs'.fbmem = b /\ rs'.w = rs.w /\ rs'.h = rs.h
        /\ rs'.oldw = rs.oldw /\ rs'.oldh = rs.oldh
    BY <1>0, <2>1 DEF TypeOK, ResizeCalls
  <2> QED
    BY <1>0, <1>4, <2>1, <2>2, <2>3, <2>4 DEF ResizeInv, ResizeMalloc, size
<1>5. CASE ResizeClear
  <2>1. /\ rs'.pc = (IF Shrinking THEN "width" ELSE "pixels") /\ rs'.oldmem = pixels
        /\ rs'.fbmem = rs.fbmem /\ rs'.w = rs.w /\ rs'.h = rs.h
        /\ rs'.oldw = rs.oldw /\ rs'.oldh = rs.oldh
    BY <1>0, <1>5 DEF TypeOK, ResizeCalls, ResizeClear
  <2>2. TwoBlocks'
    BY <1>0, <1>5, <2>1 DEF ResizeInv, ResizeClear, TwoBlocks, TypeOK
  <2> QED
    BY <1>0, <1>5, <2>1, <2>2 DEF ResizeInv, ResizeClear, size
<1>6. CASE StoreWidth
  <2>1. /\ rs'.pc = "height" /\ rs'.oldmem = rs.oldmem
        /\ rs'.fbmem = rs.fbmem /\ rs'.w = rs.w /\ rs'.h = rs.h
        /\ rs'.oldw = rs.oldw /\ rs'.oldh = rs.oldh
    BY <1>0, <1>6 DEF TypeOK, ResizeCalls, StoreWidth
  <2>2. TwoBlocks'
    BY <1>0, <1>6, <2>1 DEF ResizeInv, StoreWidth, TwoBlocks, heap
  <2> QED
    BY <1>0, <1>6, <2>1, <2>2 DEF ResizeInv, StoreWidth
<1>7. CASE StoreHeight
  <2>1. /\ rs'.pc = (IF Shrinking THEN "pixels" ELSE "free") /\ rs'.oldmem = rs.oldmem
        /\ rs'.fbmem = rs.fbmem /\ rs'.w = rs.w /\ rs'.h = rs.h
        /\ rs'.oldw = rs.oldw /\ rs'.oldh = rs.oldh
    BY <1>0, <1>7 DEF TypeOK, ResizeCalls, StoreHeight
  <2>2. TwoBlocks'
    BY <1>0, <1>7, <2>1 DEF ResizeInv, StoreHeight, TwoBlocks, heap
  <2> QED
    BY <1>0, <1>7, <2>1, <2>2 DEF ResizeInv, StoreHeight
<1>8. CASE StorePixels
  <2>1. /\ rs'.pc = (IF Shrinking THEN "free" ELSE "width") /\ rs'.oldmem = rs.oldmem
        /\ rs'.fbmem = rs.fbmem /\ rs'.w = rs.w /\ rs'.h = rs.h
        /\ rs'.oldw = rs.oldw /\ rs'.oldh = rs.oldh
    BY <1>0, <1>8 DEF TypeOK, ResizeCalls, StorePixels
  <2>2. TwoBlocks'
    BY <1>0, <1>8, <2>1 DEF ResizeInv, StorePixels, TwoBlocks, heap
  <2> QED
    BY <1>0, <1>8, <2>1, <2>2 DEF ResizeInv, StorePixels, size
<1>9. CASE FreeOld
  <2>1. rs'.pc = "idle" /\ UNCHANGED <<width, height, pixels>>
    BY <1>9 DEF FreeOld, IdleRs, size
  <2>2. live' = {pixels}
    BY <1>0, <1>9 DEF ResizeInv, TwoBlocks, FreeOld
  <2>3. cells'[pixels] = CellCount(width, height)
    BY <1>0, <1>9 DEF ResizeInv, TwoBlocks, FreeOld, TypeOK
  <2> QED
    BY <2>1, <2>2, <2>3 DEF ResizeInv
<1>10. CASE RxStep
  BY <1>1, <1>10 DEF RxStep, RxCommand, CheckX, CheckY, LoadWidth, LoadPixels, Store,
     StoreWild, size, heap
<1>11. CASE UNCHANGED vars
  BY <1>1, <1>11 DEF vars
<1> QED
  BY <1>2, <1>3, <1>4, <1>5, <1>6, <1>7, <1>8, <1>9, <1>10, <1>11
     DEF Next, ResizeStep, Undefined

-----------------------------------------------------------------------------
(* What an undisturbed command has checked is still in force.              *)

LEMMA FieldsAreNatural ==
  ASSUME TypeOK
  PROVE  /\ width \in Nat /\ height \in Nat
         /\ rx.x \in Nat /\ rx.y \in Nat
<1>1. Word \in Nat /\ \A c \in Coords : c \in Nat
  BY FramebufferAssumption
<1>2. rx \in Commands /\ width \in Dims /\ height \in Dims
  BY DEF TypeOK
<1>3. rx.x \in Coords \union {0} /\ rx.y \in Coords \union {0}
  BY <1>2 DEF Commands
<1>4. rx.x \in Nat /\ rx.y \in Nat
  BY <1>1, <1>3
<1>5. width \in Nat /\ height \in Nat
  BY <1>1, <1>2 DEF Dims
<1> QED
  BY <1>4, <1>5

LEMMA CommandInvStep == IInv /\ [Next]_vars => CommandInv'
<1> SUFFICES ASSUME IInv, [Next]_vars PROVE CommandInv'
  OBVIOUS
<1> USE DEF Drawing
<1>0. TypeOK /\ ResizeInv /\ CommandInv
  BY DEF IInv
<1>a. ASSUME UNCHANGED rs PROVE InTransit' = InTransit
  BY <1>a DEF InTransit, Shrinking
<1>1. CASE RxCommand
  <2>1. rx'.pc = "checkX"
    BY <1>1 DEF RxCommand, IdleRx
  <2> QED
    BY <1>1, <1>a, <2>1 DEF CommandInv, RxCommand
<1>2. CASE CheckX
  <2>1. CASE rx.x >= width
    BY <1>2, <2>1 DEF CheckX, CommandInv, IdleRx
  <2>2. CASE ~(rx.x >= width)
    <3>1. rx'.pc = "checkY" /\ rx'.w = width /\ rx'.x = rx.x
      BY <1>0, <1>2, <2>2 DEF CheckX, TypeOK, Commands
    <3>2. rx.x < width
      BY <1>0, <2>2, FieldsAreNatural
    <3> QED
      BY <1>0, <1>2, <1>a, <3>1, <3>2 DEF CheckX, CommandInv, size
  <2> QED
    BY <2>1, <2>2
<1>3. CASE CheckY
  <2>1. CASE rx.y >= height
    BY <1>3, <2>1 DEF CheckY, CommandInv, IdleRx
  <2>2. CASE ~(rx.y >= height)
    <3>1. rx'.pc = "width" /\ rx'.w = rx.w /\ rx'.x = rx.x /\ rx'.y = rx.y
      BY <1>0, <1>3, <2>2 DEF CheckY, TypeOK, Commands
    <3>2. rx.y < height
      BY <1>0, <2>2, FieldsAreNatural
    <3> QED
      BY <1>0, <1>3, <1>a, <3>1, <3>2 DEF CheckY, CommandInv, size
  <2> QED
    BY <2>1, <2>2
<1>4. CASE LoadWidth
  <2>1. /\ rx'.pc = "base" /\ rx'.w \in {rx.w, width}
        /\ rx'.x = rx.x /\ rx'.y = rx.y
    BY <1>0, <1>4 DEF LoadWidth, TypeOK, Commands
  <2> QED
    BY <1>0, <1>4, <1>a, <2>1 DEF LoadWidth, CommandInv, size
<1>5. CASE LoadPixels
  <2>1. /\ rx'.pc = "store" /\ rx'.w = rx.w /\ rx'.base = pixels
        /\ rx'.x = rx.x /\ rx'.y = rx.y
    BY <1>0, <1>5 DEF LoadPixels, TypeOK, Commands
  <2> QED
    BY <1>0, <1>5, <1>a, <2>1 DEF LoadPixels, CommandInv, size
<1>6. CASE Store
  BY <1>6 DEF Store, CommandInv, IdleRx
<1>7. CASE StoreWild
  BY <1>0, <1>7, <1>a DEF StoreWild, CommandInv, size
<1>8. CASE ResizeCall
  <2>1. rs'.pc = "malloc"
    BY <1>8 DEF ResizeCall, IdleRs
  <2> QED
    BY <1>0, <1>8, <2>1 DEF ResizeCall, CommandInv, InTransit, size
<1>9. CASE ResizeFail
  <2>1. rs'.pc = "idle"
    BY <1>9 DEF ResizeFail, IdleRs
  <2> QED
    BY <1>0, <1>9, <2>1 DEF ResizeFail, CommandInv, InTransit, size
<1>10. CASE ResizeMalloc
  <2>1. rs'.pc = "clear"
    BY <1>0, <1>10 DEF ResizeMalloc, TypeOK, ResizeCalls
  <2> QED
    BY <1>0, <1>10, <2>1 DEF ResizeMalloc, CommandInv, InTransit, size
<1>11. CASE ResizeClear
  <2>1. rs'.pc = (IF Shrinking THEN "width" ELSE "pixels") /\ Shrinking' = Shrinking
    BY <1>0, <1>11 DEF ResizeClear, TypeOK, ResizeCalls, Shrinking
  <2>2. ~InTransit'
    BY <2>1 DEF InTransit
  <2> QED
    BY <1>0, <1>11, <2>2 DEF ResizeClear, CommandInv, size
<1>12. CASE StoreWidth
  BY <1>12 DEF StoreWidth, CommandInv
<1>13. CASE StoreHeight
  BY <1>13 DEF StoreHeight, CommandInv
<1>14. CASE StorePixels
  BY <1>14 DEF StorePixels, CommandInv
<1>15. CASE FreeOld
  <2>1. rs'.pc = "idle"
    BY <1>15 DEF FreeOld, IdleRs
  <2> QED
    BY <1>0, <1>15, <2>1 DEF FreeOld, CommandInv, InTransit, size
<1>16. CASE UNCHANGED vars
  BY <1>0, <1>16, <1>a DEF vars, CommandInv
<1> QED
  BY <1>1, <1>2, <1>3, <1>4, <1>5, <1>6, <1>7, <1>8, <1>9, <1>10, <1>11, <1>12,
     <1>13, <1>14, <1>15, <1>16 DEF Next, RxStep, ResizeStep, Undefined

THEOREM InvariantHolds == Spec => []IInv
<1>1. IInv /\ [Next]_vars => IInv'
  BY TypeStep, ResizeInvStep, CommandInvStep DEF IInv
<1> QED
  BY InitInv, <1>1, PTL DEF Spec

-----------------------------------------------------------------------------
(* The properties of the framebuffer.                                      *)

(* Every field of struct fb keeps its type, every block its contents, for  *)
(* any sizes and any word length.                                          *)
THEOREM TypeCorrect == Spec => []TypeOK
BY InvariantHolds, PTL DEF IInv

(* fb_resize leaks no block, frees none twice and leaves fields that       *)
(* agree, whether malloc fails or not.                                     *)
THEOREM RestingPicture == Spec => []RestingPictureIsExact
<1>1. IInv => RestingPictureIsExact
  BY DEF IInv, ResizeInv, OneBlock, RestingPictureIsExact
<1> QED
  BY InvariantHolds, <1>1, PTL

(* The order of the stores in fb_resize keeps the announced size inside    *)
(* the block whenever both dimensions change the same way.                 *)
LEMMA AnnouncedFits == IInv => AnnouncedSizeFits
<1> SUFFICES ASSUME IInv, rs.pc # "idle",
                    Comparable(rs.oldw, rs.oldh, rs.w, rs.h),
                    Exact(rs.oldw, rs.oldh), Exact(rs.w, rs.h)
             PROVE  pixels \in live /\ width * height <= cells[pixels]
  BY DEF AnnouncedSizeFits
<1> DEFINE old == rs.oldw * rs.oldh
           new == rs.w * rs.h
           mixed == rs.w * rs.oldh
<1>1. rs \in ResizeCalls /\ ResizeInv
  BY DEF IInv, TypeOK
<1>2. rs.oldw \in Nat /\ rs.oldh \in Nat /\ rs.w \in Nat /\ rs.h \in Nat
  BY <1>1 DEF ResizeCalls, Dims
<1>3. CellCount(rs.oldw, rs.oldh) = old /\ CellCount(rs.w, rs.h) = new
  BY <1>2, CellCountType
<1>4. Shrinking <=> old > new
  BY <1>3 DEF Shrinking
<1>5. old \in Nat /\ new \in Nat /\ mixed \in Nat
  BY <1>2
<1>6. CASE rs.oldw <= rs.w /\ rs.oldh <= rs.h
  <2>1. old <= mixed /\ mixed <= new
    BY <1>2, <1>6, TimesMonotone
  <2> QED
    BY <1>1, <1>3, <1>4, <1>5, <2>1
       DEF ResizeInv, ResizeCalls, OneBlock, OldSize, NewSize, TwoBlocks
<1>7. CASE rs.w <= rs.oldw /\ rs.h <= rs.oldh
  <2>1. new <= mixed /\ mixed <= old
    BY <1>2, <1>7, TimesMonotone
  <2> QED
    BY <1>1, <1>3, <1>4, <1>5, <2>1
       DEF ResizeInv, ResizeCalls, OneBlock, OldSize, NewSize, TwoBlocks
<1> QED
  BY <1>6, <1>7 DEF Comparable

THEOREM AnnouncedSize == Spec => []AnnouncedSizeFits
BY InvariantHolds, AnnouncedFits, PTL

(* Outside of a switch of the size fb->pixels is live and has the size     *)
(* that width and height announce.                                         *)
LEMMA SettledPicture ==
  ASSUME IInv, ~InTransit
  PROVE  pixels \in live /\ cells[pixels] = CellCount(width, height)
<1>1. rs \in ResizeCalls /\ ResizeInv
  BY DEF IInv, TypeOK
<1> QED
  BY <1>1 DEF InTransit, ResizeInv, ResizeCalls, OneBlock, OldSize, NewSize, TwoBlocks

(* A command that overlaps no switch of the size stays inside the picture. *)
LEMMA UndisturbedFits == IInv => UndisturbedStoreFits
<1> SUFFICES ASSUME IInv, rx.pc = "store", ~disturbed, Exact(width, height)
             PROVE  StoreFits
  BY DEF UndisturbedStoreFits
<1>1. /\ ~InTransit /\ rx.base = pixels /\ rx.w = width
      /\ rx.x < width /\ rx.y < height
  BY DEF IInv, CommandInv, Drawing
<1>2. pixels \in live /\ cells[pixels] = CellCount(width, height)
  BY <1>1, SettledPicture
<1>3. width \in Nat /\ height \in Nat /\ rx.x \in Nat /\ rx.y \in Nat
  BY FieldsAreNatural DEF IInv
<1>4. cells[pixels] = width * height
  BY <1>2, <1>3, CellCountType
<1> DEFINE i == rx.y * width + rx.x
<1>5. i \in Nat /\ i < width * height
  BY <1>1, <1>3, PositionFits
<1>6. i < Word
  BY <1>3, <1>5, FramebufferAssumption DEF Exact
<1>7. i % Word = i
  <2> HIDE DEF i
  <2> QED
    BY <1>5, <1>6, FramebufferAssumption
<1>8. Target = i
  BY <1>1, <1>7 DEF Target, Index
<1> QED
  BY <1>1, <1>2, <1>4, <1>5, <1>8 DEF StoreFits

THEOREM UndisturbedStore == Spec => []UndisturbedStoreFits
BY InvariantHolds, UndisturbedFits, PTL

(* Without an SDL window, and for a picture whose size does not wrap, no   *)
(* store ever leaves the picture.                                          *)
THEOREM HeadlessIsSafe ==
  ASSUME Resizes = {},
         \A s \in InitSizes : Exact(s[1], s[2])
  PROVE  Spec => []NoWildStore
<1> DEFINE Still == rs.pc = "idle" /\ ~disturbed /\ Exact(width, height) /\ ~wild
<1>1. Init => Still
  BY DEF Init, IdleRs
<1>2. IInv /\ Still /\ [Next]_vars => Still'
  <2> SUFFICES ASSUME IInv, Still, [Next]_vars PROVE Still'
    OBVIOUS
  <2>1. ~ResizeStep
    BY DEF ResizeStep, ResizeCall, ResizeFail, ResizeMalloc, ResizeClear,
       StoreWidth, StoreHeight, StorePixels, FreeOld
  <2>2. ~StoreWild
    BY UndisturbedFits DEF UndisturbedStoreFits, StoreWild
  <2>3. CASE RxCommand
    BY <2>3 DEF RxCommand, InTransit, Replacing, Exact, size
  <2>4. CASE CheckX \/ CheckY \/ LoadWidth \/ LoadPixels \/ Store
    BY <2>4 DEF CheckX, CheckY, LoadWidth, LoadPixels, Store, Exact, size
  <2>5. CASE UNCHANGED vars
    BY <2>5 DEF vars, Exact
  <2> QED
    BY <2>1, <2>2, <2>3, <2>4, <2>5 DEF Next, RxStep, Undefined
<1>3. Still => NoWildStore
  BY DEF NoWildStore
<1> QED
  BY InvariantHolds, <1>1, <1>2, <1>3, PTL DEF Spec

-----------------------------------------------------------------------------
(* Framebuffer implements Wall, when no product of sizes wraps around.     *)

(* Two positions of a picture with the same index are the same.            *)
LEMMA IndexInjective ==
  ASSUME NEW w \in Nat, NEW x \in Nat, NEW y \in Nat, NEW u \in Nat, NEW v \in Nat,
         x < w, u < w, y * w + x = v * w + u
  PROVE  x = u /\ y = v
<1>1. ASSUME NEW a \in Nat, NEW b \in Nat, NEW c \in Nat, NEW d \in Nat, c < w, a < b
      PROVE  a * w + c < b * w + d
  <2>1. a * w + c < w * b /\ a * w + c \in Nat
    BY <1>1, PositionFits
  <2>2. w * b = b * w /\ b * w \in Nat
    OBVIOUS
  <2> QED
    BY <2>1, <2>2
<1>2. ~(y < v) /\ ~(v < y)
  BY <1>1
<1>3. y = v
  BY <1>2
<1>4. v * w \in Nat
  OBVIOUS
<1> QED
  BY <1>3, <1>4

(* Each cell of a picture belongs to a position.                           *)
LEMMA IndexSurjective ==
  ASSUME NEW w \in Nat, NEW h \in Nat, NEW n \in Nat, n < w * h
  PROVE  \E x \in 0 .. w - 1, y \in 0 .. h - 1 : n = y * w + x
<1>1. w > 0
  BY w = 0 => w * h = 0
<1> DEFINE x == n % w
           y == n \div w
<1>2. x \in Nat /\ x < w /\ y \in Nat /\ n = w * y + x
  BY <1>1
<1> HIDE DEF x, y
<1>3. w * y = y * w /\ y * w \in Nat
  BY <1>2
<1>4. y < h
  <2> SUFFICES ASSUME h <= y PROVE FALSE
    BY <1>2
  <2>1. w * h <= w * y
    BY <1>2, TimesMonotone
  <2>2. w * h \in Nat
    OBVIOUS
  <2> QED
    BY <1>2, <1>3, <2>1, <2>2
<1>5. x \in 0 .. w - 1 /\ y \in 0 .. h - 1 /\ n = y * w + x
  BY <1>2, <1>3, <1>4
<1> QED
  BY <1>5

(* The index of a position inside of a picture that does not wrap.         *)
LEMMA IndexInside ==
  ASSUME NEW w \in Nat, NEW h \in Nat, Exact(w, h),
         NEW x \in 0 .. w - 1, NEW y \in 0 .. h - 1
  PROVE  /\ Index(x, y, w) = y * w + x
         /\ Index(x, y, w) \in 0 .. CellCount(w, h) - 1
<1> DEFINE i == y * w + x
<1>1. i \in Nat /\ i < w * h
  BY PositionFits
<1>2. CellCount(w, h) = w * h /\ w * h \in Nat /\ w * h < Word
  BY CellCountType DEF Exact
<1>3. i % Word = i
  <2> HIDE DEF i
  <2> QED
    BY <1>1, <1>2, FramebufferAssumption
<1> QED
  BY <1>1, <1>2, <1>3 DEF Index

\* The sizes the picture may ever have do not wrap around.
Unwrapped ==
  \A s \in InitSizes \union Resizes : Exact(s[1], s[2])

\* All sizes in use multiply without wrapping around.
ExactInv ==
  /\ rs.pc = "idle" => Exact(width, height)
  /\ rs.pc # "idle" => Exact(rs.oldw, rs.oldh) /\ Exact(rs.w, rs.h)

\* The new block stays blank until it is the picture.
BlankInv ==
  rs.pc \in {"width", "height", "pixels"} /\ ~disturbed =>
    \A i \in 0 .. cells[rs.fbmem] - 1 : words[rs.fbmem][i] = Blank

WInv == IInv /\ ExactInv /\ BlankInv


(* Sizes come from InitSizes and Resizes only.                             *)
LEMMA ExactStep ==
  ASSUME Unwrapped
  PROVE  /\ Init => ExactInv
         /\ IInv /\ ExactInv /\ [Next]_vars => ExactInv'
<1>1. Init => ExactInv
  BY DEF Init, IdleRs, ExactInv, Unwrapped
<1>2. ASSUME IInv, ExactInv, [Next]_vars PROVE ExactInv'
  <2>0. rs \in ResizeCalls /\ ResizeInv
    BY <1>2 DEF IInv, TypeOK
  <2>1. CASE UNCHANGED <<width, height, rs>>
    BY <1>2, <2>1 DEF ExactInv, Exact
  <2>2. CASE ResizeCall
    <3>1. PICK new \in Resizes :
            rs' = [IdleRs EXCEPT !.pc = "malloc", !.w = new[1], !.h = new[2],
                                 !.oldw = width, !.oldh = height]
      BY <2>2 DEF ResizeCall
    <3>2. /\ rs'.pc = "malloc" /\ rs'.w = new[1] /\ rs'.h = new[2]
          /\ rs'.oldw = width /\ rs'.oldh = height
      BY <3>1 DEF IdleRs
    <3>3. Exact(width, height) /\ Exact(new[1], new[2])
      BY <1>2, <2>2 DEF ResizeCall, ExactInv, Unwrapped
    <3> QED
      BY <3>2, <3>3 DEF ExactInv, Exact
  <2>3. CASE ResizeFail
    <3>1. rs'.pc = "idle" /\ width' = rs.oldw /\ height' = rs.oldh /\ rs.pc = "malloc"
      BY <2>0, <2>3 DEF ResizeFail, IdleRs, size, ResizeInv, OldSize
    <3> QED
      BY <1>2, <3>1 DEF ExactInv, Exact
  <2>4. CASE FreeOld
    <3>1. rs'.pc = "idle" /\ width' = rs.w /\ height' = rs.h /\ rs.pc = "free"
      BY <2>0, <2>4 DEF FreeOld, IdleRs, size, ResizeInv, NewSize
    <3> QED
      BY <1>2, <3>1 DEF ExactInv, Exact
  <2>5. CASE ResizeMalloc \/ ResizeClear \/ StoreWidth \/ StoreHeight \/ StorePixels
    <3>1. /\ rs.pc # "idle" /\ rs'.pc # "idle"
          /\ rs'.w = rs.w /\ rs'.h = rs.h /\ rs'.oldw = rs.oldw /\ rs'.oldh = rs.oldh
      BY <2>0, <2>5 DEF ResizeCalls, ResizeMalloc, ResizeClear, StoreWidth, StoreHeight,
         StorePixels
    <3> QED
      BY <1>2, <3>1 DEF ExactInv, Exact
  <2>6. CASE RxStep
    BY <2>1, <2>6 DEF RxStep, RxCommand, CheckX, CheckY, LoadWidth, LoadPixels, Store,
       StoreWild, size
  <2> QED
    BY <1>2, <2>1, <2>2, <2>3, <2>4, <2>5, <2>6 DEF Next, ResizeStep, Undefined, vars
<1> QED
  BY <1>1, <1>2

(* Nobody draws into a block before it is published, except a command that *)
(* overlaps the switch.                                                    *)
LEMMA BlankStep == IInv /\ BlankInv /\ [Next]_vars => BlankInv'
<1> SUFFICES ASSUME IInv, BlankInv, [Next]_vars PROVE BlankInv'
  OBVIOUS
<1>0. TypeOK /\ ResizeInv /\ CommandInv
  BY DEF IInv
<1>1. CASE UNCHANGED <<cells, words, rs, disturbed>>
  BY <1>1 DEF BlankInv
<1>2. CASE RxCommand
  <2>1. UNCHANGED <<cells, words, rs>> /\ disturbed' = (InTransit \/ (Replacing /\ disturbed))
    BY <1>2 DEF RxCommand, heap
  <2> QED
    BY <2>1 DEF BlankInv, Replacing
<1>3. CASE Store
  <2> SUFFICES ASSUME rs.pc \in {"width", "height", "pixels"}, ~disturbed,
                      NEW i \in 0 .. cells[rs.fbmem] - 1
               PROVE  words'[rs.fbmem][i] = Blank
    BY <1>3 DEF Store, BlankInv
  <2>1. ~InTransit /\ rx.base = pixels
    BY <1>0, <1>3 DEF CommandInv, Drawing, Store
  <2>2. pixels # rs.fbmem /\ rs.fbmem \in Blocks
    BY <1>0, <2>1 DEF ResizeInv, TwoBlocks, InTransit
  <2>3. words'[rs.fbmem] = words[rs.fbmem]
    BY <1>0, <1>3, <2>1, <2>2 DEF Store, TypeOK
  <2> QED
    BY <2>3 DEF BlankInv
<1>4. CASE ResizeCall \/ ResizeFail \/ ResizeMalloc \/ FreeOld
  <2>1. CASE ResizeMalloc
    BY <1>0, <2>1 DEF ResizeMalloc, TypeOK, ResizeCalls, BlankInv
  <2>2. CASE ResizeCall
    BY <2>2 DEF ResizeCall, IdleRs, BlankInv
  <2>3. CASE ResizeFail \/ FreeOld
    BY <2>3 DEF ResizeFail, FreeOld, IdleRs, BlankInv
  <2> QED
    BY <1>4, <2>1, <2>2, <2>3
<1>5. CASE ResizeClear
  <2>1. rs'.fbmem = rs.fbmem /\ rs.fbmem \in Blocks /\ cells' = cells
    BY <1>0, <1>5 DEF ResizeClear, ResizeInv, TypeOK, ResizeCalls
  <2>2. words'[rs.fbmem] = Filled(cells[rs.fbmem], Blank)
    BY <1>0, <1>5, <2>1 DEF ResizeClear, TypeOK
  <2> QED
    BY <2>1, <2>2 DEF BlankInv, Filled
<1>6. CASE StoreWidth \/ StoreHeight \/ StorePixels
  <2>1. /\ rs.pc \in {"width", "height", "pixels"} /\ rs'.fbmem = rs.fbmem
        /\ UNCHANGED <<cells, words>> /\ disturbed' = (disturbed \/ Drawing)
    BY <1>0, <1>6 DEF StoreWidth, StoreHeight, StorePixels, heap, TypeOK, ResizeCalls
  <2> QED
    BY <2>1 DEF BlankInv
<1> QED
  BY <1>1, <1>2, <1>3, <1>4, <1>5, <1>6
     DEF Next, RxStep, CheckX, CheckY, LoadWidth, LoadPixels, StoreWild, ResizeStep, Undefined,
         vars, heap

(* The invariant under which steps are mapped.                             *)
LEMMA WInvHolds ==
  ASSUME Unwrapped
  PROVE  Spec => []WInv
<1>1. Init => WInv
  <2>1. Init => BlankInv
    BY DEF Init, IdleRs, BlankInv
  <2> QED
    BY InitInv, ExactStep, <2>1 DEF WInv
<1>2. WInv /\ [Next]_vars => WInv'
  BY TypeStep, ResizeInvStep, CommandInvStep, ExactStep, BlankStep DEF WInv, IInv
<1> QED
  BY <1>1, <1>2, PTL DEF Spec

(* The abstract picture is a live block of exactly its size.               *)
LEMMA WallPicture ==
  ASSUME WInv
  PROVE  /\ WallSize \in Nat \X Nat /\ Exact(WallSize[1], WallSize[2])
         /\ WallBlock \in Blocks
         /\ cells[WallBlock] = CellCount(WallSize[1], WallSize[2])
<1>1. TypeOK /\ ResizeInv /\ ExactInv /\ rs \in ResizeCalls
  BY DEF WInv, IInv, TypeOK
<1>2. CASE InTransit
  <2>1. rs.pc \in {"width", "height", "pixels"}
    BY <1>2 DEF InTransit
  <2>2. /\ rs.oldw \in Nat /\ rs.oldh \in Nat /\ rs.oldmem \in Blocks
        /\ cells[rs.oldmem] = CellCount(rs.oldw, rs.oldh) /\ Exact(rs.oldw, rs.oldh)
    BY <1>1, <2>1 DEF ResizeInv, TwoBlocks, ExactInv, ResizeCalls, Dims
  <2> QED
    BY <1>2, <2>2 DEF WallSize, WallBlock
<1>3. CASE ~InTransit
  <2>1. cells[pixels] = CellCount(width, height) /\ pixels \in Blocks
    BY <1>1, <1>3, SettledPicture DEF WInv, TypeOK
  <2>2. width \in Nat /\ height \in Nat
    BY <1>1, FieldsAreNatural
  <2>3. Exact(width, height)
    BY <1>1, <1>3 DEF ExactInv, ResizeInv, InTransit, OldSize, NewSize, ResizeCalls
  <2> QED
    BY <1>3, <2>1, <2>2, <2>3 DEF WallSize, WallBlock, size
<1> QED
  BY <1>2, <1>3


(* What the mapping makes of a position.                                   *)
LEMMA WallCell ==
  ASSUME WInv, NEW p \in Promise!Positions(WallSize)
  PROVE  /\ WallCanvas[p] = words[WallBlock][Index(p[1], p[2], WallSize[1])]
         /\ Index(p[1], p[2], WallSize[1]) \in 0 .. cells[WallBlock] - 1
         /\ Index(p[1], p[2], WallSize[1]) = p[2] * WallSize[1] + p[1]
<1>1. p \in (0 .. WallSize[1] - 1) \X (0 .. WallSize[2] - 1)
  BY DEF Promise!Positions
<1>2. p[1] \in 0 .. WallSize[1] - 1 /\ p[2] \in 0 .. WallSize[2] - 1
  BY <1>1
<1> QED
  BY <1>1, <1>2, WallPicture, IndexInside DEF WallCanvas

\* WallPicture and WallCell as one formula, for the state after a step.
WellMapped ==
  /\ WallSize \in Nat \X Nat
  /\ \A p \in Promise!Positions(WallSize) :
       /\ WallCanvas[p] = words[WallBlock][Index(p[1], p[2], WallSize[1])]
       /\ Index(p[1], p[2], WallSize[1]) \in 0 .. cells[WallBlock] - 1

(* It holds after a step as well.                                          *)
LEMMA WellMappedNext == WInv' => WellMapped'
<1>1. WInv => WellMapped
  BY WallPicture, WallCell DEF WellMapped
<1> QED
  BY <1>1, PTL

(* A step that changes neither the size nor the block changes no picture.  *)
LEMMA WallStays ==
  ASSUME WallSize' = WallSize, words'[WallBlock'] = words[WallBlock],
         pixelCounter' = pixelCounter, disturbed' \in BOOLEAN
  PROVE  Promise!BeginOrEndOverlap
<1>1. WallCanvas' = WallCanvas
  BY DEF WallCanvas
<1> QED
  BY <1>1 DEF Promise!BeginOrEndOverlap, Promise!Overlap

(* The first picture is blank.                                             *)
LEMMA WallStart ==
  ASSUME Unwrapped, Init
  PROVE  Promise!WallInit
<1>1. WInv
  BY InitInv, ExactStep DEF WInv, BlankInv, Init, IdleRs
<1>2. WallSize = <<width, height>> /\ WallBlock = pixels
  BY DEF Init, IdleRs, WallSize, WallBlock, InTransit, size
<1>3. width \in Nat \ {0} /\ height \in Nat \ {0}
  BY FramebufferAssumption DEF Init
<1>4. WallCanvas = Promise!BlankCanvas(WallSize)
  <2>1. ASSUME NEW p \in Promise!Positions(WallSize) PROVE WallCanvas[p] = Blank
    <3>1. pixels \in Blocks /\ words[pixels] = Filled(cells[pixels], Blank)
      BY DEF Init
    <3> QED
      BY <1>1, <1>2, <3>1, WallCell DEF Filled
  <2> QED
    BY <2>1 DEF WallCanvas, Promise!BlankCanvas, Promise!Positions
<1> QED
  BY <1>2, <1>3, <1>4 DEF Promise!WallInit, Init

(* A store that fits recolours one position, or none.                      *)
LEMMA WallStore ==
  ASSUME WInv, Store
  PROVE  Promise!WallNext
<1>0. TypeOK /\ rx \in Commands /\ words \in [Blocks -> Contents]
  BY DEF WInv, IInv, TypeOK
<1>1. WallSize' = WallSize /\ WallBlock' = WallBlock
  BY DEF Store, WallSize, WallBlock, InTransit, Shrinking, size
<1>2. pixelCounter' = (pixelCounter + 1) % CounterWord /\ disturbed' \in BOOLEAN
  BY <1>0 DEF Store, TypeOK
<1>3. words' = [words EXCEPT ![rx.base] = [@ EXCEPT ![Target] = rx.pixel]]
  BY DEF Store
<1>4. rx.pixel \in Pixels
  BY <1>0 DEF Commands
<1> DEFINE w == WallSize[1]
           h == WallSize[2]
<1>5. /\ w \in Nat /\ h \in Nat /\ Exact(w, h) /\ WallSize = <<w, h>>
      /\ WallBlock \in Blocks /\ cells[WallBlock] = CellCount(w, h)
      /\ CellCount(w, h) = w * h
  BY WallPicture, CellCountType
<1>6. words[WallBlock] \in [0 .. cells[WallBlock] - 1 -> Pixels]
  BY <1>0, <1>5 DEF TypeOK
<1>7. ASSUME NEW p \in Promise!Positions(WallSize), rx.base = WallBlock,
             Target = Index(p[1], p[2], w)
      PROVE  WallCanvas' = [WallCanvas EXCEPT ![p] = rx.pixel]
  <2>1. ASSUME NEW q \in Promise!Positions(WallSize)
        PROVE  words'[WallBlock][Index(q[1], q[2], w)]
                 = IF q = p THEN rx.pixel ELSE WallCanvas[q]
    <3>1. /\ q = <<q[1], q[2]>> /\ p = <<p[1], p[2]>>
          /\ q[1] \in Nat /\ q[2] \in Nat /\ p[1] \in Nat /\ p[2] \in Nat
          /\ q[1] < w /\ p[1] < w
      BY <1>5 DEF Promise!Positions
    <3>2. Index(q[1], q[2], w) = Target => q = p
      <4>1. /\ Index(q[1], q[2], w) = q[2] * w + q[1]
            /\ Index(p[1], p[2], w) = p[2] * w + p[1]
        BY WallCell
      <4>2. q[2] * w + q[1] = p[2] * w + p[1] => q[1] = p[1] /\ q[2] = p[2]
        BY <1>5, <3>1, IndexInjective
      <4> QED
        BY <1>7, <3>1, <4>1, <4>2
    <3>3. /\ WallCanvas[q] = words[WallBlock][Index(q[1], q[2], w)]
          /\ Index(q[1], q[2], w) \in 0 .. cells[WallBlock] - 1
      BY WallCell
    <3>4. words'[WallBlock] = [words[WallBlock] EXCEPT ![Target] = rx.pixel]
      BY <1>0, <1>3, <1>5, <1>7
    <3> QED
      BY <1>6, <1>7, <3>2, <3>3, <3>4
  <2>2. WallCanvas' = [q \in Promise!Positions(WallSize) |->
                         words'[WallBlock][Index(q[1], q[2], w)]]
    BY <1>1 DEF WallCanvas, Promise!Positions
  <2>3. DOMAIN WallCanvas = Promise!Positions(WallSize)
    BY DEF WallCanvas, Promise!Positions
  <2> QED
    BY <2>1, <2>2, <2>3
<1>8. CASE ~disturbed
  <2> DEFINE p == <<rx.x, rx.y>>
  <2>1. /\ ~InTransit /\ rx.base = pixels /\ rx.w = width
        /\ rx.x < width /\ rx.y < height
    BY <1>8 DEF WInv, IInv, CommandInv, Drawing, Store
  <2>2. WallBlock = pixels /\ w = width /\ h = height
    BY <2>1 DEF WallBlock, WallSize, size
  <2>3. rx.x \in Nat /\ rx.y \in Nat
    BY <1>0, FieldsAreNatural
  <2>4. p \in Promise!Positions(WallSize) /\ p[1] = rx.x /\ p[2] = rx.y
    BY <1>5, <2>1, <2>2, <2>3 DEF Promise!Positions
  <2>5. Target = Index(p[1], p[2], w)
    BY <2>1, <2>2 DEF Target
  <2>6. Promise!Paint(p, rx.pixel)
    BY <1>1, <1>2, <1>7, <1>8, <2>1, <2>2, <2>4, <2>5 DEF Promise!Paint, Promise!Overlap
  <2> QED
    BY <1>4, <2>4, <2>6 DEF Promise!WallNext
<1>9. CASE disturbed /\ rx.base = WallBlock
  <2>1. Target \in Nat /\ Target < w * h
    <3>1. Target < cells[WallBlock] /\ rx.x \in Nat /\ rx.y \in Nat /\ rx.w \in Nat
      BY <1>0, <1>9, FieldsAreNatural DEF Store, StoreFits, Commands, Dims
    <3>2. Target \in Nat
      <4> DEFINE i == rx.y * rx.w + rx.x
      <4>1. i \in Nat
        BY <3>1
      <4> HIDE DEF i
      <4>2. i % Word \in Nat
        BY <4>1, FramebufferAssumption
      <4> QED
        BY <4>2 DEF Target, Index, i
    <3> QED
      BY <1>5, <3>1, <3>2
  <2>2. PICK x \in 0 .. w - 1, y \in 0 .. h - 1 : Target = y * w + x
    BY <1>5, <2>1, IndexSurjective
  <2> DEFINE p == <<x, y>>
  <2>3. p \in Promise!Positions(WallSize) /\ p[1] = x /\ p[2] = y
    BY <1>5 DEF Promise!Positions
  <2>4. Target = Index(p[1], p[2], w)
    BY <1>5, <2>2, <2>3, IndexInside
  <2>5. WallCanvas' = [WallCanvas EXCEPT ![p] = rx.pixel]
    BY <1>7, <1>9, <2>3, <2>4
  <2> HIDE DEF p
  <2> DEFINE Recoloured(q, pixel) == [WallCanvas EXCEPT ![q] = pixel]
  <2>6. WallCanvas' = Recoloured(p, rx.pixel)
    BY <2>5
  <2>7. WallCanvas' \in { Recoloured(q, pixel) :
                            q \in Promise!Positions(WallSize), pixel \in Pixels }
    <3> HIDE DEF Recoloured
    <3> QED
      BY <1>4, <2>3, <2>6
  <2>8. Promise!PaintAstray
    BY <1>1, <1>2, <1>9, <2>7 DEF Promise!PaintAstray, Promise!Overlap
  <2> QED
    BY <2>8 DEF Promise!WallNext
<1>10. CASE disturbed /\ rx.base # WallBlock
  <2>1. words'[WallBlock] = words[WallBlock]
    BY <1>0, <1>3, <1>5, <1>10
  <2>2. WallCanvas' = WallCanvas
    BY <1>1, <2>1 DEF WallCanvas
  <2>3. Promise!PaintAstray
    BY <1>1, <1>2, <1>10, <2>2 DEF Promise!PaintAstray, Promise!Overlap
  <2> QED
    BY <2>3 DEF Promise!WallNext
<1> QED
  BY <1>0, <1>8, <1>9, <1>10 DEF TypeOK


(* The last of the three stores publishes the new picture.                 *)
LEMMA WallSwitch ==
  ASSUME WInv, WInv', InTransit, ~InTransit',
         StoreHeight \/ StorePixels
  PROVE  Promise!Resize
<1>0. /\ rs \in ResizeCalls /\ ResizeInv
      /\ rs' \in ResizeCalls /\ ResizeInv' /\ TypeOK' /\ disturbed' \in BOOLEAN
  BY DEF WInv, IInv, TypeOK
<1>1. /\ rs.pc \in {"width", "height", "pixels"} /\ rs'.fbmem = rs.fbmem
      /\ UNCHANGED <<cells, words, pixelCounter>>
  BY <1>0 DEF StoreHeight, StorePixels, heap, ResizeCalls
<1>2. rs'.pc = "free" /\ pixels' = rs'.fbmem
  <2>1. rs'.pc = "free"
    BY <1>0 DEF InTransit, StoreHeight, StorePixels, Shrinking, ResizeCalls
  <2> QED
    BY <1>0, <2>1 DEF ResizeInv
<1>3. WallBlock' = rs.fbmem /\ WallSize' \in Nat \X Nat
  BY <1>1, <1>2, WellMappedNext DEF WallBlock, WellMapped, InTransit
<1>4. ASSUME NEW p \in Promise!Positions(WallSize')
      PROVE  /\ WallCanvas'[p] \in Pixels
             /\ ~disturbed => WallCanvas'[p] = Blank
  <2> DEFINE i == Index(p[1], p[2], WallSize'[1])
  <2>1. /\ WallCanvas'[p] = words'[WallBlock'][i]
        /\ i \in 0 .. cells'[WallBlock'] - 1
    BY WellMappedNext DEF WellMapped
  <2>2. WallCanvas'[p] = words[rs.fbmem][i] /\ i \in 0 .. cells[rs.fbmem] - 1
    BY <1>1, <1>3, <2>1
  <2>3. words'[rs.fbmem] \in [0 .. cells'[rs.fbmem] - 1 -> Pixels]
    BY <1>0, <1>2, <1>1 DEF TypeOK
  <2>4. ~disturbed => words[rs.fbmem][i] = Blank
    BY <1>1, <2>2 DEF WInv, BlankInv
  <2> QED
    BY <1>1, <2>2, <2>3, <2>4
<1>5. WallCanvas' = [p \in Promise!Positions(WallSize') |-> WallCanvas'[p]]
  BY DEF WallCanvas, Promise!Positions
<1>6. WallCanvas' \in [Promise!Positions(WallSize') -> Pixels]
  BY <1>4, <1>5
<1>7. ~disturbed => WallCanvas' = Promise!BlankCanvas(WallSize')
  BY <1>4, <1>5 DEF Promise!BlankCanvas
<1> QED
  BY <1>0, <1>1, <1>3, <1>6, <1>7 DEF Promise!Resize, Promise!Overlap

(* Every step is a step of the wall, or none.                              *)
LEMMA WallStep ==
  ASSUME WInv, WInv', [Next]_vars
  PROVE  [Promise!WallNext]_Promise!wallVars
<1>0. /\ TypeOK /\ ResizeInv /\ rs \in ResizeCalls
      /\ rs' \in ResizeCalls /\ ResizeInv' /\ disturbed' \in BOOLEAN
  BY DEF WInv, IInv, TypeOK
<1>1. Promise!BeginOrEndOverlap => Promise!WallNext
  BY DEF Promise!WallNext
<1>2. CASE UNCHANGED vars
  <2>1. WallSize' = WallSize /\ WallCanvas' = WallCanvas
        /\ pixelCounter' = pixelCounter /\ disturbed' = disturbed
    BY <1>2 DEF vars, WallSize, WallCanvas, WallBlock, InTransit, Shrinking, size
  <2> QED
    BY <2>1 DEF Promise!wallVars
<1>3. CASE RxCommand \/ CheckX \/ CheckY \/ LoadWidth \/ LoadPixels \/ StoreWild
  <2>1. UNCHANGED <<width, height, pixels, pixelCounter, words, rs>>
    BY <1>3 DEF RxCommand, CheckX, CheckY, LoadWidth, LoadPixels, StoreWild, size, heap
  <2>2. WallSize' = WallSize /\ WallBlock' = WallBlock
    BY <2>1 DEF WallSize, WallBlock, InTransit, Shrinking, size
  <2> QED
    BY <1>0, <1>1, <2>1, <2>2, WallStays
<1>4. CASE Store
  BY <1>4, WallStore
<1>5. CASE ResizeCall \/ ResizeFail \/ ResizeMalloc \/ ResizeClear \/ FreeOld
  <2>1. ~InTransit /\ UNCHANGED <<size, pixels, pixelCounter>>
    BY <1>5 DEF ResizeCall, ResizeFail, ResizeMalloc, ResizeClear, FreeOld, InTransit, size
  <2>2. ~InTransit'
    <3>1. CASE ResizeCall \/ ResizeFail \/ FreeOld
      <4>1. rs'.pc \in {"malloc", "idle"}
        <5>1. CASE ResizeCall
          BY <5>1 DEF ResizeCall, IdleRs
        <5>2. CASE ResizeFail \/ FreeOld
          BY <5>2 DEF ResizeFail, FreeOld, IdleRs
        <5> QED
          BY <3>1, <5>1, <5>2
      <4> QED
        BY <4>1 DEF InTransit
    <3>2. CASE ResizeMalloc
      BY <1>0, <3>2 DEF ResizeMalloc, InTransit, ResizeCalls
    <3>3. CASE ResizeClear
      <4>1. rs'.pc = (IF Shrinking THEN "width" ELSE "pixels") /\ Shrinking' = Shrinking
        BY <1>0, <3>3 DEF ResizeClear, ResizeCalls, Shrinking
      <4> QED
        BY <4>1 DEF InTransit
    <3> QED
      BY <1>5, <3>1, <3>2, <3>3
  <2>3. words'[pixels] = words[pixels]
    <3>1. CASE ResizeCall \/ ResizeFail
      BY <3>1 DEF ResizeCall, ResizeFail, heap
    <3>2. CASE ResizeMalloc
      BY <1>0, <3>2 DEF ResizeMalloc, ResizeInv, OneBlock, TypeOK
    <3>3. CASE ResizeClear
      BY <1>0, <3>3 DEF ResizeClear, ResizeInv, TypeOK
    <3>4. CASE FreeOld
      BY <1>0, <3>4 DEF FreeOld, ResizeInv, TwoBlocks, TypeOK
    <3> QED
      BY <1>5, <3>1, <3>2, <3>3, <3>4
  <2>4. WallSize' = WallSize /\ WallBlock' = pixels /\ WallBlock = pixels
    BY <2>1, <2>2 DEF WallSize, WallBlock, size
  <2> QED
    BY <1>0, <1>1, <2>1, <2>3, <2>4, WallStays
<1>6. CASE StoreWidth \/ StoreHeight \/ StorePixels
  <2>1. /\ rs'.oldw = rs.oldw /\ rs'.oldh = rs.oldh /\ rs'.oldmem = rs.oldmem
        /\ UNCHANGED <<words, pixelCounter>> /\ Shrinking' = Shrinking
        /\ rs.pc \in {"width", "height", "pixels"}
    BY <1>0, <1>6 DEF StoreWidth, StoreHeight, StorePixels, heap, ResizeCalls, Shrinking
  <2>2. WallSize = <<rs.oldw, rs.oldh>> /\ WallBlock = rs.oldmem
    BY <1>0, <2>1 DEF WallSize, WallBlock, InTransit, ResizeInv, OldSize, size
  <2>3. CASE InTransit'
    <3>1. WallSize' = WallSize /\ WallBlock' = WallBlock
      BY <2>1, <2>2, <2>3 DEF WallSize, WallBlock
    <3> QED
      BY <1>0, <1>1, <2>1, <3>1, WallStays
  <2>4. CASE ~InTransit'
    <3>1. InTransit /\ ~StoreWidth
      BY <1>0, <1>6, <2>1, <2>4 DEF InTransit, StoreWidth, StoreHeight, StorePixels, ResizeCalls
    <3> QED
      BY <1>6, <2>4, <3>1, WallSwitch DEF Promise!WallNext
  <2> QED
    BY <2>3, <2>4
<1> QED
  BY <1>2, <1>3, <1>4, <1>5, <1>6 DEF Next, RxStep, ResizeStep, Undefined

(* Framebuffer keeps the promise of Wall for any blocks, sizes, colours    *)
(* and commands: outside of a race with a resize an accepted command       *)
(* recolours its own pixel and no other and counts once, and a resize      *)
(* shows a blank picture.                                                  *)
THEOREM FramebufferIsWall ==
  ASSUME Unwrapped
  PROVE  Spec => ImplementsWall
<1>1. Init => Promise!WallInit
  BY WallStart
<1>2. WInv /\ WInv' /\ [Next]_vars => [Promise!WallNext]_Promise!wallVars
  BY WallStep
<1> QED
  BY <1>1, <1>2, WInvHolds, PTL DEF Spec, ImplementsWall, Promise!WallSpec

-----------------------------------------------------------------------------
(* Wire: numbers written in bytes.                                         *)

(* Division by a positive number: quotient and remainder are unique.       *)
LEMMA DivisionUnique ==
  ASSUME NEW a \in Nat, NEW b \in Nat, NEW q \in Nat, NEW r \in Nat,
         r < b, a = q * b + r
  PROVE  a \div b = q /\ a % b = r
<1> DEFINE d == a \div b
           m == a % b
<1>1. d \in Nat /\ m \in Nat /\ m < b /\ a = b * d + m
  OBVIOUS
<1> HIDE DEF d, m
<1>2. a = d * b + m
  BY <1>1
<1>3. m = r /\ d = q
  BY <1>1, <1>2, IndexInjective
<1> QED
  BY <1>3 DEF d, m

(* The weights of the bytes are the powers of Byte.                         *)
LEMMA Weights ==
  /\ Byte \in Nat /\ Byte > 1
  /\ Weight(0) = 1 /\ Weight(1) = Byte
  /\ Weight(2) = Byte * Byte /\ Weight(3) = Byte * Byte * Byte
  /\ \A k \in 0 .. 3 : Weight(k) \in Nat /\ Weight(k) > 0
<1>1. Byte \in Nat /\ Byte > 1
  BY WireAssumption
<1>2. /\ Weight(0) = 1 /\ Weight(1) = Byte
      /\ Weight(2) = Byte * Byte /\ Weight(3) = Byte * Byte * Byte
  BY DEF Weight
<1>3. Byte * Byte \in Nat /\ Byte * Byte > 0
  BY <1>1
<1>4. Byte * Byte * Byte \in Nat /\ Byte * Byte * Byte > 0
  BY <1>1, <1>3
<1>5. ASSUME NEW k \in 0 .. 3 PROVE Weight(k) \in Nat /\ Weight(k) > 0
  <2>1. k = 0 \/ k = 1 \/ k = 2 \/ k = 3
    OBVIOUS
  <2> QED
    BY <2>1, <1>1, <1>2, <1>3, <1>4
<1> QED
  BY <1>1, <1>2, <1>5

(* What a client writes into the address are bytes.                        *)
LEMMA ByteOfType ==
  ASSUME NEW v \in Nat, NEW k \in 0 .. 3
  PROVE  ByteOf(v, k) \in 0 .. Byte - 1
<1> DEFINE q == v \div Weight(k)
<1>1. q \in Nat
  BY Weights
<1> HIDE DEF q
<1>2. q % Byte \in 0 .. Byte - 1
  BY <1>1, Weights
<1> QED
  BY <1>2 DEF ByteOf, q

(* The byte k of a number written with four digits.                        *)
LEMMA FourBytes ==
  ASSUME NEW a \in 0 .. Byte - 1, NEW b \in 0 .. Byte - 1,
         NEW c \in 0 .. Byte - 1, NEW d \in 0 .. Byte - 1,
         NEW v, v = ((a * Byte + b) * Byte + c) * Byte + d
  PROVE  v \in Nat /\ ByteOf(v, 3) = a /\ ByteOf(v, 2) = b /\ ByteOf(v, 1) = c /\ ByteOf(v, 0) = d
<1> DEFINE p == a * Byte + b
           q == p * Byte + c
           B2 == Byte * Byte
           B3 == B2 * Byte
           s == c * Byte + d
           t == b * B2 + s
<1>0. /\ Byte \in Nat /\ Byte > 1 /\ a \in Nat /\ b \in Nat /\ c \in Nat /\ d \in Nat
      /\ a < Byte /\ b < Byte /\ c < Byte /\ d < Byte
  BY Weights
<1>1. p \in Nat /\ B2 \in Nat /\ s \in Nat /\ s < B2
  BY <1>0, PositionFits
<1>2. q \in Nat /\ B3 \in Nat /\ B2 * Byte = Byte * B2 
  <2> HIDE DEF p, B2
  <2> QED BY <1>0, <1>1
<1>3. t \in Nat /\ t < B3
  <2> HIDE DEF B2, s
  <2> QED BY <1>0, <1>1, PositionFits
<1>4. v = q * Byte + d /\ v \in Nat
  <2> HIDE DEF q
  <2>1. v = q * Byte + d
    BY DEF q
  <2> QED BY <2>1, <1>0, <1>2
<1>5. v = p * B2 + s
  BY <1>0
<1>6. v = a * B3 + t
  BY <1>0
<1> HIDE DEF p, q, B2, B3, s, t
<1>7. v \div 1 = v /\ v % Byte = d /\ v \div Byte = q
  BY <1>0, <1>2, <1>4, DivisionUnique
<1>8. q % Byte = c
  BY <1>0, <1>1, <1>2, DivisionUnique DEF q
<1>9. v \div B2 = p /\ p % Byte = b
  <2>1. v \div B2 = p
    BY <1>1, <1>4, <1>5, DivisionUnique
  <2>2. p = a * Byte + b
    BY DEF p
  <2>3. p % Byte = b
    BY <2>2, <1>0, <1>1, DivisionUnique
  <2> QED BY <2>1, <2>3
<1>10. v \div B3 = a /\ a % Byte = a
  BY <1>0, <1>2, <1>3, <1>4, <1>6, DivisionUnique
<1>11. Weight(0) = 1 /\ Weight(1) = Byte /\ Weight(2) = B2 /\ Weight(3) = B3
  BY Weights DEF B2, B3
<1> QED
  BY <1>4, <1>7, <1>8, <1>9, <1>10, <1>11 DEF ByteOf

(* Division undoes multiplication, also of a bound.                        *)
LEMMA QuotientBelow ==
  ASSUME NEW v \in Nat, NEW b \in Nat, b > 0, NEW w \in Nat, v < w * b
  PROVE  \E d \in 0 .. w - 1, m \in 0 .. b - 1 :
           d = v \div b /\ m = v % b /\ v = d * b + m
<1> DEFINE d == v \div b
           m == v % b
<1>1. d \in Nat /\ m \in Nat /\ m < b /\ v = b * d + m
  OBVIOUS
<1> HIDE DEF d, m
<1>2. b * d = d * b /\ d * b \in Nat
  BY <1>1
<1>3. d < w
  <2> SUFFICES ASSUME w <= d PROVE FALSE
    BY <1>1
  <2>1. w * b <= d * b /\ w * b \in Nat
    BY <1>1, TimesMonotone
  <2> QED BY <1>1, <1>2, <2>1
<1>4. d \in 0 .. w - 1 /\ m \in 0 .. b - 1 /\ v = d * b + m
  BY <1>1, <1>2, <1>3
<1>5. d = v \div b /\ m = v % b
  BY DEF d, m
<1> QED BY <1>4, <1>5

(* A coordinate is put together from its two bytes.                        *)
LEMMA TwoBytes ==
  ASSUME NEW v \in 0 .. Byte * Byte - 1
  PROVE  ByteOf(v, 1) * Weight(1) + ByteOf(v, 0) = v
<1>1. Byte \in Nat /\ Byte > 1 /\ Byte * Byte \in Nat
  BY Weights
<1> DEFINE a == v \div Byte
           b == v % Byte
<1>2. v \in Nat /\ v < Byte * Byte
  BY <1>1
<1>3. a \in 0 .. Byte - 1 /\ b \in 0 .. Byte - 1 /\ v = a * Byte + b
  BY <1>1, <1>2, QuotientBelow
<1> HIDE DEF a, b
<1>4. 0 \in 0 .. Byte - 1 /\ ((0 * Byte + 0) * Byte + a) * Byte + b = v
  BY <1>1, <1>3
<1>5. ByteOf(v, 1) = a /\ ByteOf(v, 0) = b
  BY <1>3, <1>4, FourBytes
<1> QED
  BY <1>1, <1>3, <1>5, Weights

(* A colour is put together from its upper three bytes; the lowest is lost *)
LEMMA ThreeBytes ==
  ASSUME NEW v \in Colours
  PROVE  /\ v - (v % Byte) \in Colours
         /\ ByteOf(v, 3) * Weight(3) + ByteOf(v, 2) * Weight(2) + ByteOf(v, 1) * Weight(1)
              = v - (v % Byte)
<1> DEFINE B2 == Byte * Byte
           B3 == B2 * Byte
           B4 == B3 * Byte
<1>1. Byte \in Nat /\ Byte > 1 /\ B2 \in Nat
  BY Weights
<1>2. B3 \in Nat
  <2> HIDE DEF B2
  <2> QED BY <1>1
<1>3. B4 \in Nat
  <2> HIDE DEF B3
  <2> QED BY <1>1, <1>2
<1>4. v \in Nat /\ v < B3 * Byte /\ Colours = 0 .. B4 - 1
  <2>1. Colours = 0 .. B4 - 1
    BY DEF Colours
  <2> HIDE DEF B4
  <2>2. v \in Nat /\ v < B4
    BY <1>3, <2>1
  <2> QED BY <2>1, <2>2 DEF B4
<1> HIDE DEF B4
<1> DEFINE q == v \div Byte
           d == v % Byte
           p == q \div Byte
           c == q % Byte
           a == p \div Byte
           b == p % Byte
<1>5. q \in 0 .. B3 - 1 /\ d \in 0 .. Byte - 1 /\ v = q * Byte + d
  <2> HIDE DEF B3
  <2> QED BY <1>1, <1>2, <1>4, QuotientBelow
<1>6. q \in Nat /\ q < B2 * Byte
  <2> HIDE DEF q
  <2>1. q \in Nat /\ q < B3
    <3> HIDE DEF B3
    <3> QED BY <1>2, <1>5
  <2> QED BY <2>1
<1>7. p \in 0 .. B2 - 1 /\ c \in 0 .. Byte - 1 /\ q = p * Byte + c
  <2> HIDE DEF q, B2
  <2> QED BY <1>1, <1>6, QuotientBelow
<1>8. p \in Nat /\ p < Byte * Byte
  <2> HIDE DEF p
  <2>1. p \in Nat /\ p < B2
    <3> HIDE DEF B2
    <3> QED BY <1>1, <1>7
  <2> QED BY <2>1
<1>9. a \in 0 .. Byte - 1 /\ b \in 0 .. Byte - 1 /\ p = a * Byte + b
  <2> HIDE DEF p
  <2> QED BY <1>1, <1>8, QuotientBelow
<1> HIDE DEF a, b, c, p, q
<1>10. v = ((a * Byte + b) * Byte + c) * Byte + d
  BY <1>5, <1>7, <1>9
<1>11. ByteOf(v, 3) = a /\ ByteOf(v, 2) = b /\ ByteOf(v, 1) = c
  <2> HIDE DEF d
  <2> QED BY <1>5, <1>7, <1>9, <1>10, FourBytes
<1>12. v - d \in Colours
  <2>1. d \in Nat /\ q * Byte \in Nat
    BY <1>1, <1>5, <1>6
  <2> HIDE DEF d
  <2>2. v - d \in Nat /\ v - d <= v
    BY <2>1, <1>4, <1>5
  <2> QED BY <2>2, <1>3, <1>4
<1>13. a * (Byte * Byte * Byte) + b * (Byte * Byte) + c * Byte = v - d
  <2> DEFINE u == a * (Byte * Byte * Byte) + b * (Byte * Byte) + c * Byte
  <2> HIDE DEF d
  <2>1. v = u + d
    BY <1>1, <1>5, <1>7, <1>9, <1>10
  <2>2. u \in Nat
    BY <1>1, <1>7, <1>9
  <2> HIDE DEF u
  <2>3. u = v - d
    BY <2>1, <2>2, <1>1, <1>5
  <2> QED BY <2>3 DEF u
<1> QED
  BY <1>11, <1>12, <1>13, Weights

-----------------------------------------------------------------------------

\* A packet under way is one of a client: its address says what it meant.
Sent(m) ==
  /\ m.x \in 0 .. Byte * Byte - 1 /\ m.y \in 0 .. Byte * Byte - 1 /\ m.rgb \in Colours
  /\ \E last \in 0 .. Byte - 1 : m.dst = Address(m.x, m.y, m.rgb, last)

\* The state of a client is a record of these fields.
ClientsHaveFields ==
  /\ square \in [startX : Nat, startY : Nat, x : Nat, y : Nat, rgb : Random]
  /\ sweep \in [x : Nat, y : Nat, rgb : Random]

WireInv ==
  /\ WireTypeOK
  /\ ClientsHaveFields
  /\ \A m \in net : Sent(m)
  /\ ServersAgree

\* dst carries a position and a colour.
Carries(dst, x, y, rgb) ==
  /\ dst[8] = ByteOf(x, 1) /\ dst[9] = ByteOf(x, 0)
  /\ dst[10] = ByteOf(y, 1) /\ dst[11] = ByteOf(y, 0)
  /\ dst[12] = ByteOf(rgb, 3) /\ dst[13] = ByteOf(rgb, 2) /\ dst[14] = ByteOf(rgb, 1)

(* An address is made of bytes, each where the servers look for it.         *)
LEMMA AddressType ==
  ASSUME NEW x \in Nat, NEW y \in Nat, NEW rgb \in Nat, NEW last \in 0 .. Byte - 1
  PROVE  /\ Address(x, y, rgb, last) \in [8 .. 15 -> 0 .. Byte - 1]
         /\ Carries(Address(x, y, rgb, last), x, y, rgb)
<1> DEFINE dst == Address(x, y, rgb, last)
<1>1. \A v \in Nat, k \in 0 .. 3 : ByteOf(v, k) \in 0 .. Byte - 1
  BY ByteOfType
<1>2. /\ dst[8] = ByteOf(x, 1) /\ dst[9] = ByteOf(x, 0)
      /\ dst[10] = ByteOf(y, 1) /\ dst[11] = ByteOf(y, 0)
      /\ dst[12] = ByteOf(rgb, 3) /\ dst[13] = ByteOf(rgb, 2) /\ dst[14] = ByteOf(rgb, 1)
      /\ dst[15] = last
  BY DEF Address
<1>3. ASSUME NEW n \in 8 .. 15 PROVE dst[n] \in 0 .. Byte - 1
  <2>1. n = 8 \/ n = 9 \/ n = 10 \/ n = 11 \/ n = 12 \/ n = 13 \/ n = 14 \/ n = 15
    OBVIOUS
  <2> HIDE DEF dst
  <2> QED BY <2>1, <1>1, <1>2
<1>4. dst = [n \in 8 .. 15 |-> dst[n]]
  BY DEF Address
<1> HIDE DEF dst
<1>5. dst \in [8 .. 15 -> 0 .. Byte - 1]
  BY <1>3, <1>4
<1>6. Carries(dst, x, y, rgb)
  BY <1>2 DEF Carries
<1> QED BY <1>5, <1>6 DEF dst

(* Whatever client sent it, both servers read from a packet the position   *)
(* that was meant, and the colour but for its lowest byte.                 *)
LEMMA DecodedIsMeant ==
  ASSUME NEW m, Sent(m)
  PROVE  /\ Decoded(m.dst).x = m.x /\ Decoded(m.dst).y = m.y
         /\ Decoded(m.dst).rgb = m.rgb - (m.rgb % Byte)
         /\ XdpDecoded(m.dst).x = m.x /\ XdpDecoded(m.dst).y = m.y
         /\ XdpDecoded(m.dst).rgb = m.rgb - (m.rgb % Byte)
         /\ m.rgb - (m.rgb % Byte) \in Colours
         /\ m.x \in Nat /\ m.y \in Nat
<1>1. Byte \in Nat /\ Byte * Byte \in Nat
  BY Weights
<1>2. PICK last \in 0 .. Byte - 1 : m.dst = Address(m.x, m.y, m.rgb, last)
  BY DEF Sent
<1>3. m.x \in 0 .. Byte * Byte - 1 /\ m.y \in 0 .. Byte * Byte - 1 /\ m.rgb \in Colours
  BY DEF Sent
<1>4. m.x \in Nat /\ m.y \in Nat /\ m.rgb \in Nat
  BY <1>1, <1>3 DEF Colours
<1>5. Carries(m.dst, m.x, m.y, m.rgb)
  BY <1>2, <1>4, AddressType
<1>6. /\ m.dst[8] * Weight(1) + m.dst[9] = m.x
      /\ m.dst[10] * Weight(1) + m.dst[11] = m.y
  BY <1>3, <1>5, TwoBytes DEF Carries
<1>7. /\ m.dst[12] * Weight(3) + m.dst[13] * Weight(2) + m.dst[14] * Weight(1) = m.rgb - (m.rgb % Byte)
      /\ m.rgb - (m.rgb % Byte) \in Colours
  BY <1>3, <1>5, ThreeBytes DEF Carries
<1> QED BY <1>4, <1>6, <1>7 DEF Decoded, XdpDecoded

(* A colour is a number.                                                   *)
LEMMA ColoursAreNatural == Colours \subseteq Nat
<1> DEFINE n == Byte * Byte * Byte * Byte
<1>1. Colours = 0 .. n - 1
  BY DEF Colours
<1> HIDE DEF n
<1> QED BY <1>1

(* What a client sends.                                                    *)
LEMMA SendSends ==
  ASSUME WireInv,
         NEW x \in 0 .. Byte * Byte - 1, NEW y \in 0 .. Byte * Byte - 1, NEW rgb \in Random,
         NEW last \in 0 .. Byte - 1, Send(x, y, rgb, last)
  PROVE  /\ \A m \in net' : Sent(m)
         /\ \A m \in net' : m.dst \in [8 .. 15 -> 0 .. Byte - 1]
<1> DEFINE new == [dst |-> Address(x, y, rgb, last), x |-> x, y |-> y, rgb |-> rgb]
<1>1. net' = net \union {new}
  BY DEF Send
<1>2. x \in Nat /\ y \in Nat /\ rgb \in Colours /\ rgb \in Nat
  BY WireAssumption DEF Colours
<1>3. new.dst = Address(x, y, rgb, last) /\ new.x = x /\ new.y = y /\ new.rgb = rgb
  OBVIOUS
<1> HIDE DEF new
<1>4. Sent(new)
  BY <1>2, <1>3 DEF Sent
<1>5. new.dst \in [8 .. 15 -> 0 .. Byte - 1]
  BY <1>2, <1>3, AddressType
<1> QED BY <1>1, <1>4, <1>5 DEF WireInv, WireTypeOK

\* The clients' part of the invariant.
ClientsInRange ==
  /\ square.startX \in 0 .. RangeX - 1 /\ square.startY \in 0 .. RangeY - 1
  /\ square.x \in square.startX .. square.startX + Side - 1
  /\ square.y \in square.startY .. square.startY + Side - 1
  /\ square.rgb \in Random /\ sweep.rgb \in Random
  /\ sweep.x \in First .. LastX /\ sweep.y \in First .. LastY

(* No client leaves what two bytes can say.                                *)
LEMMA PositionsAreCoordinates ==
  ASSUME ClientsHaveFields, ClientsInRange
  PROVE  /\ square.x \in 0 .. Byte * Byte - 1 /\ square.y \in 0 .. Byte * Byte - 1
         /\ sweep.x \in 0 .. Byte * Byte - 1 /\ sweep.y \in 0 .. Byte * Byte - 1
<1> DEFINE B2 == Byte * Byte
<1>1. B2 \in Nat
  BY Weights
<1>2. /\ RangeX + Side <= B2 /\ RangeY + Side <= B2 /\ LastX < B2 /\ LastY < B2
      /\ RangeX \in Nat /\ RangeY \in Nat /\ Side \in Nat /\ First \in Nat /\ LastX \in Nat /\ LastY \in Nat
  BY WireAssumption
<1> HIDE DEF B2
<1>3. /\ square.x \in 0 .. B2 - 1 /\ square.y \in 0 .. B2 - 1
      /\ sweep.x \in 0 .. B2 - 1 /\ sweep.y \in 0 .. B2 - 1
  BY <1>1, <1>2 DEF ClientsInRange, ClientsHaveFields
<1> QED BY <1>3 DEF B2

(* A client stays inside of its square or its rectangle (foo.c:60-61,      *)
(* basicfwd.c:194-203).                                                    *)
LEMMA ClientsKeepArea ==
  ASSUME ClientsHaveFields, ClientsInRange, [WireNext]_wireVars
  PROVE  ClientsHaveFields' /\ ClientsInRange'
<1>1. /\ RangeX \in Nat /\ RangeY \in Nat /\ Side \in Nat \ {0}
      /\ First \in Nat /\ LastX \in Nat /\ LastY \in Nat /\ First <= LastX /\ First <= LastY
  BY WireAssumption
<1>2. /\ sweep \in [x : Nat, y : Nat, rgb : Random]
      /\ square \in [startX : Nat, startY : Nat, x : Nat, y : Nat, rgb : Random]
  BY DEF ClientsHaveFields
<1>3. CASE SquareSends
  <2>1. sweep' = sweep
    BY <1>3 DEF SquareSends
  <2>2. CASE square.y + 1 < square.startY + Side /\ square' = [square EXCEPT !.y = @ + 1]
    BY <2>1, <2>2, <1>1, <1>2 DEF ClientsHaveFields, ClientsInRange
  <2>3. CASE square.x + 1 < square.startX + Side /\ square' = [square EXCEPT !.x = @ + 1, !.y = square.startY]
    <3>1. square' = [startX |-> square.startX, startY |-> square.startY,
                     x |-> square.x + 1, y |-> square.startY, rgb |-> square.rgb]
      BY <2>3, <1>2
    <3> QED BY <2>1, <2>3, <3>1, <1>1, <1>2 DEF ClientsHaveFields, ClientsInRange
  <2>4. CASE square' \in NewSquare
    BY <2>1, <2>4, <1>1, <1>2 DEF ClientsHaveFields, ClientsInRange, NewSquare
  <2> QED BY <1>3, <2>2, <2>3, <2>4 DEF SquareSends
<1>4. CASE SweepSends
  <2>1. square' = square
    BY <1>4 DEF SweepSends
  <2>2. CASE sweep.x < LastX /\ sweep' = [sweep EXCEPT !.x = @ + 1]
    BY <2>1, <2>2, <1>1, <1>2 DEF ClientsHaveFields, ClientsInRange
  <2>3. CASE sweep.y < LastY /\ sweep' = [sweep EXCEPT !.x = First, !.y = @ + 1]
    <3>1. sweep' = [x |-> First, y |-> sweep.y + 1, rgb |-> sweep.rgb]
      BY <2>3, <1>1, <1>2
    <3> QED BY <2>1, <2>3, <3>1, <1>1, <1>2 DEF ClientsHaveFields, ClientsInRange
  <2>4. CASE \E c \in Random : sweep' = [x |-> First, y |-> First, rgb |-> c]
    BY <2>1, <2>4, <1>1, <1>2 DEF ClientsHaveFields, ClientsInRange
  <2> QED BY <1>4, <2>2, <2>3, <2>4 DEF SweepSends
<1>5. CASE UNCHANGED <<square, sweep>>
  BY <1>5 DEF ClientsHaveFields, ClientsInRange
<1>6. [WireNext]_wireVars => SquareSends \/ SweepSends \/ UNCHANGED <<square, sweep>>
  BY DEF WireNext, wireVars, Arrives, Lost
<1> QED BY <1>3, <1>4, <1>5, <1>6

\* A picture f of w x h cells after one position took a colour; a position
\* outside of it takes none.
Painted(f, w, h, x, y, k) == IF x < w /\ y < h THEN [f EXCEPT ![y * w + x] = k] ELSE f

(* A position of a picture has a cell, and no other position has it.       *)
LEMMA PositionHasCell ==
  ASSUME NEW w \in Nat, NEW h \in Nat, NEW u \in 0 .. w - 1, NEW v \in 0 .. h - 1
  PROVE  v * w + u \in Cells(w, h)
<1> DEFINE n == w * h
           i == v * w + u
<1>1. u \in Nat /\ v \in Nat /\ u < w /\ v < h /\ n \in Nat
  OBVIOUS
<1>2. i \in Nat /\ i < n
  BY <1>1, PositionFits
<1>3. Cells(w, h) = 0 .. n - 1
  BY DEF Cells
<1> HIDE DEF i, n
<1>4. i \in Cells(w, h)
  BY <1>1, <1>2, <1>3
<1> QED BY <1>4 DEF i

(* Painting keeps a picture a picture.                                     *)
LEMMA PaintedType ==
  ASSUME NEW w \in Nat, NEW h \in Nat, NEW f \in [Cells(w, h) -> Colours],
         NEW x \in Nat, NEW y \in Nat, NEW k \in Colours
  PROVE  Painted(f, w, h, x, y, k) \in [Cells(w, h) -> Colours]
BY DEF Painted

(* Painting changes one cell at most.                                      *)
LEMMA PaintedChange ==
  ASSUME NEW w \in Nat, NEW h \in Nat, NEW f \in [Cells(w, h) -> Colours],
         NEW x \in Nat, NEW y \in Nat, NEW k \in Colours,
         NEW i \in Cells(w, h), Painted(f, w, h, x, y, k)[i] # f[i]
  PROVE  x < w /\ i = y * w + x /\ Painted(f, w, h, x, y, k)[i] = k
BY DEF Painted

\* The cell of a position in a picture f of rows of width w.
CellAt(f, w, u, v) == f[v * w + u]

(* What each position shows after one was painted: positions of a picture  *)
(* do not share cells.                                                     *)
LEMMA PaintedCell ==
  ASSUME NEW w \in Nat, NEW h \in Nat, NEW f \in [Cells(w, h) -> Colours],
         NEW x \in Nat, NEW y \in Nat, NEW k \in Colours,
         NEW u \in 0 .. w - 1, NEW v \in 0 .. h - 1
  PROVE  CellAt(Painted(f, w, h, x, y, k), w, u, v)
           = IF u = x /\ v = y THEN k ELSE CellAt(f, w, u, v)
<1> DEFINE i == v * w + u
<1>1. u \in Nat /\ v \in Nat /\ u < w /\ v < h
  OBVIOUS
<1>2. i \in Cells(w, h)
  BY PositionHasCell
<1>3. x < w /\ i = y * w + x => u = x /\ v = y
  BY <1>1, IndexInjective
<1>4. CASE u = x /\ v = y
  <2>1. Painted(f, w, h, x, y, k) = [f EXCEPT ![i] = k]
    BY <1>1, <1>4 DEF Painted
  <2> HIDE DEF i
  <2>2. [f EXCEPT ![i] = k][i] = k
    BY <1>2
  <2> QED BY <1>4, <2>1, <2>2 DEF i, CellAt
<1>5. CASE ~(u = x /\ v = y)
  <2>1. x < w => i # y * w + x
    BY <1>3, <1>5
  <2> HIDE DEF i
  <2>2. Painted(f, w, h, x, y, k)[i] = f[i]
    BY <1>2, <2>1, PaintedChange
  <2> QED BY <1>5, <2>2 DEF i, CellAt
<1> QED BY <1>4, <1>5

(* Both servers paint what was meant.                                      *)
LEMMA ArrivesPaints ==
  ASSUME WireInv, NEW m \in net, Arrives(m)
  PROVE  LET k == m.rgb - (m.rgb % Byte) IN
         /\ m.x \in Nat /\ m.y \in Nat /\ k \in Colours
         /\ picture' = Painted(picture, Width, Height, m.x, m.y, k)
         /\ map' = Painted(map, MapWidth, MapHeight, m.x, m.y, k)
<1> DEFINE k == m.rgb - (m.rgb % Byte)
           c == Decoded(m.dst)
           d == XdpDecoded(m.dst)
<1>0. Sent(m)
  BY DEF WireInv
<1>1. /\ c.x = m.x /\ c.y = m.y /\ c.rgb = k
      /\ d.x = m.x /\ d.y = m.y /\ d.rgb = k
      /\ k \in Colours /\ m.x \in Nat /\ m.y \in Nat
  BY <1>0, DecodedIsMeant
<1>2. /\ Width \in Nat /\ Height \in Nat /\ MapWidth \in Nat /\ MapHeight \in Nat
  BY WireAssumption
<1>3. picture \in [Cells(Width, Height) -> Colours] /\ map \in [Cells(MapWidth, MapHeight) -> Colours]
  BY DEF WireInv, WireTypeOK
<1>4. picture' = SetPixel(c) /\ map' = UpdateMap(d)
  BY DEF Arrives
<1> HIDE DEF c, d, k
<1>5. picture' = Painted(picture, Width, Height, m.x, m.y, k)
  <2>1. CASE m.x < Width /\ m.y < Height
    <3> DEFINE i == m.y * Width + m.x
    <3>1. i \in Nat /\ i < Width * Height
      BY <2>1, <1>1, <1>2, PositionFits
    <3>2. i \in Cells(Width, Height)
      <4> DEFINE n == Width * Height
      <4>1. n \in Nat
        BY <1>2
      <4> HIDE DEF i
      <4>2. i < n
        BY <3>1
      <4> HIDE DEF n
      <4>3. i \in 0 .. n - 1
        BY <3>1, <4>1, <4>2
      <4> QED BY <4>3 DEF n, Cells
    <3>3. picture' = [j \in DOMAIN picture \union {i} |-> IF j = i THEN k ELSE picture[j]]
      BY <1>1, <1>2, <1>4, <2>1 DEF SetPixel
    <3>4. Painted(picture, Width, Height, m.x, m.y, k) = [picture EXCEPT ![i] = k]
      BY <2>1 DEF Painted
    <3> HIDE DEF i
    <3>5. DOMAIN picture \union {i} = DOMAIN picture
      BY <1>3, <3>2
    <3>6. picture' = [j \in DOMAIN picture |-> IF j = i THEN k ELSE picture[j]]
      BY <3>3, <3>5
    <3> QED BY <1>3, <3>4, <3>6
  <2>2. CASE ~(m.x < Width /\ m.y < Height)
    BY <2>2, <1>1, <1>2, <1>4 DEF SetPixel, Painted
  <2> QED BY <2>1, <2>2
<1>6. map' = Painted(map, MapWidth, MapHeight, m.x, m.y, k)
  <2>1. CASE m.x < MapWidth /\ m.y < MapHeight
    <3>1. m.x + m.y * MapWidth = m.y * MapWidth + m.x
      <4>1. m.y * MapWidth \in Nat
        BY <1>1, <1>2
      <4> QED BY <4>1, <1>1
    <3>2. map' = [map EXCEPT ![m.x + m.y * MapWidth] = k]
      BY <2>1, <1>1, <1>2, <1>4 DEF UpdateMap
    <3> QED BY <2>1, <3>1, <3>2 DEF Painted
  <2>2. CASE ~(m.x < MapWidth /\ m.y < MapHeight)
    BY <2>2, <1>1, <1>2, <1>4 DEF UpdateMap, Painted
  <2> QED BY <2>1, <2>2
<1> QED BY <1>1, <1>5, <1>6 DEF k

-----------------------------------------------------------------------------
(* The invariant of Wire is inductive.                                     *)

(* Nothing is under way at first, and both pictures are black.             *)
LEMMA WireInvInit == WireInit => WireInv
<1> SUFFICES ASSUME WireInit PROVE WireInv
  OBVIOUS
<1> USE WireAssumption
<1>1. 0 \in Colours
  <2>1. Byte * Byte * Byte * Byte \in Nat /\ Byte * Byte * Byte * Byte > 0
    <3> DEFINE b == Byte * Byte * Byte
    <3>1. b \in Nat /\ b > 0
      BY Weights
    <3> HIDE DEF b
    <3>2. b * Byte \in Nat /\ b * Byte > 0
      BY <3>1, Weights
    <3> QED BY <3>2 DEF b
  <2> QED BY <2>1 DEF Colours
<1>2. ClientsHaveFields /\ ClientsInRange
  BY DEF WireInit, NewSquare, ClientsHaveFields, ClientsInRange
<1>3. WireTypeOK
  BY <1>1, <1>2 DEF WireInit, ClientsInRange, WireTypeOK
<1>4. \A m \in net : Sent(m)
  BY DEF WireInit
<1>5. ServersAgree
  <2> SUFFICES ASSUME NEW x \in 0 .. Width - 1, NEW y \in 0 .. Height - 1, x < MapWidth, y < MapHeight
               PROVE  picture[y * Width + x] = map[x + y * MapWidth]
    BY DEF ServersAgree
  <2>1. picture[y * Width + x] = 0
    <3>1. picture \in [Cells(Width, Height) -> Colours] /\ Width \in Nat /\ Height \in Nat
      BY <1>3 DEF WireTypeOK
    <3>2. y * Width + x \in Cells(Width, Height)
      BY <3>1, PositionHasCell
    <3> QED BY <3>2 DEF WireInit
  <2>2. map[x + y * MapWidth] = 0
    <3>1. map \in [Cells(MapWidth, MapHeight) -> Colours] /\ MapWidth \in Nat /\ MapHeight \in Nat
          /\ x \in 0 .. MapWidth - 1 /\ y \in 0 .. MapHeight - 1
      BY <1>3 DEF WireTypeOK
    <3>2. y * MapWidth + x \in Cells(MapWidth, MapHeight)
      BY <3>1, PositionHasCell
    <3>3. y * MapWidth + x = x + y * MapWidth
      <4>1. y * MapWidth \in Nat
        BY <3>1
      <4> QED BY <4>1
    <3> QED BY <3>2, <3>3 DEF WireInit
  <2> QED BY <2>1, <2>2
<1> QED BY <1>2, <1>3, <1>4, <1>5 DEF WireInv

(* Sending fills the network with what is meant; arriving paints the same  *)
(* position of both pictures; losing takes away.                           *)
LEMMA WireInvStep == WireInv /\ [WireNext]_wireVars => WireInv'
<1> SUFFICES ASSUME WireInv, [WireNext]_wireVars PROVE WireInv'
  OBVIOUS
<1>1. ClientsHaveFields /\ ClientsInRange
  BY DEF WireInv, WireTypeOK, ClientsInRange
<1>2. ClientsHaveFields' /\ ClientsInRange'
  BY <1>1, ClientsKeepArea
<1>3. CASE SquareSends
  <2>1. /\ Send(square.x, square.y, square.rgb, ByteOf(square.rgb, 0))
        /\ UNCHANGED <<picture, map>>
    BY <1>3 DEF SquareSends
  <2>2. square.rgb \in Random /\ square.rgb \in Nat
    BY <1>1, ColoursAreNatural, WireAssumption DEF ClientsInRange
  <2>3. ByteOf(square.rgb, 0) \in 0 .. Byte - 1
    BY <2>2, ByteOfType
  <2>4. (\A m \in net' : Sent(m)) /\ (\A m \in net' : m.dst \in [8 .. 15 -> 0 .. Byte - 1])
    BY <2>1, <2>2, <2>3, <1>1, PositionsAreCoordinates, SendSends
  <2> QED BY <2>1, <2>4, <1>2 DEF WireInv, WireTypeOK, ClientsInRange, ServersAgree, Sent
<1>4. CASE SweepSends
  <2>1. Send(sweep.x, sweep.y, sweep.rgb, 0) /\ UNCHANGED <<picture, map>>
    BY <1>4 DEF SweepSends
  <2>2. sweep.rgb \in Random /\ 0 \in 0 .. Byte - 1
    BY <1>1, Weights DEF ClientsInRange
  <2>3. (\A m \in net' : Sent(m)) /\ (\A m \in net' : m.dst \in [8 .. 15 -> 0 .. Byte - 1])
    BY <2>1, <2>2, <1>1, PositionsAreCoordinates, SendSends
  <2> QED BY <2>1, <2>3, <1>2 DEF WireInv, WireTypeOK, ClientsInRange, ServersAgree, Sent
<1>5. ASSUME NEW m \in net, Arrives(m) PROVE WireInv'
  <2> DEFINE k == m.rgb - (m.rgb % Byte)
  <2>1. /\ m.x \in Nat /\ m.y \in Nat /\ k \in Colours
        /\ picture' = Painted(picture, Width, Height, m.x, m.y, k)
        /\ map' = Painted(map, MapWidth, MapHeight, m.x, m.y, k)
    BY <1>5, ArrivesPaints
  <2> HIDE DEF k
  <2>2. /\ Width \in Nat /\ Height \in Nat /\ MapWidth \in Nat /\ MapHeight \in Nat
        /\ picture \in [Cells(Width, Height) -> Colours]
        /\ map \in [Cells(MapWidth, MapHeight) -> Colours]
    BY WireAssumption DEF WireInv, WireTypeOK
  <2>3. picture' \in [Cells(Width, Height) -> Colours] /\ map' \in [Cells(MapWidth, MapHeight) -> Colours]
    BY <2>1, <2>2, PaintedType
  <2>4. net' \subseteq net
    BY <1>5 DEF Arrives
  <2>5. ASSUME NEW x \in 0 .. Width - 1, NEW y \in 0 .. Height - 1, x < MapWidth, y < MapHeight
        PROVE  picture'[y * Width + x] = map'[x + y * MapWidth]
    <3>1. picture'[y * Width + x] = IF x = m.x /\ y = m.y THEN k ELSE picture[y * Width + x]
      <4>1. CellAt(Painted(picture, Width, Height, m.x, m.y, k), Width, x, y)
              = IF x = m.x /\ y = m.y THEN k ELSE CellAt(picture, Width, x, y)
        BY <2>1, <2>2, PaintedCell
      <4> QED BY <4>1, <2>1 DEF CellAt
    <3>2. x \in 0 .. MapWidth - 1 /\ y \in 0 .. MapHeight - 1
      BY <2>2, <2>5
    <3>3. map'[y * MapWidth + x] = IF x = m.x /\ y = m.y THEN k ELSE map[y * MapWidth + x]
      <4>1. CellAt(Painted(map, MapWidth, MapHeight, m.x, m.y, k), MapWidth, x, y)
              = IF x = m.x /\ y = m.y THEN k ELSE CellAt(map, MapWidth, x, y)
        BY <2>1, <2>2, <3>2, PaintedCell
      <4> QED BY <4>1, <2>1 DEF CellAt
    <3>4. y * MapWidth + x = x + y * MapWidth
      <4>1. y * MapWidth \in Nat
        BY <2>2
      <4> QED BY <4>1
    <3>5. picture[y * Width + x] = map[x + y * MapWidth]
      BY <2>5 DEF WireInv, ServersAgree
    <3> QED BY <3>1, <3>3, <3>4, <3>5
  <2>6. ServersAgree'
    BY <2>5 DEF ServersAgree
  <2>7. WireTypeOK'
    BY <1>2, <2>3, <2>4 DEF WireInv, WireTypeOK, ClientsInRange
  <2>8. \A mm \in net' : Sent(mm)
    BY <2>4 DEF WireInv
  <2> QED BY <1>2, <2>6, <2>7, <2>8 DEF WireInv, Sent
<1>6. ASSUME NEW m \in net, Lost(m) PROVE WireInv'
  <2>1. net' \subseteq net /\ UNCHANGED <<square, sweep, picture, map>>
    BY <1>6 DEF Lost
  <2> QED BY <2>1, <1>2 DEF WireInv, WireTypeOK, ClientsInRange, ServersAgree, Sent
<1>7. CASE UNCHANGED wireVars
  BY <1>2, <1>7 DEF WireInv, WireTypeOK, ServersAgree, wireVars, Sent
<1> QED BY <1>3, <1>4, <1>5, <1>6, <1>7 DEF WireNext

(* The invariant holds.                                                    *)
LEMMA WireInvariant == WireSpec => []WireInv
BY WireInvInit, WireInvStep, PTL DEF WireSpec

(* No packet makes fb_set_pixel store outside of the block or the XDP      *)
(* program update outside of its array (framebuffer.c:67-77,               *)
(* xdp_pixelflut.c:53-67), and the clients stay in their areas.            *)
THEOREM WireTypeCorrect == WireSpec => []WireTypeOK
<1>1. WireInv => WireTypeOK
  BY DEF WireInv
<1> QED BY <1>1, WireInvariant, PTL

(* The server and the XDP program, shown the same packets, show the same   *)
(* colour at every position both have, whatever sizes they were built      *)
(* with and whatever the network does.                                     *)
THEOREM ServersShowTheSame == WireSpec => []ServersAgree
<1>1. WireInv => ServersAgree
  BY DEF WireInv
<1> QED BY <1>1, WireInvariant, PTL

\* The step of PaintsWhatWasMeant.
PaintsStep ==
  \E m \in net :
    /\ \A i \in DOMAIN picture : picture'[i] # picture[i] =>
         m.x < Width /\ i = Meant(m, Width) /\ picture'[i] = m.rgb - (m.rgb % Byte)
    /\ \A i \in DOMAIN map : map'[i] # map[i] =>
         m.x < MapWidth /\ i = Meant(m, MapWidth) /\ map'[i] = m.rgb - (m.rgb % Byte)

(* From rand() to the pixel: whatever is lost, repeated or overtaken, a    *)
(* pixel takes only a colour a client meant for it, without the lowest     *)
(* byte (network.c:195-212, xdp_pixelflut.c:53-67).                        *)
THEOREM PaintedIsMeant == WireSpec => PaintsWhatWasMeant
<1>1. WireInv /\ [WireNext]_wireVars => [PaintsStep]_<<picture, map>>
  <2> SUFFICES ASSUME WireInv, WireNext, ~ UNCHANGED <<picture, map>>
               PROVE  PaintsStep
    BY DEF wireVars
  <2>1. PICK m \in net : Arrives(m)
    BY DEF WireNext, SquareSends, SweepSends, Lost
  <2> DEFINE k == m.rgb - (m.rgb % Byte)
  <2>2. /\ m.x \in Nat /\ m.y \in Nat /\ k \in Colours
        /\ picture' = Painted(picture, Width, Height, m.x, m.y, k)
        /\ map' = Painted(map, MapWidth, MapHeight, m.x, m.y, k)
    BY <2>1, ArrivesPaints
  <2>3. /\ Width \in Nat /\ Height \in Nat /\ MapWidth \in Nat /\ MapHeight \in Nat
        /\ picture \in [Cells(Width, Height) -> Colours]
        /\ map \in [Cells(MapWidth, MapHeight) -> Colours]
    BY WireAssumption DEF WireInv, WireTypeOK
  <2> HIDE DEF k
  <2>4. /\ \A i \in Cells(Width, Height) : picture'[i] # picture[i] =>
             m.x < Width /\ i = m.y * Width + m.x /\ picture'[i] = k
        /\ \A i \in Cells(MapWidth, MapHeight) : map'[i] # map[i] =>
             m.x < MapWidth /\ i = m.y * MapWidth + m.x /\ map'[i] = k
    BY <2>2, <2>3, PaintedChange
  <2> QED BY <2>3, <2>4 DEF PaintsStep, Meant, k
<1>2. WireSpec => [][PaintsStep]_<<picture, map>>
  BY <1>1, WireInvariant, PTL DEF WireSpec
<1> QED BY <1>2 DEF PaintsWhatWasMeant, PaintsStep
=============================================================================
