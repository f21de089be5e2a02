-------------------------------- MODULE Wall --------------------------------
(***************************************************************************)
(* What a pixelflut wall promises to the people who paint on it and look   *)
(* at it: a rectangle of pixels, every accepted command recolours exactly  *)
(* the pixel it names and is counted once, and a change of the window's    *)
(* size blanks the picture.                                                *)
(*                                                                         *)
(* The promise is suspended while `racing' holds: a command overlaps the   *)
(* instant at which the picture changes its size.  The code has no lock    *)
(* between the two, so such a command may be painted elsewhere or be lost. *)
(* Framebuffer implements this module.                                     *)
(***************************************************************************)
EXTENDS Integers

CONSTANTS
  Pixels,       \* pixel values, uint32_t in the code
  Blank,        \* the value of a pixel nobody has painted
  CounterWord   \* the counter counts modulo this, 2^64 in the code

VARIABLES
  size,         \* <<width, height>> of the picture
  canvas,       \* the colour of every pixel
  drawn,        \* number of accepted commands, modulo CounterWord
  racing        \* TRUE while a command overlaps a change of the size

wallVars == <<size, canvas, drawn, racing>>

Positions(s) == (0 .. (s[1] - 1)) \X (0 .. (s[2] - 1))

BlankCanvas(s) == [p \in Positions(s) |-> Blank]

WallInit ==
  /\ size \in (Nat \ {0}) \X (Nat \ {0})
  /\ canvas = BlankCanvas(size)
  /\ drawn = 0
  /\ racing = FALSE

\* The wall does not decide when a command and a resize overlap.
Overlap == racing' \in BOOLEAN

(* An accepted command: one pixel, one count. *)
Paint(p, pixel) ==
  /\ ~racing
  /\ canvas' = [canvas EXCEPT ![p] = pixel]
  /\ drawn' = (drawn + 1) % CounterWord
  /\ UNCHANGED size
  /\ Overlap

(* A command that overlaps a resize: counted, but painted anywhere. *)
PaintAstray ==
  /\ racing
  /\ canvas' \in {canvas} \union
       { [canvas EXCEPT ![p] = pixel] : p \in Positions(size), pixel \in Pixels }
  /\ drawn' = (drawn + 1) % CounterWord
  /\ UNCHANGED size
  /\ Overlap

(* A new picture: blank, unless a command overlapped the change. *)
Resize ==
  /\ size' \in Nat \X Nat
  /\ canvas' \in [Positions(size') -> Pixels]
  /\ ~racing => canvas' = BlankCanvas(size')
  /\ UNCHANGED drawn
  /\ Overlap

BeginOrEndOverlap == Overlap /\ UNCHANGED <<size, canvas, drawn>>

WallNext ==
  \/ \E p \in Positions(size), pixel \in Pixels : Paint(p, pixel)
  \/ PaintAstray
  \/ Resize
  \/ BeginOrEndOverlap

WallSpec == WallInit /\ [][WallNext]_wallVars
=============================================================================
