---------------------------- MODULE DisplayProofs ----------------------------
(***************************************************************************)
(* The safety invariants of Display, proved for any windows, screens,      *)
(* sizes and bound on the event queue.  Together they are inductive.       *)
(***************************************************************************)
EXTENDS Display, SequenceTheorems, TLAPS

IInv == TypeOK /\ WindowFollowed /\ PictureFollowed /\ UploadInside

-----------------------------------------------------------------------------
(* What SDL's event queue does to its events.                              *)

LEMMA TakeFirst ==
  ASSUME NEW S, NEW s \in Seq(S), s # <<>>
  PROVE  /\ Len(s) \in Nat \ {0}
         /\ Head(s) = s[1]
         /\ Tail(s) \in Seq(S) /\ Len(Tail(s)) = Len(s) - 1
         /\ \A i \in 1 .. Len(s) :
              s[i] # Head(s) => i - 1 \in 1 .. Len(Tail(s)) /\ Tail(s)[i - 1] = s[i]
<1>1. Len(s) \in Nat \ {0} /\ Head(s) = s[1]
  OBVIOUS
<1>2. /\ Tail(s) \in Seq(S)
      /\ Len(Tail(s)) = Len(s) - 1
      /\ \A i \in 1 .. Len(Tail(s)) : Tail(s)[i] = s[i + 1]
  BY HeadTailProperties
<1>3. ASSUME NEW i \in 1 .. Len(s), s[i] # Head(s)
      PROVE  i - 1 \in 1 .. Len(Tail(s)) /\ Tail(s)[i - 1] = s[i]
  <2>1. i # 1 /\ i - 1 \in 1 .. Len(Tail(s))
    BY <1>1, <1>2, <1>3
  <2>2. Tail(s)[i - 1] = s[(i - 1) + 1]
    BY <1>2, <2>1
  <2> QED
    BY <2>1, <2>2
<1> QED
  BY <1>1, <1>2, <1>3

LEMMA AddLast ==
  ASSUME NEW S, NEW s \in Seq(S), NEW e \in S
  PROVE  /\ Len(s) \in Nat
         /\ Append(s, e) \in Seq(S) /\ Len(Append(s, e)) = Len(s) + 1
         /\ \A i \in 1 .. Len(s) :
              i \in 1 .. Len(Append(s, e)) /\ Append(s, e)[i] = s[i]
         /\ Len(s) + 1 \in 1 .. Len(Append(s, e)) /\ Append(s, e)[Len(s) + 1] = e
<1>1. /\ Append(s, e) \in Seq(S)
      /\ Len(Append(s, e)) = Len(s) + 1
      /\ \A i \in 1 .. Len(s) : Append(s, e)[i] = s[i]
      /\ Append(s, e)[Len(s) + 1] = e
  BY AppendProperties
<1>2. Len(s) \in Nat
  OBVIOUS
<1> QED
  BY <1>1, <1>2

LEMMA StillPending ==
  ASSUME TypeOK, NEW e, NextEvent(e), NEW w \in Windows, w # e, Pending(w)
  PROVE  Pending(w)'
<1>1. PICK i \in 1 .. Len(events) : events[i] = w
  BY DEF Pending
<1>2. i - 1 \in 1 .. Len(events') /\ events'[i - 1] = w
  BY <1>1, TakeFirst DEF NextEvent, TypeOK
<1> QED
  BY <1>2 DEF Pending

LEMMA NowPending ==
  ASSUME TypeOK, NEW e \in Windows \union {Quit}, events' = Append(events, e)
  PROVE  /\ events' \in Seq(Windows \union {Quit}) /\ Len(events') = Len(events) + 1
         /\ \A w \in Windows : Pending(w) \/ w = e => Pending(w)'
<1>1. events \in Seq(Windows \union {Quit})
  BY DEF TypeOK
<1> QED
  BY <1>1, AddLast DEF Pending

(* A texture of the picture's own size is read to the last pixel of the    *)
(* picture and no further.                                                 *)
LEMMA WholePictureFits ==
  ASSUME NEW size \in Sizes
  PROVE  Reach(size, size[1]) = Area(size)
<1>1. size[1] \in Nat /\ size[2] \in Nat
  BY DisplayAssumption DEF DisplayAssumption
<1>2. \A a, b \in Nat : (b - 1) * a + a = a * b
  OBVIOUS
<1> QED
  BY <1>1, <1>2 DEF Reach, Area

LEMMA InitInv == Init => IInv
<1> SUFFICES ASSUME Init
             PROVE  IInv
  OBVIOUS
<1> USE DisplayAssumption DEF DisplayAssumption, Init
<1>1. TypeOK
  <2>1. at \in 1 .. Len(Order)
    OBVIOUS
  <2>2. events \in Seq(Windows \union {Quit}) /\ Len(events) <= MaxEvents
    OBVIOUS
  <2>3. window \in [Windows -> Sizes] /\ texture \in [Windows -> Sizes]
    OBVIOUS
  <2> QED
    BY <2>1, <2>2, <2>3 DEF TypeOK
<1>2. WindowFollowed /\ PictureFollowed /\ UploadInside
  BY DEF WindowFollowed, Followed, PictureFollowed, UploadInside
<1> QED
  BY <1>1, <1>2 DEF IInv

-----------------------------------------------------------------------------
(* Type correctness.                                                       *)

LEMMA TypeStep == IInv /\ [Next]_vars => TypeOK'
<1> SUFFICES ASSUME IInv, [Next]_vars
             PROVE  TypeOK'
  OBVIOUS
<1> USE DisplayAssumption
    DEF DisplayAssumption, IInv, TypeOK, Me,
        fbVars, windowVars, screenVars
<1>0. Advance => at' \in 1 .. Len(Order) /\ pc' = "turn"
  BY DEF Advance
<1>1. ASSUME NEW w \in Windows, UserResizes(w)
      PROVE  TypeOK'
  <2>1. PICK s \in Sizes : window' = [window EXCEPT ![w] = s]
    BY <1>1 DEF UserResizes
  <2>2. window' \in [Windows -> Sizes]
    BY <2>1
  <2>3. events' \in Seq(Windows \union {Quit}) /\ Len(events') <= MaxEvents
    BY <1>1, NowPending DEF UserResizes
  <2> QED
    BY <1>1, <2>2, <2>3 DEF UserResizes
<1>2. CASE UserQuits
  <2>1. events' \in Seq(Windows \union {Quit}) /\ Len(events') <= MaxEvents
    BY <1>2, NowPending DEF UserQuits
  <2> QED
    BY <1>2, <2>1 DEF UserQuits
<1>3. ASSUME NEW s \in Screens, VncServe(s)
      PROVE  TypeOK'
  BY <1>3 DEF VncServe
<1>4. CASE UpdateScreen
  BY <1>0, <1>4 DEF UpdateScreen
<1>5. CASE ScreenEnds
  BY <1>5 DEF ScreenEnds
<1>6. CASE UpdateWindow
  BY <1>6 DEF UpdateWindow
<1>7. CASE PollForeign
  <2>1. events' \in Seq(Windows \union {Quit}) /\ Len(events') <= MaxEvents
    BY <1>7, TakeFirst DEF PollForeign, NextEvent
  <2> QED
    BY <1>7, <2>1 DEF PollForeign
<1>8. CASE PollNoTexture
  <2>1. events' \in Seq(Windows \union {Quit}) /\ Len(events') <= MaxEvents
    BY <1>8, TakeFirst DEF PollNoTexture, NextEvent
  <2>2. pc = "events" /\ pc' = pc /\ at' = at
    BY <1>8 DEF PollNoTexture, NextEvent
  <2> QED
    BY <1>8, <2>1, <2>2 DEF PollNoTexture
<1>9. CASE PollNoMemory
  <2>1. Me \in Windows /\ window[Me] \in Sizes
    BY <1>9 DEF PollNoMemory
  <2>2. events' \in Seq(Windows \union {Quit}) /\ Len(events') <= MaxEvents
    BY <1>9, TakeFirst DEF PollNoMemory, NextEvent
  <2>3. /\ texture' \in [Windows -> Sizes] /\ unmatched' \subseteq Windows
        /\ dropped' \subseteq Windows
    BY <1>9, <2>1 DEF PollNoMemory, NewTexture
  <2>4. pc = "events" /\ pc' = pc /\ at' = at
    BY <1>9 DEF PollNoMemory, NextEvent
  <2> QED
    BY <1>9, <2>1, <2>2, <2>3, <2>4 DEF PollNoMemory
<1>10. CASE PollResized
  <2>1. Me \in Windows /\ window[Me] \in Sizes
    BY <1>10 DEF PollResized
  <2>2. events' \in Seq(Windows \union {Quit}) /\ Len(events') <= MaxEvents
    BY <1>10, TakeFirst DEF PollResized, NextEvent
  <2>3. /\ texture' \in [Windows -> Sizes] /\ unmatched' \subseteq Windows
        /\ dropped' \subseteq Windows /\ resizer' \in {{w} : w \in Windows}
    BY <1>10, <2>1 DEF PollResized, NewTexture
  <2>4. pc = "events" /\ pc' = pc /\ at' = at
    BY <1>10 DEF PollResized, NextEvent
  <2> QED
    BY <1>10, <2>1, <2>2, <2>3, <2>4 DEF PollResized
<1>11. CASE PollQuit
  <2>1. events' \in Seq(Windows \union {Quit}) /\ Len(events') <= MaxEvents
    BY <1>11, TakeFirst DEF PollQuit, NextEvent
  <2> QED
    BY <1>11, <2>1 DEF PollQuit
<1>12. CASE PollEmpty
  BY <1>12 DEF PollEmpty
<1>13. CASE Upload
  BY <1>0, <1>13 DEF Upload
<1>14. CASE UploadBeyond
  BY <1>14 DEF UploadBeyond
<1>15. CASE Ended \/ UNCHANGED vars
  BY <1>15 DEF Ended, vars
<1> QED
  BY <1>1, <1>2, <1>3, <1>4, <1>5, <1>6, <1>7, <1>8, <1>9, <1>10, <1>11, <1>12, <1>13, <1>14,
     <1>15 DEF Next, UserStep, MainStep

-----------------------------------------------------------------------------
(* A window whose own frontend polled its event has a texture of its size. *)

LEMMA WindowStep == IInv /\ [Next]_vars => WindowFollowed'
<1> SUFFICES ASSUME IInv, Running /\ (UserStep \/ MainStep \/ ScreenEnds)
             PROVE  WindowFollowed'
  <2>1. IInv /\ UNCHANGED vars => WindowFollowed'
    BY DEF IInv, WindowFollowed, Followed, Pending, Me, vars
  <2> QED
    BY <2>1 DEF Next, Ended
<1> USE DEF fbVars, windowVars, screenVars
<1>1. TypeOK /\ fault = "none" /\ \A w \in Windows : Followed(w)
  BY DEF IInv, WindowFollowed, Running
<1>2. fault' # "assert" /\ (\A w \in Windows : Followed(w)') => WindowFollowed'
  BY DEF WindowFollowed
<1>3. ASSUME UNCHANGED <<windowVars, events>>, fault' # "assert"
      PROVE  WindowFollowed'
  BY <1>1, <1>2, <1>3 DEF Followed, Pending
<1>4. ASSUME NEW w \in Windows, UserResizes(w)
      PROVE  WindowFollowed'
  <2>1. \A v \in Windows : Pending(v) \/ v = w => Pending(v)'
    BY <1>1, <1>4, NowPending DEF UserResizes
  <2>2. \A v \in Windows \ {w} : window'[v] = window[v]
    BY <1>1, <1>4 DEF UserResizes, TypeOK
  <2>3. UNCHANGED <<texture, unmatched, fault>>
    BY <1>4 DEF UserResizes
  <2> QED
    BY <1>1, <1>2, <2>1, <2>2, <2>3 DEF Followed
<1>5. CASE UserQuits
  <2>1. \A v \in Windows : Pending(v) => Pending(v)'
    BY <1>1, <1>5, NowPending DEF UserQuits
  <2>2. UNCHANGED <<texture, window, unmatched, fault>>
    BY <1>5 DEF UserQuits
  <2> QED
    BY <1>1, <1>2, <2>1, <2>2 DEF Followed
<1>6. ASSUME NEW s \in Screens, VncServe(s)
      PROVE  WindowFollowed'
  BY <1>1, <1>3, <1>6 DEF VncServe
<1>7. CASE UpdateScreen \/ ScreenEnds \/ UpdateWindow \/ PollEmpty \/ Upload \/ UploadBeyond
  BY <1>1, <1>3, <1>7
  DEF UpdateScreen, ScreenEnds, UpdateWindow, PollEmpty, Upload, UploadBeyond
<1>8. CASE PollForeign
  <2>1. PICK v \in Windows \ {Me} : NextEvent(v)
    BY <1>8 DEF PollForeign
  <2>2. \A w \in Windows \ {v} : Pending(w) => Pending(w)'
    BY <1>1, <2>1, StillPending
  <2>3. UNCHANGED <<texture, window, unmatched, at>> /\ fault' = "assert"
    BY <1>8 DEF PollForeign
  <2>4. \A w \in Windows \ {v} : Followed(w)'
    BY <1>1, <2>2, <2>3 DEF Followed
  <2> QED
    BY <2>1, <2>3, <2>4 DEF WindowFollowed, Me
<1>9. CASE PollNoTexture
  <2>1. \A w \in Windows : Pending(w) /\ w # Me => Pending(w)'
    BY <1>1, <1>9, StillPending DEF PollNoTexture
  <2>2. UNCHANGED <<texture, window, fault>> /\ unmatched' = unmatched \union {Me}
    BY <1>9 DEF PollNoTexture
  <2> QED
    BY <1>1, <1>2, <2>1, <2>2 DEF Followed
<1>10. CASE PollNoMemory \/ PollResized
  <2>1. \A w \in Windows : Pending(w) /\ w # Me => Pending(w)'
    BY <1>1, <1>10, StillPending DEF PollNoMemory, PollResized
  <2>2. Me \in Windows /\ NewTexture /\ UNCHANGED <<window, fault>>
    BY <1>10 DEF PollNoMemory, PollResized
  <2>3. \A w \in Windows \ {Me} :
          texture'[w] = texture[w] /\ (w \in unmatched => w \in unmatched')
    BY <1>1, <2>2 DEF NewTexture, TypeOK
  <2>4. texture'[Me] = window'[Me]
    BY <1>1, <2>2 DEF NewTexture, TypeOK
  <2> QED
    BY <1>1, <1>2, <2>1, <2>2, <2>3, <2>4 DEF Followed
<1>11. CASE PollQuit
  <2>1. \A w \in Windows : Pending(w) => Pending(w)'
    BY <1>1, <1>11, StillPending, DisplayAssumption DEF PollQuit, DisplayAssumption
  <2>2. UNCHANGED <<texture, window, unmatched, fault>>
    BY <1>11 DEF PollQuit
  <2> QED
    BY <1>1, <1>2, <2>1, <2>2 DEF Followed
<1> QED
  BY <1>4, <1>5, <1>6, <1>7, <1>8, <1>9, <1>10, <1>11 DEF UserStep, MainStep

-----------------------------------------------------------------------------
(* The picture has the size of the window that resized it last.            *)

LEMMA PictureStep == IInv /\ [Next]_vars => PictureFollowed'
<1> SUFFICES ASSUME IInv, [Next]_vars
             PROVE  PictureFollowed'
  OBVIOUS
<1> USE DisplayAssumption
    DEF DisplayAssumption, IInv, TypeOK, PictureFollowed,
        fbVars, windowVars, screenVars
<1>1. ASSUME NEW w \in Windows, UserResizes(w)
      PROVE  PictureFollowed'
  BY <1>1 DEF UserResizes
<1>2. CASE UserQuits
  BY <1>2 DEF UserQuits
<1>3. ASSUME NEW s \in Screens, VncServe(s)
      PROVE  PictureFollowed'
  BY <1>3 DEF VncServe
<1>4. CASE UpdateScreen
  BY <1>4 DEF UpdateScreen, Advance
<1>5. CASE ScreenEnds
  BY <1>5 DEF ScreenEnds
<1>6. CASE UpdateWindow
  BY <1>6 DEF UpdateWindow
<1>7. CASE PollForeign
  BY <1>7 DEF PollForeign
<1>8. CASE PollNoTexture
  BY <1>8 DEF PollNoTexture
<1>9. CASE PollNoMemory
  <2>1. /\ Me \in Windows /\ NewTexture /\ dropped' = dropped \union {Me}
        /\ UNCHANGED <<fbSize, resizer>>
    BY <1>9 DEF PollNoMemory
  <2>2. \A w \in Windows \ {Me} : texture'[w] = texture[w]
    BY <2>1 DEF NewTexture
  <2> QED
    BY <2>1, <2>2
<1>10. CASE PollResized
  <2>1. Me \in Windows /\ NewTexture /\ fbSize' = window[Me] /\ resizer' = {Me}
    BY <1>10 DEF PollResized
  <2>2. texture'[Me] = fbSize'
    BY <2>1 DEF NewTexture
  <2> QED
    BY <2>1, <2>2
<1>11. CASE PollQuit
  BY <1>11 DEF PollQuit
<1>12. CASE PollEmpty
  BY <1>12 DEF PollEmpty
<1>13. CASE Upload
  BY <1>13 DEF Upload, Advance
<1>14. CASE UploadBeyond
  BY <1>14 DEF UploadBeyond
<1>15. CASE Ended \/ UNCHANGED vars
  BY <1>15 DEF Ended, vars
<1> QED
  BY <1>1, <1>2, <1>3, <1>4, <1>5, <1>6, <1>7, <1>8, <1>9, <1>10, <1>11, <1>12, <1>13, <1>14,
     <1>15 DEF Next, UserStep, MainStep

-----------------------------------------------------------------------------
(* An upload beyond the picture is one of a window without the picture's   *)
(* size.                                                                   *)

LEMMA UploadStep == IInv /\ [Next]_vars => UploadInside'
<1> SUFFICES ASSUME IInv, [Next]_vars
             PROVE  UploadInside'
  OBVIOUS
<1> USE DisplayAssumption
    DEF DisplayAssumption, IInv, TypeOK, PictureFollowed, UploadInside, Me,
        fbVars, windowVars, screenVars
<1>1. ASSUME NEW w \in Windows, UserResizes(w)
      PROVE  UploadInside'
  BY <1>1 DEF UserResizes
<1>2. CASE UserQuits
  BY <1>2 DEF UserQuits
<1>3. ASSUME NEW s \in Screens, VncServe(s)
      PROVE  UploadInside'
  BY <1>3 DEF VncServe
<1>4. CASE Running /\ UpdateScreen
  BY <1>4 DEF Running, UpdateScreen, Advance
<1>5. CASE Running /\ ScreenEnds
  BY <1>5 DEF Running, ScreenEnds
<1>6. CASE Running /\ UpdateWindow
  BY <1>6 DEF Running, UpdateWindow
<1>7. CASE Running /\ PollForeign
  BY <1>7 DEF Running, PollForeign
<1>8. CASE Running /\ PollNoTexture
  BY <1>8 DEF Running, PollNoTexture
<1>9. CASE Running /\ PollNoMemory
  BY <1>9 DEF Running, PollNoMemory
<1>10. CASE Running /\ PollResized
  BY <1>10 DEF Running, PollResized
<1>11. CASE Running /\ PollQuit
  BY <1>11 DEF Running, PollQuit
<1>12. CASE Running /\ PollEmpty
  BY <1>12 DEF Running, PollEmpty
<1>13. CASE Running /\ Upload
  BY <1>13 DEF Running, Upload, Advance
<1>14. CASE UploadBeyond
  <2>1. Me \in Windows /\ ~UploadFits
    BY <1>14 DEF UploadBeyond
  <2>2. texture[Me] # fbSize
    <3>1. Area(fbSize) \in Nat
      BY DEF Area
    <3> QED
      BY <2>1, <3>1, WholePictureFits DEF UploadFits
  <2>3. Me \in dropped \/ \E w \in resizer : w # Me
    BY <2>1, <2>2
  <2>4. UNCHANGED <<texture, fbSize, dropped, resizer, Me>>
    BY <1>14 DEF UploadBeyond
  <2> QED
    BY <2>2, <2>3, <2>4
<1>15. CASE Ended \/ UNCHANGED vars
  BY <1>15 DEF Ended, vars
<1> QED
  BY <1>1, <1>2, <1>3, <1>4, <1>5, <1>6, <1>7, <1>8, <1>9, <1>10, <1>11, <1>12, <1>13, <1>14,
     <1>15 DEF Next, UserStep, MainStep

-----------------------------------------------------------------------------
(* The theorems.                                                           *)

(* The type invariant and the three invariants are inductive together, for *)
(* any number of windows and screens.                                      *)
THEOREM InvariantHolds == Spec => []IInv
<1>1. IInv /\ [Next]_vars => IInv'
  BY TypeStep, WindowStep, PictureStep, UploadStep DEF IInv
<1> QED
  BY InitInv, <1>1, PTL DEF Spec

(* Every variable keeps its type, and only a window is ever in the middle  *)
(* of sdl_update.                                                          *)
THEOREM TypeCorrect == Spec => []TypeOK
<1>1. IInv => TypeOK
  BY DEF IInv
<1> QED
  BY InvariantHolds, <1>1, PTL

(* No window misses a change of its size that its own frontend polls, and  *)
(* one polled by the frontend of another window leaves at most the window  *)
(* it belongs to behind.                                                   *)
THEOREM NoChangeLost == Spec => []WindowFollowed
<1>1. IInv => WindowFollowed
  BY DEF IInv
<1> QED
  BY InvariantHolds, <1>1, PTL

(* The window that resized the framebuffer last has its size, unless that  *)
(* window's last fb_resize failed.                                         *)
THEOREM PictureAgrees == Spec => []PictureFollowed
<1>1. IInv => PictureFollowed
  BY DEF IInv
<1> QED
  BY InvariantHolds, <1>1, PTL

(* Only a window that lost the picture to another one, or whose own        *)
(* fb_resize failed without anybody looking at its result, uploads from    *)
(* outside of the picture.                                                 *)
THEOREM UploadStaysInside == Spec => []UploadInside
<1>1. IInv => UploadInside
  BY DEF IInv
<1> QED
  BY InvariantHolds, <1>1, PTL
=============================================================================
