------------------------------ MODULE Display ------------------------------
(***************************************************************************)
(* The frontends and the framebuffer as the main thread updates them: SDL  *)
(* windows (sdl.c), which follow the size their user gives them and resize *)
(* the framebuffer, and VNC screens (vnc.c), which keep the address of the *)
(* pixels they were started with.  What the DPDK thread does meanwhile is  *)
(* the subject of Framebuffer; here fb_resize is one step.                 *)
(*                                                                         *)
(* Reading memory outside of the picture is undefined behaviour, a failed  *)
(* assertion ends the process: `fault' names the first and nothing is      *)
(* claimed about what follows.                                             *)
(***************************************************************************)
EXTENDS Naturals, Sequences

CONSTANTS
  Windows,      \* the SDL frontends
  Screens,      \* the VNC frontends
  Order,        \* the list fronts
  Blocks,       \* addresses malloc may return
  Sizes,        \* sizes of pictures and windows
  MaxEvents,    \* SDL's event queue is bounded
  Quit          \* the event SDL_QUIT; SDL_WINDOWEVENT_RESIZED is its window

ASSUME DisplayAssumption ==
  /\ Order \in Seq(Windows \union Screens) /\ Order # <<>>
  /\ \A f \in Windows \union Screens : \E i \in 1 .. Len(Order) : Order[i] = f
  /\ Windows \intersect Screens = {}
  /\ Sizes \subseteq (Nat \ {0}) \X (Nat \ {0})
  /\ MaxEvents \in Nat
  /\ Quit \notin Windows

VARIABLES
  fbSize,     \* fb->size
  pixels,     \* fb->pixels, the only live block
  window,     \* the size of each window
  texture,    \* the size of sdl->texture
  events,     \* SDL's event queue, one for all windows
  screen,     \* the size each VNC server was created with
  copy,       \* server->frameBuffer
  at,         \* which frontend is updated
  pc,         \* where main is: "turn", "events", "upload" or "over"
  dropped,    \* windows whose last fb_resize failed: its result is dropped
  resizer,    \* history: the window whose fb_resize was the last to succeed
  unmatched,  \* windows whose last change found no texture
  fault       \* what went wrong

fbVars == <<fbSize, pixels, dropped, resizer>>
windowVars == <<window, texture, unmatched>>
screenVars == <<screen, copy>>
vars == <<fbSize, pixels, dropped, resizer, window, texture, unmatched, screen, copy,
          events, at, pc, fault>>

Area(s) == s[1] * s[2]

\* SDL_UpdateTexture reads a whole texture, row by row at the picture's pitch.
Reach(tex, width) == (tex[2] - 1) * width + tex[1]

\* sdl_alloc and vnc_alloc: all frontends start with the picture's size.
Init ==
  /\ fbSize \in Sizes
  /\ pixels \in Blocks
  /\ window = [w \in Windows |-> fbSize]
  /\ texture = window
  /\ screen = [s \in Screens |-> fbSize]
  /\ copy = [s \in Screens |-> pixels]
  /\ events = <<>>
  /\ at = 1 /\ pc = "turn"
  /\ dropped = {} /\ resizer = {} /\ unmatched = {}
  /\ fault = "none"

Me == Order[at]

Running == pc # "over" /\ fault = "none"

\* Broken variants of definitions have names that begin with Bad.  No
\* specification uses them; they show that the properties can fail.
BadAdvance ==
  /\ at' = IF at <= Len(Order) THEN at + 1 ELSE 1
  /\ pc' = "turn"

\* The next frontend of the list, or the next frame.
Advance ==
  /\ at' = IF at < Len(Order) THEN at + 1 ELSE 1
  /\ pc' = "turn"

-----------------------------------------------------------------------------
(* The users.                                                              *)

UserResizes(w) ==
  /\ Len(events) < MaxEvents
  /\ window' \in {[window EXCEPT ![w] = s] : s \in Sizes \ {window[w]}}
  /\ events' = Append(events, w)
  /\ UNCHANGED <<fbVars, texture, unmatched, screenVars, at, pc, fault>>

\* SDL sends SDL_QUIT when the last window is closed or the user ends the
\* program in another way.
UserQuits ==
  /\ Windows # {}
  /\ Len(events) < MaxEvents
  /\ events' = Append(events, Quit)
  /\ UNCHANGED <<fbVars, windowVars, screenVars, at, pc, fault>>

\* The screen's memory is the picture's, and large enough for the screen.
ScreenFits(s) == copy[s] = pixels /\ Area(screen[s]) <= Area(fbSize)

\* libvncserver's thread sends a picture to its clients.
VncServe(s) ==
  /\ fault' = IF ScreenFits(s) THEN fault ELSE "screen"
  /\ UNCHANGED <<fbVars, windowVars, screenVars, events, at, pc>>

-----------------------------------------------------------------------------
(* vnc_draw_string and vnc_update.                                         *)

UpdateScreen ==
  /\ pc = "turn" /\ Me \in Screens
  /\ fault' = IF ScreenFits(Me) THEN fault ELSE "screen"
  /\ Advance
  /\ UNCHANGED <<fbVars, windowVars, screenVars, events>>

\* rfbIsActive is false: update fails and the main loop ends.
ScreenEnds ==
  /\ pc = "turn" /\ Me \in Screens
  /\ fault' = IF ScreenFits(Me) THEN fault ELSE "screen"
  /\ pc' = "over"
  /\ UNCHANGED <<fbVars, windowVars, screenVars, events, at>>

-----------------------------------------------------------------------------
(* sdl_update.                                                             *)

UpdateWindow ==
  /\ pc = "turn" /\ Me \in Windows
  /\ pc' = "events"
  /\ UNCHANGED <<fbVars, windowVars, screenVars, events, at, fault>>

NextEvent(e) ==
  /\ pc = "events"
  /\ events # <<>> /\ Head(events) = e
  /\ events' = Tail(events)

\* assert(window == sdl->window)
PollForeign ==
  /\ \E w \in Windows \ {Me} : NextEvent(w)
  /\ fault' = "assert"
  /\ UNCHANGED <<fbVars, windowVars, screenVars, at, pc>>

\* SDL_CreateTexture fails: the loop continues with the next event.
PollNoTexture ==
  /\ Me \in Windows /\ NextEvent(Me)
  /\ unmatched' = unmatched \union {Me}
  /\ UNCHANGED <<fbVars, window, texture, screenVars, at, pc, fault>>

BadNewTexture ==
  /\ texture' = [texture EXCEPT ![Me] = fbSize]
  /\ unmatched' = unmatched \ {Me}

\* The size is the window's present one, whatever it was when the event was
\* sent.
NewTexture ==
  /\ texture' = [texture EXCEPT ![Me] = window[Me]]
  /\ unmatched' = unmatched \ {Me}

\* fb_resize returns -ENOMEM, which nobody looks at.
PollNoMemory ==
  /\ Me \in Windows /\ NextEvent(Me)
  /\ NewTexture
  /\ dropped' = dropped \union {Me}
  /\ UNCHANGED <<fbSize, pixels, resizer, window, screenVars, at, pc, fault>>

BadPollResized ==
  /\ Me \in Windows /\ NextEvent(Me)
  /\ NewTexture
  /\ fbSize' = window[CHOOSE w \in Windows : TRUE]
  /\ pixels' \in Blocks \ {pixels}
  /\ dropped' = dropped \ {Me} /\ resizer' = {Me}
  /\ UNCHANGED <<window, screenVars, at, pc, fault>>

\* fb_resize allocates before it frees: the new address differs.
PollResized ==
  /\ Me \in Windows /\ NextEvent(Me)
  /\ NewTexture
  /\ fbSize' = window[Me]
  /\ pixels' \in Blocks \ {pixels}
  /\ dropped' = dropped \ {Me} /\ resizer' = {Me}
  /\ UNCHANGED <<window, screenVars, at, pc, fault>>

BadPollQuit ==
  /\ NextEvent(Quit)
  /\ UNCHANGED <<fbVars, windowVars, screenVars, at, pc, fault>>

PollQuit ==
  /\ NextEvent(Quit)
  /\ pc' = "over"
  /\ UNCHANGED <<fbVars, windowVars, screenVars, at, fault>>

PollEmpty ==
  /\ pc = "events" /\ events = <<>>
  /\ pc' = "upload"
  /\ UNCHANGED <<fbVars, windowVars, screenVars, events, at, fault>>

BadUploadFits == Reach(texture[Me], window[Me][1]) <= Area(fbSize)

UploadFits == Reach(texture[Me], fbSize[1]) <= Area(fbSize)

Upload ==
  /\ pc = "upload" /\ UploadFits
  /\ Advance
  /\ UNCHANGED <<fbVars, windowVars, screenVars, events, fault>>

UploadBeyond ==
  /\ pc = "upload" /\ ~UploadFits
  /\ fault' = "upload"
  /\ UNCHANGED <<fbVars, windowVars, screenVars, events, at, pc>>

-----------------------------------------------------------------------------
UserStep ==
  \/ \E w \in Windows : UserResizes(w)
  \/ UserQuits
  \/ \E s \in Screens : VncServe(s)

MainStep ==
  \/ UpdateScreen \/ UpdateWindow
  \/ PollForeign \/ PollNoTexture \/ PollNoMemory \/ PollResized \/ PollQuit
  \/ PollEmpty \/ Upload \/ UploadBeyond

Ended == ~Running /\ UNCHANGED vars

Next ==
  \/ Running /\ (UserStep \/ MainStep \/ ScreenEnds)
  \/ Ended

Spec == Init /\ [][Next]_vars

\* The main thread is scheduled.  Users may do nothing, and a VNC server
\* need never end.
FairSpec == Spec /\ WF_vars(Running /\ MainStep)

-----------------------------------------------------------------------------
(* Properties.                                                             *)

(* Every variable has its type.                                            *)
TypeOK ==
  /\ fbSize \in Sizes /\ pixels \in Blocks
  /\ window \in [Windows -> Sizes] /\ texture \in [Windows -> Sizes]
  /\ events \in Seq(Windows \union {Quit}) /\ Len(events) <= MaxEvents
  /\ screen \in [Screens -> Sizes] /\ copy \in [Screens -> Blocks]
  /\ at \in 1 .. Len(Order)
  /\ pc \in {"turn", "events", "upload", "over"}
  /\ pc \in {"events", "upload"} => Me \in Windows
  /\ dropped \subseteq Windows
  /\ resizer \in {{}} \union {{w} : w \in Windows}
  /\ unmatched \subseteq Windows
  /\ fault \in {"none", "upload", "screen", "assert"}

Pending(w) == \E i \in 1 .. Len(events) : events[i] = w

\* sdl_update has caught up with the window, has an event of it ahead, or
\* found no texture for its last change.
Followed(w) == Pending(w) \/ w \in unmatched \/ texture[w] = window[w]

(* No change of a window's size is lost, however many pile up before the   *)
(* window's own frontend polls them.  When the frontend of another window  *)
(* polls one, that event is gone with the assertion that fails             *)
(* (sdl.c:118): then one window, and not the one that polled, may be left  *)
(* behind, and all others are not.                                         *)
WindowFollowed ==
  /\ fault # "assert" => \A w \in Windows : Followed(w)
  /\ fault = "assert" =>
       \E v \in Windows \ {Me} : \A w \in Windows \ {v} : Followed(w)

(* The framebuffer has the size of the texture of the window that resized  *)
(* it last, and of every window before the first resize, also after SDL    *)
(* had no texture for a later change; the exception is a window whose last *)
(* fb_resize failed.  With a single window this window and the picture     *)
(* agree.                                                                  *)
PictureFollowed ==
  \A w \in Windows : resizer \subseteq {w} /\ w \notin dropped => texture[w] = fbSize

(* SDL_UpdateTexture reads outside of the picture only for a window that   *)
(* lost the picture to another window, or whose own last fb_resize failed  *)
(* and had its result dropped (sdl.c:139); a single window is safe but for *)
(* the latter.                                                             *)
UploadInside ==
  fault = "upload" =>
    /\ texture[Me] # fbSize
    /\ Me \in dropped \/ \E w \in resizer : w # Me

(* SDL_QUIT ends the main loop, also when the windows change their size    *)
(* all the time: sdl_update polls the events in order.                     *)
CloseEndsLoop == (\E i \in 1 .. Len(events) : events[i] = Quit) ~> ~Running

(* Frontends "may be specified multiple times" (README.md:34): each window *)
(* gets its own events, as sdl_update asserts.                             *)
EventsReachTheirWindow == fault # "assert"
=============================================================================
