------------------------------- MODULE Server -------------------------------
(***************************************************************************)
(* The life of the pixelflut server process: the options, the start of the *)
(* subsystems, the main loop and the way down through the labels at the    *)
(* end of main (main.c), the DPDK thread that net_listen starts            *)
(* (network.c), and the signals.                                           *)
(*                                                                         *)
(* Use of memory after it was freed is undefined behaviour: `fault' names  *)
(* the first such use and nothing is claimed about what follows.  Reading  *)
(* the link of a list entry that was just freed may still find the old     *)
(* value, so both outcomes are modelled there.                             *)
(***************************************************************************)
EXTENDS Naturals, Sequences

CONSTANTS
  MaxFrontends,   \* MAX_FRONTENDS, 16 in the code
  Kinds           \* what may follow -f: "sdl", "vnc", anything else is unknown

ASSUME ServerAssumption ==
  /\ MaxFrontends \in Nat
  /\ Kinds \subseteq {"sdl", "vnc", "unknown"}

VARIABLES
  pc,           \* where main is
  specs,        \* the kinds named by -f, in order
  owned,        \* indices of frontend_names that hold a copy not yet freed
  frontendCnt,  \* frontend_cnt
  err,          \* err # 0
  queues,       \* the work queues: "none", "up", "broken" (array freed) or "down"
  fb,           \* the framebuffer: "none", "live" or "freed"
  fronts,       \* the list of frontends, by their index
  freed,        \* how many of them frontend_free was called on
  doExit,       \* do_exit of main.c
  handlers,     \* net_listen has installed signal_handler
  forceQuit,    \* force_quit of network.c
  rx,           \* where dpdk_thread is
  port,         \* the network port: "down", "up" or "closed"
  fault         \* what was used after it was freed

startVars == <<specs, owned, frontendCnt>>
frontVars == <<fronts, freed>>
netVars == <<handlers, forceQuit, rx, port>>
vars == <<pc, specs, owned, frontendCnt, err, queues, fb, fronts, freed, doExit,
          handlers, forceQuit, rx, port, fault>>

Init ==
  /\ pc = "options"
  /\ specs = <<>> /\ owned = {} /\ frontendCnt = 0
  /\ err = FALSE
  /\ queues = "none" /\ fb = "none"
  /\ fronts = <<>> /\ freed = 0
  /\ doExit = FALSE
  /\ handlers = FALSE /\ forceQuit = FALSE
  /\ rx = "none" /\ port = "down"
  /\ fault = "none"

Goto(label) == pc' = label

\* Broken variants of definitions have names that begin with Bad.  No
\* specification uses them; they show that the properties can fail.
BadFail(label) == Goto(label) /\ UNCHANGED err

\* goto fail and goto fail_fronts with an error in err.
Fail(label) == Goto(label) /\ err' = TRUE

-----------------------------------------------------------------------------
(* Options.                                                                *)

BadOptionFrontend ==
  /\ pc = "options"
  /\ frontendCnt <= MaxFrontends
  /\ \E kind \in Kinds : specs' = Append(specs, kind)
  /\ frontendCnt' = frontendCnt + 1
  /\ owned' = owned \union {frontendCnt'}
  /\ UNCHANGED <<pc, err, queues, fb, frontVars, doExit, netVars, fault>>

OptionFrontend ==
  /\ pc = "options"
  /\ frontendCnt < MaxFrontends
  /\ \E kind \in Kinds : specs' = Append(specs, kind)
  /\ frontendCnt' = frontendCnt + 1
  /\ owned' = owned \union {frontendCnt'}
  /\ UNCHANGED <<pc, err, queues, fb, frontVars, doExit, netVars, fault>>

\* A bad option, one frontend too many, or no memory for its name.
OptionFails ==
  /\ pc = "options"
  /\ Fail("fail")
  /\ UNCHANGED <<startVars, queues, fb, frontVars, doExit, netVars, fault>>

OptionsEnd ==
  /\ pc = "options"
  /\ Goto("workqueue")
  /\ UNCHANGED <<startVars, err, queues, fb, frontVars, doExit, netVars, fault>>

-----------------------------------------------------------------------------
(* Start of the subsystems.                                                *)

WorkqueueInit ==
  /\ pc = "workqueue"
  /\ \/ Goto("framebuffer") /\ queues' = "up" /\ UNCHANGED err
     \/ Fail("fail") /\ queues' = "broken"
  /\ UNCHANGED <<startVars, fb, frontVars, doExit, netVars, fault>>

FbAlloc ==
  /\ pc = "framebuffer"
  /\ \/ Goto("fronts") /\ fb' = "live" /\ UNCHANGED err
     \/ Fail("fail") /\ UNCHANGED fb
  /\ UNCHANGED <<startVars, queues, frontVars, doExit, netVars, fault>>

\* frontend_cnt-- at the head of the loop; the frontend with that index.
NextFrontend ==
  /\ pc = "fronts"
  /\ IF frontendCnt > 0
     THEN Goto("alloc") /\ frontendCnt' = frontendCnt - 1
     ELSE Goto("listen") /\ UNCHANGED frontendCnt
  /\ UNCHANGED <<specs, owned, err, queues, fb, frontVars, doExit, netVars, fault>>

Front == frontendCnt + 1
Kind == specs[Front]

BadFailFront == Goto("fail_fronts") /\ UNCHANGED frontendCnt

\* fail_fronts_free_name takes the name back that the loop has counted off.
FailFront == Goto("fail_fronts") /\ frontendCnt' = frontendCnt + 1

FrontendUnknown ==
  /\ pc = "alloc"
  /\ Kind = "unknown"
  /\ FailFront
  /\ UNCHANGED <<specs, owned, err, queues, fb, frontVars, doExit, netVars, fault>>

FrontendAlloc ==
  /\ pc = "alloc"
  /\ Kind # "unknown"
  /\ \/ /\ Goto("setup")
        /\ fronts' = Append(fronts, Front)
        /\ UNCHANGED <<frontendCnt, err>>
     \/ FailFront /\ err' = TRUE /\ UNCHANGED fronts
  /\ UNCHANGED <<specs, owned, queues, fb, freed, doExit, netVars, fault>>

\* Options, start and font.  Only the VNC frontend has any, so only it fails.
FrontendSetup ==
  /\ pc = "setup"
  /\ \/ /\ Goto("fronts")
        /\ owned' = owned \ {Front}
        /\ UNCHANGED <<frontendCnt, err>>
     \/ Kind = "vnc" /\ FailFront /\ err' = TRUE /\ UNCHANGED owned
  /\ UNCHANGED <<specs, queues, fb, frontVars, doExit, netVars, fault>>

\* net_listen.  A failure inside DPDK ends the process through rte_exit, and
\* when the thread cannot be created the port is left running.
NetListen ==
  /\ pc = "listen"
  /\ handlers' = TRUE
  /\ forceQuit' = FALSE
  /\ \/ Goto("loop") /\ rx' = "poll" /\ port' = "up" /\ UNCHANGED err
     \/ Fail("fail") /\ port' = "up" /\ UNCHANGED rx
     \/ Fail("killed") /\ UNCHANGED <<rx, port>>
  /\ UNCHANGED <<startVars, queues, fb, frontVars, doExit, fault>>

-----------------------------------------------------------------------------
(* The main loop draws until do_exit is set, and only a frontend whose     *)
(* update fails (SDL_QUIT, the VNC server is gone) sets it.                *)

FrontendQuits ==
  /\ pc = "loop" /\ ~doExit
  /\ fronts # <<>>
  /\ doExit' = TRUE
  /\ err' = TRUE
  /\ UNCHANGED <<pc, startVars, queues, fb, frontVars, netVars, fault>>

BadLoopEnds ==
  /\ pc = "loop" /\ (doExit \/ forceQuit)
  /\ Goto("fail_fronts")
  /\ UNCHANGED <<startVars, err, queues, fb, frontVars, doExit, netVars, fault>>

LoopEnds ==
  /\ pc = "loop" /\ doExit
  /\ Goto("fail_fronts")
  /\ UNCHANGED <<startVars, err, queues, fb, frontVars, doExit, netVars, fault>>

-----------------------------------------------------------------------------
(* The way down.                                                           *)

\* The entry of the list lies inside the frontend: its link to the next one
\* is read after the frontend was freed.
FrontendFree ==
  /\ pc = "fail_fronts"
  /\ freed < Len(fronts)
  /\ freed' = freed + 1
  /\ fault' \in {"none", "frontend"}
  /\ UNCHANGED <<pc, startVars, err, queues, fb, fronts, doExit, netVars>>

FbFree ==
  /\ pc = "fail_fronts"
  /\ freed = Len(fronts)
  /\ fb' = "freed"
  /\ Goto("fail")
  /\ UNCHANGED <<startVars, err, queues, frontVars, doExit, netVars, fault>>

BadFreeName ==
  /\ pc = "fail"
  /\ frontendCnt > 0
  /\ frontendCnt' = frontendCnt - 1
  /\ owned' = owned \ {frontendCnt + 1}
  /\ fault' = IF frontendCnt + 1 \in owned THEN fault ELSE "name"
  /\ UNCHANGED <<pc, specs, err, queues, fb, frontVars, doExit, netVars>>

FreeName ==
  /\ pc = "fail"
  /\ frontendCnt > 0
  /\ frontendCnt' = frontendCnt - 1
  /\ owned' = owned \ {frontendCnt}
  /\ fault' = IF frontendCnt \in owned THEN fault ELSE "name"
  /\ UNCHANGED <<pc, specs, err, queues, fb, frontVars, doExit, netVars>>

\* workqueue_deinit; with num_workqueues = 0 there is nothing to stop.
WorkqueueDeinit ==
  /\ pc = "fail"
  /\ frontendCnt = 0
  /\ queues' = IF queues = "up" THEN "down" ELSE queues
  /\ fault' = IF queues = "broken" THEN "queues" ELSE fault
  /\ Goto("return")
  /\ UNCHANGED <<startVars, err, fb, frontVars, doExit, netVars>>

\* The process ends, and all its threads with it.
Return ==
  /\ pc = "return"
  /\ Goto("exit")
  /\ rx' = IF rx = "none" THEN rx ELSE "gone"
  /\ UNCHANGED <<startVars, err, queues, fb, frontVars, doExit, handlers, forceQuit,
                 port, fault>>

-----------------------------------------------------------------------------
(* dpdk_thread.                                                            *)

BadRxPoll ==
  /\ rx = "poll"
  /\ rx' = "burst"
  /\ UNCHANGED <<pc, startVars, err, queues, fb, frontVars, doExit, handlers,
                 forceQuit, port, fault>>

\* while(!force_quit), and rte_eth_rx_burst, which may find nothing.
RxPoll ==
  /\ rx = "poll"
  /\ rx' = IF forceQuit THEN "close" ELSE "burst"
  /\ UNCHANGED <<pc, startVars, err, queues, fb, frontVars, doExit, handlers,
                 forceQuit, port, fault>>

\* fb_set_pixel for a packet of the burst.
RxDraw ==
  /\ rx = "burst"
  /\ fault' = IF fb = "live" THEN fault ELSE "framebuffer"
  /\ UNCHANGED <<pc, startVars, err, queues, fb, frontVars, doExit, netVars>>

RxBurstEnds ==
  /\ rx = "burst"
  /\ rx' = "poll"
  /\ UNCHANGED <<pc, startVars, err, queues, fb, frontVars, doExit, handlers,
                 forceQuit, port, fault>>

RxClose ==
  /\ rx = "close"
  /\ rx' = "ended"
  /\ port' = "closed"
  /\ UNCHANGED <<pc, startVars, err, queues, fb, frontVars, doExit, handlers,
                 forceQuit, fault>>

(* SIGINT or SIGTERM: signal_handler once net_listen has installed it, the *)
(* default action before.                                                  *)
Signal ==
  /\ pc \notin {"exit", "killed"}
  /\ IF handlers THEN forceQuit' = TRUE /\ UNCHANGED pc
                 ELSE Goto("killed") /\ UNCHANGED forceQuit
  /\ UNCHANGED <<startVars, err, queues, fb, frontVars, doExit, handlers, rx,
                 port, fault>>

-----------------------------------------------------------------------------
MainStep ==
  \/ OptionFrontend \/ OptionFails \/ OptionsEnd
  \/ WorkqueueInit \/ FbAlloc \/ NextFrontend \/ FrontendUnknown \/ FrontendAlloc
  \/ FrontendSetup \/ NetListen
  \/ LoopEnds \/ FrontendFree \/ FbFree \/ FreeName \/ WorkqueueDeinit \/ Return

RxStep == RxPoll \/ RxDraw \/ RxBurstEnds \/ RxClose

Over == pc \in {"exit", "killed"} \/ fault # "none"

Ended == Over /\ UNCHANGED vars

Next ==
  \/ ~Over /\ (MainStep \/ FrontendQuits)
  \/ ~Over /\ RxStep
  \/ ~Over /\ Signal
  \/ Ended

Spec == Init /\ [][Next]_vars

\* Both threads are scheduled, and a burst is finite.  Nobody has to send a
\* signal or to quit a frontend.
FairSpec ==
  /\ Spec
  /\ WF_vars(~Over /\ MainStep)
  /\ WF_vars(~Over /\ (RxPoll \/ RxBurstEnds \/ RxClose))

-----------------------------------------------------------------------------
(* Properties.                                                             *)

(* Every variable has its type.                                            *)
TypeOK ==
  /\ pc \in {"options", "workqueue", "framebuffer", "fronts", "alloc", "setup", "listen",
             "loop", "fail_fronts", "fail", "return", "exit", "killed"}
  /\ specs \in Seq(Kinds) /\ Len(specs) <= MaxFrontends
  /\ owned \subseteq 1 .. Len(specs)
  /\ frontendCnt \in 0 .. Len(specs)
  /\ err \in BOOLEAN
  /\ queues \in {"none", "up", "broken", "down"}
  /\ fb \in {"none", "live", "freed"}
  /\ fronts \in Seq(1 .. Len(specs))
  /\ freed \in 0 .. Len(fronts)
  /\ doExit \in BOOLEAN /\ handlers \in BOOLEAN /\ forceQuit \in BOOLEAN
  /\ rx \in {"none", "poll", "burst", "close", "ended", "gone"}
  /\ port \in {"down", "up", "closed"}
  /\ fault \in {"none", "frontend", "framebuffer", "name", "queues"}

(* Every copy of a frontend's name is freed exactly once before main       *)
(* returns, by the loop that starts the frontends or at fail, wherever the *)
(* start was abandoned: the point of fail_fronts_free_name.                *)
NamesFreedExactlyOnce ==
  /\ fault # "name"
  /\ pc = "exit" => owned = {}

(* Each use of something freed has one way that leads there, and no signal *)
(* and no other failure of the start does: dpdk_thread draws into a freed  *)
(* picture only after a frontend that runs has ended the main loop         *)
(* (main.c:339); the link of a freed frontend is read only where           *)
(* frontends are freed (main.c:333); and the queues of a freed array are   *)
(* stopped only when workqueue_init failed (workqueue.c:99), before there  *)
(* is a picture, a frontend or the thread.                                 *)
FaultsConfined ==
  /\ fault = "framebuffer" => doExit /\ fronts # <<>> /\ fb = "freed"
  /\ fault = "frontend" => pc = "fail_fronts" /\ fronts # <<>> /\ fb = "live"
  /\ fault = "queues" =>
       queues = "broken" /\ fb = "none" /\ fronts = <<>> /\ rx = "none"

(* main returns 0 only after it met an unknown frontend: the main loop     *)
(* ends with an error of a frontend only, and every other failure of the   *)
(* start is reported.                                                      *)
ZeroMeansUnknownFrontend ==
  pc = "exit" /\ ~err => \E i \in DOMAIN specs : specs[i] = "unknown"

(* SIGINT or SIGTERM stops the DPDK thread, which closes the port.         *)
SignalStopsReceiving ==
  forceQuit /\ rx # "none" ~> port = "closed" \/ Over

(* SIGINT or SIGTERM makes the server exit ("preparing to exit",           *)
(* network.c:58).                                                          *)
SignalEndsServer == forceQuit ~> Over
=============================================================================
