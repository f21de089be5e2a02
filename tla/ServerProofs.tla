----------------------------- MODULE ServerProofs -----------------------------
(***************************************************************************)
(* The safety invariants of Server, proved for any number of frontends.    *)
(*                                                                         *)
(* The inductive invariant says which names are still owned at each label  *)
(* of main (NamesInv), that the DPDK thread draws into a framebuffer that  *)
(* lives as long as no frontend has ended the main loop (DrawingInv), and  *)
(* why main goes down (ReasonInv).                                         *)
(***************************************************************************)
EXTENDS Server, SequenceTheorems, TLAPS

Starting == {"fronts", "alloc", "setup", "listen", "loop"}
GoingDown == {"fail_fronts", "fail", "return", "exit"}

NamesInv ==
  /\ pc = "options" => frontendCnt = Len(specs) /\ fronts = <<>>
  /\ pc \in {"alloc", "setup"} => frontendCnt < Len(specs) /\ owned = 1 .. Front
  /\ pc \notin {"alloc", "setup", "killed"} => owned = 1 .. frontendCnt
  /\ pc \in {"return", "exit"} => frontendCnt = 0
  /\ fault # "name"

DrawingInv ==
  /\ pc \in Starting \union {"fail_fronts"} => fb = "live"
  /\ rx # "none" => handlers /\ fb # "none" /\ pc \in {"loop"} \union GoingDown
  /\ queues = "broken" =>
       /\ pc \in {"fail", "return", "exit", "killed"}
       /\ fb = "none" /\ fronts = <<>> /\ rx = "none"
  /\ pc \in {"options", "workqueue", "framebuffer"} => fronts = <<>> /\ fb = "none"
  /\ rx # "none" /\ pc # "loop" => doExit
  /\ doExit => err /\ fronts # <<>> /\ pc \in {"loop"} \union GoingDown \union {"killed"}
  /\ FaultsConfined

SomeUnknown == \E i \in DOMAIN specs : specs[i] = "unknown"

ReasonInv == pc \in GoingDown /\ ~err => SomeUnknown

IInv == TypeOK /\ NamesInv /\ DrawingInv /\ ReasonInv

-----------------------------------------------------------------------------
(* A longer list of options keeps what was there and adds one kind.        *)
LEMMA AppendKind ==
  ASSUME NEW s \in Seq(Kinds), NEW kind \in Kinds
  PROVE  Append(s, kind) \in Seq(Kinds) /\ Len(Append(s, kind)) = Len(s) + 1
BY AppendProperties

LEMMA InitInv == Init => IInv
<1> SUFFICES ASSUME Init
             PROVE  IInv
  OBVIOUS
<1> USE DEF Init
<1>1. /\ <<>> \in Seq(Kinds) /\ Len(<<>>) = 0
      /\ <<>> \in Seq(1 .. 0) /\ 1 .. 0 = {} /\ 0 \in 0 .. 0
  OBVIOUS
<1>2. TypeOK
  <2>1. Len(specs) = 0 /\ Len(fronts) = 0
    BY <1>1
  <2>2. specs \in Seq(Kinds) /\ Len(specs) <= MaxFrontends
    BY <1>1, <2>1, ServerAssumption DEF ServerAssumption
  <2>3. owned \subseteq 1 .. Len(specs) /\ frontendCnt \in 0 .. Len(specs)
    BY <1>1, <2>1
  <2>4. fronts \in Seq(1 .. Len(specs)) /\ freed \in 0 .. Len(fronts)
    BY <1>1, <2>1
  <2> QED
    BY <2>2, <2>3, <2>4 DEF TypeOK
<1>3. NamesInv
  BY <1>1 DEF NamesInv
<1>4. DrawingInv /\ ReasonInv
  BY DEF DrawingInv, ReasonInv, Starting, GoingDown, FaultsConfined
<1> QED
  BY <1>2, <1>3, <1>4 DEF IInv

-----------------------------------------------------------------------------
(* Type correctness.                                                       *)

LEMMA TypeStep == IInv /\ [Next]_vars => TypeOK'
<1> SUFFICES ASSUME IInv, [Next]_vars
             PROVE  TypeOK'
  OBVIOUS
<1> USE DEF IInv, TypeOK, NamesInv, startVars, frontVars, netVars
<1>1. CASE OptionFrontend
  BY <1>1, AppendKind, ServerAssumption DEF OptionFrontend, ServerAssumption
<1>2. CASE OptionFails
  BY <1>2 DEF OptionFails, Fail, Goto
<1>3. CASE OptionsEnd
  BY <1>3 DEF OptionsEnd, Goto
<1>4. CASE ~Over /\ WorkqueueInit
  BY <1>4, ZenonT(40) DEF WorkqueueInit, Fail, Goto
<1>5. CASE FbAlloc
  <2>1. CASE Goto("fronts") /\ fb' = "live" /\ UNCHANGED err
    BY <1>5, <2>1 DEF FbAlloc, Goto
  <2>2. CASE Fail("fail") /\ UNCHANGED fb
    BY <1>5, <2>2 DEF FbAlloc, Fail, Goto
  <2> QED
    BY <1>5, <2>1, <2>2 DEF FbAlloc
<1>6. CASE NextFrontend
  BY <1>6 DEF NextFrontend, Goto
<1>7. CASE FrontendUnknown
  BY <1>7 DEF FrontendUnknown, FailFront, Goto, Front, Kind
<1>8. CASE FrontendAlloc
  <2>1. Front \in 1 .. Len(specs)
    BY <1>8 DEF FrontendAlloc, Front
  <2>2. Append(fronts, Front) \in Seq(1 .. Len(specs))
        /\ Len(Append(fronts, Front)) = Len(fronts) + 1
    BY <2>1, AppendProperties
  <2>3. CASE Goto("setup") /\ fronts' = Append(fronts,
     Front) /\ UNCHANGED <<frontendCnt, err>>
    BY <1>8, <2>2, <2>3 DEF FrontendAlloc, Goto
  <2>4. CASE FailFront /\ err' = TRUE /\ UNCHANGED fronts
    BY <1>8, <2>4 DEF FrontendAlloc, FailFront, Goto
  <2> QED
    BY <1>8, <2>3, <2>4 DEF FrontendAlloc
<1>9. CASE FrontendSetup
  <2>1. CASE Goto("fronts") /\ owned' = owned \ {Front} /\ UNCHANGED <<frontendCnt, err>>
    BY <1>9, <2>1 DEF FrontendSetup, Goto
  <2>2. CASE FailFront /\ err' = TRUE /\ UNCHANGED owned
    BY <1>9, <2>2 DEF FrontendSetup, FailFront, Goto
  <2> QED
    BY <1>9, <2>1, <2>2 DEF FrontendSetup
<1>10. CASE NetListen
  BY <1>10, ZenonT(40) DEF NetListen, Fail, Goto
<1>11. CASE LoopEnds
  BY <1>11 DEF LoopEnds, Goto
<1>12. CASE FrontendFree
  BY <1>12 DEF FrontendFree
<1>13. CASE FbFree
  BY <1>13 DEF FbFree, Goto
<1>14. CASE FreeName
  BY <1>14 DEF FreeName
<1>15. CASE WorkqueueDeinit
  BY <1>15 DEF WorkqueueDeinit, Goto
<1>16. CASE Return
  BY <1>16 DEF Return, Goto
<1>17. CASE FrontendQuits
  BY <1>17 DEF FrontendQuits
<1>18. CASE RxPoll
  BY <1>18 DEF RxPoll
<1>19. CASE ~Over /\ RxDraw
  BY <1>19 DEF RxDraw
<1>20. CASE RxBurstEnds
  BY <1>20 DEF RxBurstEnds
<1>21. CASE RxClose
  BY <1>21 DEF RxClose
<1>22. CASE ~Over /\ Signal
  <2>1. CASE handlers
    BY <1>22, <2>1 DEF Signal
  <2>2. CASE ~handlers
    BY <1>22, <2>2 DEF Signal, Goto
  <2> QED
    BY <2>1, <2>2
<1>23. CASE Ended \/ UNCHANGED vars
  BY <1>23, ZenonT(40) DEF Ended, vars
<1> QED
  BY <1>1, <1>2, <1>3, <1>4, <1>5, <1>6, <1>7, <1>8, <1>9, <1>10, <1>11, <1>12,
     <1>13, <1>14, <1>15, <1>16, <1>17, <1>18, <1>19, <1>20, <1>21, <1>22, <1>23
     DEF Next, MainStep, RxStep

-----------------------------------------------------------------------------
(* The names that main still owns are those below frontend_cnt.            *)

LEMMA NamesStep == IInv /\ [Next]_vars => NamesInv'
<1> SUFFICES ASSUME IInv, [Next]_vars
             PROVE  NamesInv'
  OBVIOUS
<1> USE DEF IInv, TypeOK, NamesInv, Front, startVars, frontVars, netVars
<1>1. CASE OptionFrontend
  BY <1>1, AppendKind DEF OptionFrontend
<1>2. CASE OptionFails
  BY <1>2 DEF OptionFails, Fail, Goto
<1>3. CASE OptionsEnd
  BY <1>3 DEF OptionsEnd, Goto
<1>4. CASE ~Over /\ WorkqueueInit
  BY <1>4 DEF WorkqueueInit, Fail, Goto
<1>5. CASE FbAlloc
  BY <1>5 DEF FbAlloc, Fail, Goto
<1>6. CASE NextFrontend
  BY <1>6 DEF NextFrontend, Goto
<1>7. CASE FrontendUnknown
  BY <1>7 DEF FrontendUnknown, FailFront, Goto
<1>8. CASE FrontendAlloc
  BY <1>8 DEF FrontendAlloc, FailFront, Goto
<1>9. CASE FrontendSetup
  <2>1. (1 .. Front) \ {Front} = 1 .. frontendCnt
    OBVIOUS
  <2>2. CASE Goto("fronts") /\ owned' = owned \ {Front} /\ UNCHANGED <<frontendCnt, err>>
    BY <1>9, <2>1, <2>2 DEF FrontendSetup, Goto
  <2>3. CASE FailFront /\ err' = TRUE /\ UNCHANGED owned
    BY <1>9, <2>3 DEF FrontendSetup, FailFront, Goto
  <2> QED
    BY <1>9, <2>2, <2>3 DEF FrontendSetup
<1>10. CASE NetListen
  BY <1>10 DEF NetListen, Fail, Goto
<1>11. CASE LoopEnds
  BY <1>11 DEF LoopEnds, Goto
<1>12. CASE FrontendFree
  BY <1>12 DEF FrontendFree
<1>13. CASE FbFree
  BY <1>13 DEF FbFree, Goto
<1>14. CASE FreeName
  BY <1>14 DEF FreeName
<1>15. CASE WorkqueueDeinit
  BY <1>15 DEF WorkqueueDeinit, Goto
<1>16. CASE Return
  BY <1>16 DEF Return, Goto
<1>17. CASE FrontendQuits
  BY <1>17 DEF FrontendQuits
<1>18. CASE RxPoll
  BY <1>18 DEF RxPoll
<1>19. CASE ~Over /\ RxDraw
  BY <1>19 DEF RxDraw
<1>20. CASE RxBurstEnds
  BY <1>20 DEF RxBurstEnds
<1>21. CASE RxClose
  BY <1>21 DEF RxClose
<1>22. CASE ~Over /\ Signal
  BY <1>22 DEF Signal, Goto
<1>23. CASE Ended \/ UNCHANGED vars
  BY <1>23 DEF Ended, vars
<1> QED
  BY <1>1, <1>2, <1>3, <1>4, <1>5, <1>6, <1>7, <1>8, <1>9, <1>10, <1>11, <1>12,
     <1>13, <1>14, <1>15, <1>16, <1>17, <1>18, <1>19, <1>20, <1>21, <1>22, <1>23
     DEF Next, MainStep, RxStep

-----------------------------------------------------------------------------
(* The framebuffer lives while the main loop runs.                         *)

LEMMA DrawingStep == IInv /\ [Next]_vars => DrawingInv'
<1> SUFFICES ASSUME IInv, [Next]_vars
             PROVE  DrawingInv'
  OBVIOUS
<1> USE DEF IInv, TypeOK, DrawingInv, NamesInv, Starting, GoingDown,
   FaultsConfined, startVars, frontVars, netVars
<1>1. CASE OptionFrontend
  BY <1>1 DEF OptionFrontend
<1>2. CASE OptionFails
  BY <1>2 DEF OptionFails, Fail, Goto
<1>3. CASE OptionsEnd
  BY <1>3 DEF OptionsEnd, Goto
<1>4. CASE ~Over /\ WorkqueueInit
  BY <1>4 DEF WorkqueueInit, Fail, Goto, Over
<1>5. CASE FbAlloc
  BY <1>5 DEF FbAlloc, Fail, Goto
<1>6. CASE NextFrontend
  BY <1>6 DEF NextFrontend, Goto
<1>7. CASE FrontendUnknown
  BY <1>7 DEF FrontendUnknown, FailFront, Goto
<1>8. CASE FrontendAlloc
  BY <1>8, AppendProperties DEF FrontendAlloc, FailFront, Goto, Front, Kind
<1>9. CASE FrontendSetup
  BY <1>9 DEF FrontendSetup, FailFront, Goto
<1>10. CASE NetListen
  BY <1>10 DEF NetListen, Fail, Goto
<1>11. CASE LoopEnds
  BY <1>11 DEF LoopEnds, Goto
<1>12. CASE FrontendFree
  BY <1>12 DEF FrontendFree
<1>13. CASE ~Over /\ FbFree
  BY <1>13 DEF FbFree, Goto, Over
<1>14. CASE FreeName
  BY <1>14 DEF FreeName
<1>15. CASE WorkqueueDeinit
  BY <1>15 DEF WorkqueueDeinit, Goto
<1>16. CASE Return
  BY <1>16 DEF Return, Goto
<1>17. CASE FrontendQuits
  BY <1>17 DEF FrontendQuits
<1>18. CASE RxPoll
  BY <1>18 DEF RxPoll
<1>19. CASE ~Over /\ RxDraw
  BY <1>19 DEF RxDraw, Over
<1>20. CASE RxBurstEnds
  BY <1>20 DEF RxBurstEnds
<1>21. CASE RxClose
  BY <1>21 DEF RxClose
<1>22. CASE ~Over /\ Signal
  BY <1>22 DEF Signal, Goto, Over
<1>23. CASE Ended \/ UNCHANGED vars
  BY <1>23 DEF Ended, vars
<1> QED
  BY <1>1, <1>2, <1>3, <1>4, <1>5, <1>6, <1>7, <1>8, <1>9, <1>10, <1>11, <1>12,
     <1>13, <1>14, <1>15, <1>16, <1>17, <1>18, <1>19, <1>20, <1>21, <1>22, <1>23
     DEF Next, MainStep, RxStep

-----------------------------------------------------------------------------
(* main goes down with an error or because of an unknown frontend.         *)

LEMMA ReasonStep == IInv /\ [Next]_vars => ReasonInv'
<1> SUFFICES ASSUME IInv, [Next]_vars
             PROVE  ReasonInv'
  OBVIOUS
<1> USE DEF IInv, TypeOK, DrawingInv, NamesInv, ReasonInv, SomeUnknown,
   GoingDown, startVars, frontVars, netVars
<1>1. CASE OptionFrontend
  BY <1>1 DEF OptionFrontend
<1>2. CASE OptionFails
  BY <1>2 DEF OptionFails, Fail, Goto
<1>3. CASE OptionsEnd
  BY <1>3 DEF OptionsEnd, Goto
<1>4. CASE ~Over /\ WorkqueueInit
  BY <1>4 DEF WorkqueueInit, Fail, Goto
<1>5. CASE FbAlloc
  BY <1>5 DEF FbAlloc, Fail, Goto
<1>6. CASE NextFrontend
  BY <1>6 DEF NextFrontend, Goto
<1>7. CASE FrontendUnknown
  BY <1>7 DEF FrontendUnknown, FailFront, Goto, Front, Kind
<1>8. CASE FrontendAlloc
  BY <1>8 DEF FrontendAlloc, FailFront, Goto
<1>9. CASE FrontendSetup
  BY <1>9 DEF FrontendSetup, FailFront, Goto
<1>10. CASE NetListen
  BY <1>10 DEF NetListen, Fail, Goto
<1>11. CASE LoopEnds
  BY <1>11 DEF LoopEnds, Goto
<1>12. CASE FrontendFree
  BY <1>12 DEF FrontendFree
<1>13. CASE FbFree
  BY <1>13 DEF FbFree, Goto
<1>14. CASE FreeName
  BY <1>14 DEF FreeName
<1>15. CASE WorkqueueDeinit
  BY <1>15 DEF WorkqueueDeinit, Goto
<1>16. CASE Return
  BY <1>16 DEF Return, Goto
<1>17. CASE FrontendQuits
  BY <1>17 DEF FrontendQuits
<1>18. CASE RxPoll
  BY <1>18 DEF RxPoll
<1>19. CASE ~Over /\ RxDraw
  BY <1>19 DEF RxDraw
<1>20. CASE RxBurstEnds
  BY <1>20 DEF RxBurstEnds
<1>21. CASE RxClose
  BY <1>21 DEF RxClose
<1>22. CASE ~Over /\ Signal
  BY <1>22 DEF Signal, Goto
<1>23. CASE Ended \/ UNCHANGED vars
  BY <1>23 DEF Ended, vars
<1> QED
  BY <1>1, <1>2, <1>3, <1>4, <1>5, <1>6, <1>7, <1>8, <1>9, <1>10, <1>11, <1>12,
     <1>13, <1>14, <1>15, <1>16, <1>17, <1>18, <1>19, <1>20, <1>21, <1>22, <1>23
     DEF Next, MainStep, RxStep

-----------------------------------------------------------------------------
(* The theorems.                                                           *)

(* Every reachable state of the server satisfies the inductive invariant,  *)
(* for any number of -f options and any outcome of the start.              *)
THEOREM InvariantHolds == Spec => []IInv
<1>1. IInv /\ [Next]_vars => IInv'
  BY TypeStep, NamesStep, DrawingStep, ReasonStep DEF IInv
<1> QED
  BY InitInv, <1>1, PTL DEF Spec

(* Every variable keeps its type: frontend_cnt never leaves the array of   *)
(* names and frontend_free is never called on more than was registered.    *)
THEOREM TypeCorrect == Spec => []TypeOK
<1>1. IInv => TypeOK
  BY DEF IInv
<1> QED
  BY InvariantHolds, <1>1, PTL

(* The counting of names through the labels fail_fronts_free_name,         *)
(* fail_fronts and fail frees each of them exactly once.                   *)
THEOREM NamesFreed == Spec => []NamesFreedExactlyOnce
<1>1. IInv => NamesFreedExactlyOnce
  BY DEF IInv, NamesInv, NamesFreedExactlyOnce
<1> QED
  BY InvariantHolds, <1>1, PTL

(* What was freed is used only by a frontend's end of the main loop, by    *)
(* the walk over the freed frontends, or after workqueue_init has failed;  *)
(* a signal never leads there.                                             *)
THEOREM FaultsAreConfined == Spec => []FaultsConfined
<1>1. IInv => FaultsConfined
  BY DEF IInv, DrawingInv
<1> QED
  BY InvariantHolds, <1>1, PTL

(* An exit status of 0 means that a frontend was unknown.                  *)
THEOREM ZeroExit == Spec => []ZeroMeansUnknownFrontend
<1>1. IInv => ZeroMeansUnknownFrontend
  BY DEF IInv, ReasonInv, GoingDown, SomeUnknown, ZeroMeansUnknownFrontend
<1> QED
  BY InvariantHolds, <1>1, PTL
=============================================================================
