--------------------------- MODULE WorkqueueProofs ---------------------------
(***************************************************************************)
(* What TLC checks of Workqueue for two queues and three jobs, proved for  *)
(* any number of queues and any set of jobs: the safety invariants and     *)
(* that Workqueue implements JobQueue.                                     *)
(*                                                                         *)
(* The inductive invariant adds to TypeOK that a worker that looks at the  *)
(* queue holds its mutex (Holding), that an entry is in one place at a     *)
(* time (Distinct), that a queue which is waited on was found empty        *)
(* (NotForgotten), how far workqueue_init and workqueue_deinit have come   *)
(* (Stopping) and which entries were cleaned up (Accounted).               *)
(***************************************************************************)
EXTENDS Workqueue, SequenceTheorems, TLAPS

Holding ==
  \A q \in Nodes :
    /\ worker[q] = "run" <=> current[q] # NoJob
    /\ worker[q] \in {"check", "wait", "drain", "run"} => lock[q] = "worker"
    /\ worker[q] \in {"none", "start"} => ~served[q]

Slots(q) == 1 .. Len(entries[q])

\* Nobody else has the entry j: it is in no queue, run by no worker and not
\* freed.
Alone(j) ==
  /\ j \in known \ over
  /\ \A q \in Nodes : current[q] # j
  /\ \A q \in Nodes : \A i \in Slots(q) : entries[q][i] # j

Distinct ==
  /\ \A q \in Nodes : \A i \in Slots(q) : entries[q][i] \in known \ over
  /\ \A q \in Nodes : current[q] # NoJob => current[q] \in known \ over
  /\ \A p, q \in Nodes : \A i \in Slots(p), k \in Slots(q) :
       entries[p][i] = entries[q][k] => p = q /\ i = k
  /\ \A p, q \in Nodes : \A i \in Slots(q) : current[p] # entries[q][i]
  /\ \A p, q \in Nodes : current[p] = current[q] /\ current[p] # NoJob => p = q
  /\ main.pc = "append" => Alone(main.job)

NotForgotten ==
  \A q \in Nodes :
    served[q] /\ entries[q] # <<>> =>
      /\ worker[q] = "check" => doExit[q]
      /\ worker[q] # "wait"
      /\ worker[q] = "waiting" => main.pc = "signal" /\ main.q = q

Stopped(q) == worker[q] = "joined" /\ entries[q] = <<>>

Stopping ==
  /\ main.pc = "create" => \A q \in Nodes : q >= main.q => worker[q] = "none"
  /\ main.pc \in {"flag", "wake", "join", "drop"} /\ ~main.undo =>
       \A q \in Nodes : q < main.q => Stopped(q)
  /\ main.pc = "drop" => worker[main.q] = "joined"
  /\ main.pc = "done" => \A q \in Nodes : Stopped(q)
  /\ main.pc \in {"create", "idle", "append", "signal"} =>
       \A q \in Nodes : worker[q] # "joined"

Accounted == (over \ settled) \intersect hasCleanup = cleaned

IInv ==
  /\ TypeOK /\ Holding /\ Distinct
  /\ NotForgotten /\ Stopping /\ Accounted

Pcs == {"create", "undone", "idle", "append", "signal", "flag", "wake", "join",
        "drop", "done"}
Mains == [pc : Pcs, q : Nodes, job : Jobs \union {NoJob}, undo : BOOLEAN]

-----------------------------------------------------------------------------
(* What the actions do to sequences and to the record of the main thread.  *)

(* llist_get_entry(0) and llist_remove: the rest moves one place forward.  *)
LEMMA TakeFirst ==
  ASSUME NEW s \in Seq(Jobs), s # <<>>
  PROVE  /\ Len(s) \in Nat \ {0}
         /\ Head(s) = s[1] /\ s[1] \in Jobs
         /\ Tail(s) \in Seq(Jobs)
         /\ Len(Tail(s)) = Len(s) - 1
         /\ \A i \in 1 .. Len(Tail(s)) : i + 1 \in 1 .. Len(s) /\ Tail(s)[i] = s[i + 1]
<1>1. Len(s) \in Nat \ {0}
  OBVIOUS
<1>2. /\ Tail(s) \in Seq(Jobs)
      /\ Len(Tail(s)) = Len(s) - 1
      /\ \A i \in 1 .. Len(Tail(s)) : Tail(s)[i] = s[i + 1]
  BY HeadTailProperties
<1>3. Head(s) = s[1] /\ s[1] \in Jobs
  BY <1>1
<1> QED
  BY <1>1, <1>2, <1>3

(* llist_append: the new entry comes last.                                 *)
LEMMA AddLast ==
  ASSUME NEW s \in Seq(Jobs), NEW j \in Jobs
  PROVE  /\ Len(s) \in Nat
         /\ Append(s, j) \in Seq(Jobs) /\ Append(s, j) # <<>>
         /\ Len(Append(s, j)) = Len(s) + 1
         /\ \A i \in 1 .. Len(Append(s, j)) :
              \/ i \in 1 .. Len(s) /\ Append(s, j)[i] = s[i]
              \/ i = Len(s) + 1 /\ Append(s, j)[i] = j
<1>1. /\ Append(s, j) \in Seq(Jobs) /\ Append(s, j) # <<>>
      /\ Len(Append(s, j)) = Len(s) + 1
      /\ \A i \in 1 .. Len(s) : Append(s, j)[i] = s[i]
      /\ Append(s, j)[Len(s) + 1] = j
  BY AppendProperties
<1>2. Len(s) \in Nat
  OBVIOUS
<1> QED
  BY <1>1, <1>2

LEMMA MainTypes ==
  ASSUME NEW pc \in Pcs, NEW q \in Nodes
  PROVE  At(pc, q) \in Mains /\ Undo(pc, q) \in Mains
BY DEF At, Undo, Mains

LEMMA NodeZero == 0 \in Nodes
BY WorkqueueAssumption DEF WorkqueueAssumption, Nodes

LEMMA NextNode ==
  ASSUME NEW q \in Nodes
  PROVE  /\ q \in Nat
         /\ q + 1 < NumQueues => q + 1 \in Nodes
         /\ ~(q + 1 < NumQueues) => \A p \in Nodes : p < q \/ p = q
         /\ q # 0 => q - 1 \in Nodes
BY WorkqueueAssumption DEF WorkqueueAssumption, Nodes

LEMMA InitInv == Init => IInv
BY WorkqueueAssumption, NodeZero
   DEF Init, At, WorkqueueAssumption, IInv, TypeOK, Holding, Distinct, NotForgotten,
       Stopping, Accounted, Slots, Alone

-----------------------------------------------------------------------------
(* Type correctness.                                                       *)

LEMMA TypeStep == IInv /\ [Next]_vars => TypeOK'
<1> SUFFICES ASSUME IInv, [Next]_vars
             PROVE  TypeOK'
  OBVIOUS
<1> USE DEF IInv, TypeOK, queueVars, workerVars, optionVars, outcomeVars
<1>1. ASSUME NEW q \in Nodes, WorkerStep(q) \/ SpuriousWakeup(q)
      PROVE  TypeOK'
  <2> USE <1>1 DEF Move, TakeLock
  <2>0. worker[q] = "run" => current[q] \in known
    BY DEF Holding, Distinct
  <2>1. CASE WorkerStart(q)
    BY <2>1 DEF WorkerStart
  <2>2. CASE CheckExit(q)
    BY <2>2 DEF CheckExit
  <2>3. CASE CondWait(q)
    BY <2>3 DEF CondWait
  <2>4. CASE SpuriousWakeup(q)
    BY <2>4 DEF SpuriousWakeup
  <2>5. CASE CondReturn(q)
    BY <2>5 DEF CondReturn
  <2>6. CASE TakeEntry(q)
    BY <2>6, TakeFirst DEF TakeEntry
  <2>7. CASE DrainEnds(q)
    BY <2>7 DEF DrainEnds
  <2>8. CASE EntrySettled(q)
    BY <2>0, <2>8 DEF EntrySettled, EndEntry
  <2>9. CASE EntryFails(q)
    BY <2>0, <2>9 DEF EntryFails, EndEntry, CleanUp
  <2>10. CASE EntryKillsWorker(q)
    BY <2>0, <2>10 DEF EntryKillsWorker, EndEntry, CleanUp
  <2> QED
    BY <2>1, <2>2, <2>3, <2>4, <2>5, <2>6, <2>7, <2>8, <2>9, <2>10 DEF WorkerStep
<1>2. ASSUME MainStep \/ MainChoice
      PROVE  TypeOK'
  <2> USE <1>2, MainTypes, NodeZero DEF Mains, Pcs
  <2>1. CASE CreateThread
    BY <2>1, NextNode DEF CreateThread
  <2>2. CASE CreateFails
    BY <2>2, NextNode DEF CreateFails
  <2>3. CASE DeinitAfterFailure
    BY <2>3 DEF DeinitAfterFailure
  <2>4. CASE Enqueue
    <3>1. PICK q \in Nodes, j \in Jobs \ known, e \in BOOLEAN, c \in BOOLEAN :
            /\ main' = [At("append", q) EXCEPT !.job = j]
            /\ known' = known \union {j}
            /\ hasErr' = IF e THEN hasErr \union {j} ELSE hasErr
            /\ hasCleanup' = IF c THEN hasCleanup \union {j} ELSE hasCleanup
      BY <2>4 DEF Enqueue
    <3>2. main' \in Mains
      BY <3>1, ZenonT(40) DEF At
    <3> QED
      BY <2>4, <3>1, <3>2 DEF Enqueue
  <2>5. CASE EnqueueRejects
    BY <2>5 DEF EnqueueRejects
  <2>6. CASE EnqueueAppend
    BY <2>6, AddLast DEF EnqueueAppend, Distinct, Alone
  <2>7. CASE EnqueueSignal
    BY <2>7 DEF EnqueueSignal, Broadcast
  <2>8. CASE Deinit
    BY <2>8 DEF Deinit
  <2>9. CASE StopFlag
    BY <2>9 DEF StopFlag
  <2>10. CASE StopSignal
    BY <2>10 DEF StopSignal, Broadcast
  <2>11. CASE StopJoin
    BY <2>11 DEF StopJoin, Move
  <2>12. CASE StopDrop
    BY <2>12, TakeFirst DEF StopDrop, CleanUp, Distinct, Slots
  <2>13. CASE StopNext
    BY <2>13, NextNode DEF StopNext
  <2> QED
    BY <2>1, <2>2, <2>3, <2>4, <2>5, <2>6, <2>7, <2>8, <2>9, <2>10, <2>11, <2>12,
       <2>13 DEF MainStep, MainChoice
<1>3. CASE Finished \/ UNCHANGED vars
  BY <1>3 DEF Finished, vars
<1> QED
  BY <1>1, <1>2, <1>3 DEF Next

-----------------------------------------------------------------------------
(* A worker that is not waiting holds its mutex.                           *)

LEMMA HoldingStep == IInv /\ [Next]_vars => Holding'
<1> SUFFICES ASSUME IInv, [Next]_vars
             PROVE  Holding'
  OBVIOUS
<1> USE DEF IInv, TypeOK, Holding, queueVars, workerVars, optionVars, outcomeVars
<1>1. ASSUME NEW n \in Nodes, WorkerStep(n) \/ SpuriousWakeup(n)
      PROVE  Holding'
  <2> USE <1>1 DEF Move, TakeLock
  <2>1. CASE WorkerStart(n)
    BY <2>1 DEF WorkerStart
  <2>2. CASE CheckExit(n)
    BY <2>2 DEF CheckExit
  <2>3. CASE CondWait(n)
    BY <2>3 DEF CondWait
  <2>4. CASE SpuriousWakeup(n)
    BY <2>4 DEF SpuriousWakeup
  <2>5. CASE CondReturn(n)
    BY <2>5 DEF CondReturn
  <2>6. CASE TakeEntry(n)
    BY <2>6, TakeFirst, WorkqueueAssumption DEF TakeEntry, WorkqueueAssumption
  <2>7. CASE DrainEnds(n)
    BY <2>7 DEF DrainEnds
  <2>8. CASE EntrySettled(n)
    BY <2>8 DEF EntrySettled, EndEntry
  <2>9. CASE EntryFails(n)
    BY <2>9 DEF EntryFails, EndEntry, CleanUp
  <2>10. CASE EntryKillsWorker(n)
    BY <2>10 DEF EntryKillsWorker, EndEntry, CleanUp
  <2> QED
    BY <2>1, <2>2, <2>3, <2>4, <2>5, <2>6, <2>7, <2>8, <2>9, <2>10 DEF WorkerStep
<1>2. ASSUME MainStep \/ MainChoice
      PROVE  Holding'
  <2> USE <1>2 DEF At, Undo
  <2>1. CASE CreateThread
    BY <2>1, NextNode DEF CreateThread, Stopping
  <2>2. CASE CreateFails
    BY <2>2 DEF CreateFails
  <2>3. CASE DeinitAfterFailure
    BY <2>3 DEF DeinitAfterFailure
  <2>4. CASE Enqueue
    BY <2>4 DEF Enqueue
  <2>5. CASE EnqueueRejects
    BY <2>5 DEF EnqueueRejects
  <2>6. CASE EnqueueAppend
    BY <2>6 DEF EnqueueAppend
  <2>7. CASE EnqueueSignal
    BY <2>7 DEF EnqueueSignal, Broadcast
  <2>8. CASE Deinit
    BY <2>8 DEF Deinit
  <2>9. CASE StopFlag
    BY <2>9 DEF StopFlag
  <2>10. CASE StopSignal
    BY <2>10 DEF StopSignal, Broadcast
  <2>11. CASE StopJoin
    BY <2>11 DEF StopJoin, Move
  <2>12. CASE StopDrop
    BY <2>12 DEF StopDrop, CleanUp
  <2>13. CASE StopNext
    BY <2>13 DEF StopNext
  <2> QED
    BY <2>1, <2>2, <2>3, <2>4, <2>5, <2>6, <2>7, <2>8, <2>9, <2>10, <2>11, <2>12,
       <2>13 DEF MainStep, MainChoice
<1>3. CASE Finished \/ UNCHANGED vars
  BY <1>3 DEF Finished, vars
<1> QED
  BY <1>1, <1>2, <1>3 DEF Next

-----------------------------------------------------------------------------
(* A worker goes to wait on an empty queue, except the first time.         *)

LEMMA NotForgottenStep == IInv /\ [Next]_vars => NotForgotten'
<1> SUFFICES ASSUME IInv, [Next]_vars
             PROVE  NotForgotten'
  OBVIOUS
<1> USE DEF IInv, TypeOK, Holding, NotForgotten, queueVars, workerVars,
   optionVars, outcomeVars
<1>1. ASSUME NEW n \in Nodes, WorkerStep(n) \/ SpuriousWakeup(n)
      PROVE  NotForgotten'
  <2> USE <1>1 DEF Move, TakeLock
  <2>1. CASE WorkerStart(n)
    BY <2>1 DEF WorkerStart
  <2>2. CASE CheckExit(n)
    BY <2>2 DEF CheckExit
  <2>3. CASE CondWait(n)
    BY <2>3 DEF CondWait
  <2>4. CASE SpuriousWakeup(n)
    BY <2>4 DEF SpuriousWakeup
  <2>5. CASE CondReturn(n)
    BY <2>5 DEF CondReturn
  <2>6. CASE TakeEntry(n)
    BY <2>6, TakeFirst DEF TakeEntry
  <2>7. CASE DrainEnds(n)
    BY <2>7 DEF DrainEnds
  <2>8. CASE EntrySettled(n)
    BY <2>8 DEF EntrySettled, EndEntry
  <2>9. CASE EntryFails(n)
    BY <2>9 DEF EntryFails, EndEntry, CleanUp
  <2>10. CASE EntryKillsWorker(n)
    BY <2>10 DEF EntryKillsWorker, EndEntry, CleanUp
  <2> QED
    BY <2>1, <2>2, <2>3, <2>4, <2>5, <2>6, <2>7, <2>8, <2>9, <2>10 DEF WorkerStep
<1>2. ASSUME MainStep \/ MainChoice
      PROVE  NotForgotten'
  <2> USE <1>2 DEF At, Undo
  <2>1. CASE CreateThread
    BY <2>1 DEF CreateThread
  <2>2. CASE CreateFails
    BY <2>2 DEF CreateFails
  <2>3. CASE DeinitAfterFailure
    BY <2>3 DEF DeinitAfterFailure
  <2>4. CASE Enqueue
    BY <2>4 DEF Enqueue
  <2>5. CASE EnqueueRejects
    BY <2>5 DEF EnqueueRejects
  <2>6. CASE EnqueueAppend
    BY <2>6, AddLast DEF EnqueueAppend
  <2>7. CASE EnqueueSignal
    BY <2>7 DEF EnqueueSignal, Broadcast
  <2>8. CASE Deinit
    BY <2>8 DEF Deinit
  <2>9. CASE StopFlag
    BY <2>9 DEF StopFlag
  <2>10. CASE StopSignal
    BY <2>10 DEF StopSignal, Broadcast
  <2>11. CASE StopJoin
    BY <2>11 DEF StopJoin, Move
  <2>12. CASE StopDrop
    BY <2>12, TakeFirst DEF StopDrop, CleanUp
  <2>13. CASE StopNext
    BY <2>13 DEF StopNext
  <2> QED
    BY <2>1, <2>2, <2>3, <2>4, <2>5, <2>6, <2>7, <2>8, <2>9, <2>10, <2>11, <2>12,
       <2>13 DEF MainStep, MainChoice
<1>3. CASE Finished \/ UNCHANGED vars
  BY <1>3 DEF Finished, vars
<1> QED
  BY <1>1, <1>2, <1>3 DEF Next

-----------------------------------------------------------------------------
(* workqueue_deinit stops the queues one after the other.                  *)

LEMMA StoppingStep == IInv /\ [Next]_vars => Stopping'
<1> SUFFICES ASSUME IInv, [Next]_vars
             PROVE  Stopping'
  OBVIOUS
<1> USE DEF IInv, TypeOK, Stopping, Stopped, queueVars, workerVars, optionVars,
   outcomeVars
<1>1. ASSUME NEW n \in Nodes, WorkerStep(n) \/ SpuriousWakeup(n)
      PROVE  Stopping'
  <2> USE <1>1 DEF Move, TakeLock
  <2>1. CASE WorkerStart(n)
    BY <2>1 DEF WorkerStart
  <2>2. CASE CheckExit(n)
    BY <2>2 DEF CheckExit
  <2>3. CASE CondWait(n)
    BY <2>3 DEF CondWait
  <2>4. CASE SpuriousWakeup(n)
    BY <2>4 DEF SpuriousWakeup
  <2>5. CASE CondReturn(n)
    BY <2>5 DEF CondReturn
  <2>6. CASE TakeEntry(n)
    BY <2>6, TakeFirst DEF TakeEntry
  <2>7. CASE DrainEnds(n)
    BY <2>7 DEF DrainEnds
  <2>8. CASE EntrySettled(n)
    BY <2>8 DEF EntrySettled, EndEntry
  <2>9. CASE EntryFails(n)
    BY <2>9 DEF EntryFails, EndEntry, CleanUp
  <2>10. CASE EntryKillsWorker(n)
    BY <2>10 DEF EntryKillsWorker, EndEntry, CleanUp
  <2> QED
    BY <2>1, <2>2, <2>3, <2>4, <2>5, <2>6, <2>7, <2>8, <2>9, <2>10 DEF WorkerStep
<1>2. ASSUME MainStep \/ MainChoice
      PROVE  Stopping'
  <2> USE <1>2 DEF At, Undo
  <2>1. CASE CreateThread
    BY <2>1, NextNode DEF CreateThread, Nodes
  <2>2. CASE CreateFails
    BY <2>2 DEF CreateFails
  <2>3. CASE DeinitAfterFailure
    BY <2>3 DEF DeinitAfterFailure
  <2>4. CASE Enqueue
    BY <2>4 DEF Enqueue
  <2>5. CASE EnqueueRejects
    BY <2>5 DEF EnqueueRejects
  <2>6. CASE EnqueueAppend
    BY <2>6, AddLast DEF EnqueueAppend
  <2>7. CASE EnqueueSignal
    BY <2>7 DEF EnqueueSignal, Broadcast
  <2>8. CASE Deinit
    BY <2>8, NextNode DEF Deinit, Nodes
  <2>9. CASE StopFlag
    BY <2>9 DEF StopFlag
  <2>10. CASE StopSignal
    BY <2>10 DEF StopSignal, Broadcast
  <2>11. CASE StopJoin
    BY <2>11 DEF StopJoin, Move
  <2>12. CASE StopDrop
    BY <2>12, TakeFirst DEF StopDrop, CleanUp
  <2>13. CASE StopNext
    <3>1. CASE main.undo
      BY <2>13, <3>1 DEF StopNext
    <3>2. CASE ~main.undo /\ main.q + 1 < NumQueues
      <4>1. main' = At("flag", main.q + 1)
        BY <2>13, <3>2 DEF StopNext
      <4>2. \A q \in Nodes : q < main.q + 1 => Stopped(q)
        <5>1. \A q \in Nodes : q < main.q + 1 => q < main.q \/ q = main.q
          BY DEF Nodes
        <5> QED
          BY <2>13, <3>2, <5>1 DEF StopNext
      <4> QED
        BY <2>13, <4>1, <4>2 DEF StopNext
    <3>3. CASE ~main.undo /\ ~(main.q + 1 < NumQueues)
      <4>1. main' = At("done", 0)
        BY <2>13, <3>3 DEF StopNext
      <4>2. \A q \in Nodes : Stopped(q)
        BY <2>13, <3>3, NextNode DEF StopNext
      <4> QED
        BY <2>13, <4>1, <4>2 DEF StopNext
    <3> QED
      BY <3>1, <3>2, <3>3
  <2> QED
    BY <2>1, <2>2, <2>3, <2>4, <2>5, <2>6, <2>7, <2>8, <2>9, <2>10, <2>11, <2>12,
       <2>13 DEF MainStep, MainChoice
<1>3. CASE Finished \/ UNCHANGED vars
  BY <1>3 DEF Finished, vars
<1> QED
  BY <1>1, <1>2, <1>3 DEF Next

-----------------------------------------------------------------------------
(* An entry is cleaned up unless it was settled.                           *)

LEMMA AccountedStep == IInv /\ [Next]_vars => Accounted'
<1> SUFFICES ASSUME IInv, [Next]_vars
             PROVE  Accounted'
  OBVIOUS
<1> USE DEF IInv, TypeOK, Holding, Distinct, Accounted, Slots, queueVars,
   workerVars, optionVars, outcomeVars
<1>1. ASSUME NEW n \in Nodes, WorkerStep(n) \/ SpuriousWakeup(n)
      PROVE  Accounted'
  <2> USE <1>1 DEF Move, TakeLock
  <2>1. CASE WorkerStart(n)
    BY <2>1 DEF WorkerStart
  <2>2. CASE CheckExit(n)
    BY <2>2 DEF CheckExit
  <2>3. CASE CondWait(n)
    BY <2>3 DEF CondWait
  <2>4. CASE SpuriousWakeup(n)
    BY <2>4 DEF SpuriousWakeup
  <2>5. CASE CondReturn(n)
    BY <2>5 DEF CondReturn
  <2>6. CASE TakeEntry(n)
    BY <2>6 DEF TakeEntry
  <2>7. CASE DrainEnds(n)
    BY <2>7 DEF DrainEnds
  <2>8. CASE EntrySettled(n)
    BY <2>8 DEF EntrySettled, EndEntry
  <2>9. CASE EntryFails(n)
    BY <2>9 DEF EntryFails, EndEntry, CleanUp
  <2>10. CASE EntryKillsWorker(n)
    BY <2>10 DEF EntryKillsWorker, EndEntry, CleanUp
  <2> QED
    BY <2>1, <2>2, <2>3, <2>4, <2>5, <2>6, <2>7, <2>8, <2>9, <2>10 DEF WorkerStep
<1>2. ASSUME MainStep \/ MainChoice
      PROVE  Accounted'
  <2> USE <1>2 DEF At, Undo
  <2>1. CASE CreateThread
    BY <2>1 DEF CreateThread
  <2>2. CASE CreateFails
    BY <2>2 DEF CreateFails
  <2>3. CASE DeinitAfterFailure
    BY <2>3 DEF DeinitAfterFailure
  <2>4. CASE Enqueue
    BY <2>4 DEF Enqueue
  <2>5. CASE EnqueueRejects
    BY <2>5 DEF EnqueueRejects
  <2>6. CASE EnqueueAppend
    BY <2>6 DEF EnqueueAppend
  <2>7. CASE EnqueueSignal
    BY <2>7 DEF EnqueueSignal, Broadcast
  <2>8. CASE Deinit
    BY <2>8 DEF Deinit
  <2>9. CASE StopFlag
    BY <2>9 DEF StopFlag
  <2>10. CASE StopSignal
    BY <2>10 DEF StopSignal, Broadcast
  <2>11. CASE StopJoin
    BY <2>11 DEF StopJoin, Move
  <2>12. CASE StopDrop
    BY <2>12, TakeFirst DEF StopDrop, CleanUp
  <2>13. CASE StopNext
    BY <2>13 DEF StopNext
  <2> QED
    BY <2>1, <2>2, <2>3, <2>4, <2>5, <2>6, <2>7, <2>8, <2>9, <2>10, <2>11, <2>12,
       <2>13 DEF MainStep, MainChoice
<1>3. CASE Finished \/ UNCHANGED vars
  BY <1>3 DEF Finished, vars
<1> QED
  BY <1>1, <1>2, <1>3 DEF Next

-----------------------------------------------------------------------------
(* An entry is in one place at a time.                                     *)

LEMMA DistinctStep == IInv /\ [Next]_vars => Distinct'
<1> SUFFICES ASSUME IInv, [Next]_vars
             PROVE  Distinct'
  OBVIOUS
<1> USE DEF IInv, TypeOK, Holding, Distinct, Slots, Alone, queueVars, workerVars,
   optionVars, outcomeVars
<1>1. ASSUME NEW n \in Nodes, WorkerStep(n) \/ SpuriousWakeup(n)
      PROVE  Distinct'
  <2> USE <1>1 DEF Move, TakeLock
  <2>0. ASSUME worker[n] = "run", EndEntry(n)
        PROVE  Distinct'
    <3>1. current[n] \in known \ over /\ \A p \in Nodes : current'[p] # current[n]
      BY <2>0, WorkqueueAssumption DEF EndEntry, WorkqueueAssumption
    <3>2. \A p \in Nodes : current'[p] = NoJob \/ current'[p] = current[p]
      BY <2>0 DEF EndEntry
    <3>3. \A p \in Nodes : \A i \in Slots(p) : entries[p][i] \in known \ over'
      BY <2>0 DEF EndEntry
    <3>4. \A p, q \in Nodes : \A i \in Slots(q) : current'[p] # entries[q][i]
      BY <3>2, <3>3, WorkqueueAssumption DEF WorkqueueAssumption
    <3>5. main.pc = "append" => Alone(main.job)'
      BY <2>0, <3>2, WorkqueueAssumption DEF EndEntry, WorkqueueAssumption
    <3> QED
      BY <2>0, <3>1, <3>2, <3>3, <3>4, <3>5 DEF EndEntry
  <2>1. CASE WorkerStart(n)
    BY <2>1 DEF WorkerStart
  <2>2. CASE CheckExit(n)
    BY <2>2 DEF CheckExit
  <2>3. CASE CondWait(n)
    BY <2>3 DEF CondWait
  <2>4. CASE SpuriousWakeup(n)
    BY <2>4 DEF SpuriousWakeup
  <2>5. CASE CondReturn(n)
    BY <2>5 DEF CondReturn
  <2>6. CASE TakeEntry(n)
    BY <2>6, TakeFirst, WorkqueueAssumption DEF TakeEntry
  <2>7. CASE DrainEnds(n)
    BY <2>7 DEF DrainEnds
  <2>8. CASE EntrySettled(n)
    BY <2>0, <2>8 DEF EntrySettled
  <2>9. CASE EntryFails(n)
    BY <2>0, <2>9 DEF EntryFails
  <2>10. CASE EntryKillsWorker(n)
    BY <2>0, <2>10 DEF EntryKillsWorker
  <2> QED
    BY <2>1, <2>2, <2>3, <2>4, <2>5, <2>6, <2>7, <2>8, <2>9, <2>10 DEF WorkerStep
<1>2. ASSUME MainStep \/ MainChoice
      PROVE  Distinct'
  <2> USE <1>2 DEF At, Undo
  <2>1. CASE CreateThread
    BY <2>1 DEF CreateThread
  <2>2. CASE CreateFails
    BY <2>2 DEF CreateFails
  <2>3. CASE DeinitAfterFailure
    BY <2>3 DEF DeinitAfterFailure
  <2>4. CASE Enqueue
    <3>1. PICK q \in Nodes, j \in Jobs \ known :
            /\ main' = [At("append", q) EXCEPT !.job = j]
            /\ known' = known \union {j}
      BY <2>4 DEF Enqueue
    <3>2. main'.job = j
      BY <3>1
    <3>3. Alone(j)'
      BY <2>4, <3>1, WorkqueueAssumption DEF Enqueue, WorkqueueAssumption
    <3> QED
      BY <2>4, <3>1, <3>2, <3>3 DEF Enqueue
  <2>5. CASE EnqueueRejects
    BY <2>5 DEF EnqueueRejects
  <2>6. CASE EnqueueAppend
    BY <2>6, AddLast DEF EnqueueAppend
  <2>7. CASE EnqueueSignal
    BY <2>7 DEF EnqueueSignal, Broadcast
  <2>8. CASE Deinit
    BY <2>8 DEF Deinit
  <2>9. CASE StopFlag
    BY <2>9 DEF StopFlag
  <2>10. CASE StopSignal
    BY <2>10 DEF StopSignal, Broadcast
  <2>11. CASE StopJoin
    BY <2>11 DEF StopJoin, Move
  <2>12. CASE StopDrop
    BY <2>12, TakeFirst DEF StopDrop, CleanUp
  <2>13. CASE StopNext
    BY <2>13 DEF StopNext
  <2> QED
    BY <2>1, <2>2, <2>3, <2>4, <2>5, <2>6, <2>7, <2>8, <2>9, <2>10, <2>11, <2>12,
       <2>13 DEF MainStep, MainChoice
<1>3. CASE Finished \/ UNCHANGED vars
  BY <1>3 DEF Finished, vars
<1> QED
  BY <1>1, <1>2, <1>3 DEF Next

-----------------------------------------------------------------------------
(* The theorems.                                                           *)

(* Every reachable state of workqueue.c satisfies the inductive invariant, *)
(* for any number of queues and any set of entries.                        *)
THEOREM InvariantHolds == Spec => []IInv
<1>1. IInv /\ [Next]_vars => IInv'
  BY TypeStep, HoldingStep, DistinctStep, NotForgottenStep, StoppingStep,
     AccountedStep
     DEF IInv
<1> QED
  BY InitInv, <1>1, PTL DEF Spec

(* Every variable keeps its type: an entry is never freed before it was    *)
(* accepted, nor settled or cleaned up without being freed.                *)
THEOREM TypeCorrect == Spec => []TypeOK
<1>1. IInv => TypeOK
  BY DEF IInv
<1> QED
  BY InvariantHolds, <1>1, PTL

(* A worker that has returned from pthread_cond_wait once never sleeps on  *)
(* work unless the broadcast of workqueue_enqueue is about to wake it.     *)
THEOREM NoForgottenWork == Spec => []ForgottenOnlyAtStart
<1>1. IInv => ForgottenOnlyAtStart
  BY DEF IInv, NotForgotten, ForgottenOnlyAtStart
<1> QED
  BY InvariantHolds, <1>1, PTL

(* When workqueue_deinit has returned no entry and no thread is left, and  *)
(* exactly the entries that did not end well had their cleanup callback    *)
(* called.                                                                 *)
THEOREM CleanShutdown == Spec => []NothingLeftBehind
<1>1. IInv => NothingLeftBehind
  BY DEF IInv, Holding, Stopping, Stopped, Accounted, NothingLeftBehind
<1> QED
  BY InvariantHolds, <1>1, PTL

(* What Llist assumes of its callers: the entry that workqueue_enqueue is  *)
(* about to append is in no queue, run by no worker and not freed.         *)
THEOREM AppendsAreOnNoList == Spec => [](main.pc = "append" => Alone(main.job))
<1>1. IInv => (main.pc = "append" => Alone(main.job))
  BY DEF IInv, Distinct
<1> QED
  BY InvariantHolds, <1>1, PTL

\* The thread that changes the list of q excludes all others: it holds the
\* mutex, can take it, or is main when the worker of q has been joined.
Excluding(q) ==
  \/ worker[q] = "drain" /\ lock[q] = "worker"
  \/ main.pc = "append" /\ main.q = q /\ lock[q] = "free"
  \/ main.pc = "drop" /\ main.q = q /\ worker[q] = "joined"

(* stop_workqueue empties the list without the mutex, workqueue_enqueue    *)
(* and work_thread change it under the mutex: no two threads are ever in   *)
(* llist_append or llist_remove of the same list.                          *)
THEOREM ListsAreGuarded ==
  Spec => [][\A q \in Nodes : entries'[q] # entries[q] => Excluding(q)]_vars
<1>1. IInv /\ [Next]_vars => \A q \in Nodes : entries'[q] # entries[q] => Excluding(q)
  <2> SUFFICES ASSUME IInv, [Next]_vars, NEW q \in Nodes, entries'[q] # entries[q]
               PROVE  Excluding(q)
    OBVIOUS
  <2>0. main \in Mains /\ entries \in [Nodes -> Seq(Jobs)]
    BY DEF IInv, TypeOK, Mains, Pcs
  <2>1. CASE \E p \in Nodes : TakeEntry(p)
    <3>1. PICK p \in Nodes : TakeEntry(p) BY <2>1
    <3>2. p = q /\ worker[q] = "drain" BY <2>0, <3>1 DEF TakeEntry, Move
    <3> QED BY <3>2 DEF IInv, Holding, Excluding
  <2>2. CASE EnqueueAppend
    <3>1. main.q = q BY <2>0, <2>2 DEF EnqueueAppend, Mains
    <3> QED BY <2>2, <3>1 DEF EnqueueAppend, Excluding
  <2>3. CASE StopDrop
    <3>1. main.q = q BY <2>0, <2>3 DEF StopDrop, Mains
    <3> QED BY <2>3, <3>1 DEF StopDrop, IInv, Stopping, Excluding
  <2>4. CASE UNCHANGED entries
    BY <2>4
  <2> QED
    BY <2>1, <2>2, <2>3, <2>4
       DEF Next, Finished, vars, queueVars, workerVars, WorkerStep, MainStep, MainChoice,
           WorkerStart, CheckExit, CondWait, CondReturn, DrainEnds, EndEntry, EntrySettled,
           EntryFails, EntryKillsWorker, SpuriousWakeup, CreateThread, CreateFails,
           DeinitAfterFailure, Enqueue, EnqueueRejects, EnqueueSignal, Deinit, StopFlag,
           StopSignal, StopJoin, StopNext
<1> QED
  BY InvariantHolds, <1>1, PTL DEF Spec

-----------------------------------------------------------------------------
(* What liveness of the queues rests on: who holds a mutex, and how a      *)
(* worker can sleep through its stop.                                      *)

(* do_exit of a queue is set from its stop on and never before the first   *)
(* stop; a mutex is held by a worker at work, or for good by one that      *)
(* ended because of do_exit.                                               *)
Guarding ==
  /\ main.pc \in {"wake", "join"} => doExit[main.q]
  /\ main.pc \in {"create", "idle", "append", "signal"} => \A q \in Nodes : ~doExit[q]
  /\ \A q \in Nodes : lock[q] = "worker" =>
       \/ worker[q] \in {"check", "wait", "drain", "run"}
       \/ worker[q] \in {"exited", "joined"} /\ doExit[q]

LEMMA GuardingStep == IInv /\ Guarding /\ [Next]_vars => Guarding'
<1> SUFFICES ASSUME TypeOK, Stopping, Guarding, [Next]_vars PROVE Guarding'
  BY DEF IInv
<1>0. /\ main \in Mains
      /\ worker \in [Nodes -> {"none", "start", "check", "wait", "waiting", "woken",
                               "drain", "run", "exited", "joined"}]
      /\ lock \in [Nodes -> {"free", "worker"}] /\ doExit \in [Nodes -> BOOLEAN]
  BY DEF TypeOK, Mains, Pcs
<1>1. CASE \E q \in Nodes : WorkerStep(q) \/ SpuriousWakeup(q)
  <2>1. PICK q \in Nodes : WorkerStep(q) \/ SpuriousWakeup(q)
    BY <1>1
  <2>2. UNCHANGED <<main, doExit>>
    BY <2>1 DEF WorkerStep, WorkerStart, CheckExit, CondWait, SpuriousWakeup, CondReturn,
                TakeEntry, DrainEnds, EntrySettled, EntryFails, EntryKillsWorker,
                EndEntry, queueVars
  <2>3. /\ \A p \in Nodes : p # q => worker'[p] = worker[p] /\ lock'[p] = lock[p]
        /\ lock'[q] = "worker" =>
             \/ worker'[q] \in {"check", "wait", "drain", "run"}
             \/ worker'[q] = "exited" /\ doExit[q]
    BY <1>0, <2>1
       DEF Guarding, WorkerStep, WorkerStart, CheckExit, CondWait, SpuriousWakeup,
           CondReturn, TakeEntry, DrainEnds, EntrySettled, EntryFails, EntryKillsWorker,
           EndEntry, queueVars, Move, TakeLock
  <2> QED BY <2>2, <2>3 DEF Guarding
<1>2. CASE CreateThread
  <2>1. main.q \in Nodes /\ worker[main.q] = "none"
    <3>1. main.q \in Nodes /\ main.q >= main.q
      BY <1>0 DEF Mains, Nodes
    <3> QED BY <1>2, <3>1 DEF CreateThread, Stopping
  <2>2. UNCHANGED <<lock, doExit>> /\ lock[main.q] = "free"
    BY <1>0, <1>2, <2>1 DEF CreateThread, queueVars, Guarding
  <2>3. \A p \in Nodes : p # main.q => worker'[p] = worker[p]
    BY <1>0, <1>2 DEF CreateThread
  <2>4. main.pc = "create" /\ main'.pc \in {"create", "idle"}
    BY <1>2 DEF CreateThread, At
  <2> QED BY <2>2, <2>3, <2>4 DEF Guarding
<1>3. CASE EnqueueSignal \/ StopSignal
  <2>1. UNCHANGED <<lock, doExit>>
    BY <1>3 DEF EnqueueSignal, StopSignal, queueVars
  <2>2. \A q \in Nodes : worker'[q] = worker[q] \/ worker[q] = "waiting"
    BY <1>0, <1>3 DEF EnqueueSignal, StopSignal, Broadcast
  <2>3. CASE EnqueueSignal
    BY <2>1, <2>2, <2>3 DEF EnqueueSignal, At, Guarding
  <2>4. CASE StopSignal
    BY <1>0, <2>1, <2>2, <2>4 DEF StopSignal, Guarding, Mains
  <2> QED BY <1>3, <2>3, <2>4
<1>4. CASE StopFlag
  BY <1>0, <1>4 DEF StopFlag, workerVars, Guarding, Mains
<1>5. CASE StopJoin
  BY <1>0, <1>5 DEF StopJoin, Move, queueVars, Guarding, Mains
<1>6. CASE StopNext
  BY <1>0, <1>6 DEF StopNext, At, Undo, queueVars, workerVars, Guarding
<1>7. CASE EnqueueAppend \/ StopDrop
  BY <1>0, <1>7 DEF EnqueueAppend, StopDrop, workerVars, Guarding, Mains
<1>8. CASE CreateFails \/ DeinitAfterFailure \/ Enqueue \/ EnqueueRejects \/ Deinit
  <2>1. UNCHANGED <<lock, doExit, worker>>
    BY <1>8 DEF CreateFails, DeinitAfterFailure, Enqueue, EnqueueRejects, Deinit, queueVars,
                workerVars
  <2>2. \/ main' = main
        \/ main'.pc \in {"undone", "flag"}
        \/ main.pc = "idle" /\ main'.pc = "append"
    <3>1. CASE CreateFails \/ Deinit
      BY <1>0, <3>1 DEF CreateFails, Deinit, At, Undo, Mains
    <3>2. CASE Enqueue
      BY <1>0, <3>2 DEF Enqueue, At, Mains
    <3>3. CASE DeinitAfterFailure \/ EnqueueRejects
      BY <3>3 DEF DeinitAfterFailure, EnqueueRejects
    <3> QED BY <1>8, <3>1, <3>2, <3>3
  <2> QED BY <2>1, <2>2 DEF Guarding
<1>9. CASE Finished \/ UNCHANGED vars
  BY <1>9 DEF Finished, vars, queueVars, workerVars, Guarding
<1> QED
  BY <1>1, <1>2, <1>3, <1>4, <1>5, <1>6, <1>7, <1>8, <1>9 DEF Next, MainStep, MainChoice

LEMMA GuardingHolds == Spec => []Guarding
<1>1. Init => Guarding
  BY DEF Init, At, Guarding
<1> QED
  BY <1>1, GuardingStep, InvariantHolds, PTL DEF Spec

(* Whoever holds the mutex that workqueue_enqueue waits for is a worker at *)
(* work, never one that has ended: one that gives up because of an error   *)
(* releases it (workqueue.c:40), and none ends otherwise before the stop.  *)
THEOREM MutexNeverAbandoned ==
  Spec => [](main.pc = "append" /\ lock[main.q] = "worker"
               => worker[main.q] \in {"check", "wait", "drain", "run"})
<1>1. IInv /\ Guarding =>
        (main.pc = "append" /\ lock[main.q] = "worker"
           => worker[main.q] \in {"check", "wait", "drain", "run"})
  BY DEF IInv, TypeOK, Guarding
<1> QED
  BY <1>1, InvariantHolds, GuardingHolds, PTL

\* main waits for a worker that sleeps, or is going to, with nobody to wake it.
Hung(q) == main.pc = "join" /\ main.q = q /\ worker[q] \in {"wait", "waiting"}

(* stop_workqueue can only hang in one way: it broadcasts while the worker *)
(* is between its test of do_exit and pthread_cond_wait (workqueue.c:22    *)
(* and 23).  No other step of any thread leads there.                      *)
THEOREM HangsOnlyThroughWindow ==
  Spec => [][\A q \in Nodes :
               Hung(q)' => Hung(q) \/ (StopSignal /\ main.q = q /\ worker[q] = "wait")]_vars
<1>1. IInv /\ Guarding /\ [Next]_vars =>
        \A q \in Nodes :
          Hung(q)' => Hung(q) \/ (StopSignal /\ main.q = q /\ worker[q] = "wait")
  <2> SUFFICES ASSUME IInv, Guarding, [Next]_vars, NEW q \in Nodes, Hung(q)', ~Hung(q)
               PROVE  StopSignal /\ main.q = q /\ worker[q] = "wait"
    OBVIOUS
  <2>0. /\ main \in Mains
        /\ worker \in [Nodes -> {"none", "start", "check", "wait", "waiting", "woken",
                                 "drain", "run", "exited", "joined"}]
    BY DEF IInv, TypeOK, Mains, Pcs
  <2>1. CASE \E p \in Nodes : WorkerStep(p) \/ SpuriousWakeup(p)
    <3>1. PICK p \in Nodes : WorkerStep(p) \/ SpuriousWakeup(p)
      BY <2>1
    <3>2. main' = main
      BY <3>1 DEF WorkerStep, WorkerStart, CheckExit, CondWait, SpuriousWakeup, CondReturn,
                  TakeEntry, DrainEnds, EntrySettled, EntryFails, EntryKillsWorker,
                  EndEntry, queueVars
    <3>3. main.pc = "join" /\ main.q = q /\ doExit[q] /\ worker[q] \notin {"wait", "waiting"}
      BY <3>2 DEF Hung, Guarding
    <3>4. worker'[q] \notin {"wait", "waiting"}
      BY <2>0, <3>1, <3>3
         DEF WorkerStep, WorkerStart, CheckExit, CondWait, SpuriousWakeup, CondReturn,
             TakeEntry, DrainEnds, EntrySettled, EntryFails, EntryKillsWorker, Move
    <3> QED BY <3>4 DEF Hung
  <2>2. CASE StopSignal
    BY <2>0, <2>2 DEF StopSignal, Broadcast, Hung, Mains
  <2>3. CASE CreateThread \/ EnqueueAppend \/ EnqueueSignal \/ StopFlag \/ StopJoin
             \/ StopDrop \/ StopNext \/ MainChoice
    <3>1. main'.pc # "join"
      <4>1. CASE CreateThread \/ EnqueueAppend \/ EnqueueSignal \/ StopFlag \/ StopJoin
        BY <2>0, <4>1
           DEF CreateThread, EnqueueAppend, EnqueueSignal, StopFlag, StopJoin, At, Mains
      <4>2. CASE StopDrop \/ StopNext
        BY <2>0, <4>2 DEF StopDrop, StopNext, At, Undo, Mains
      <4>3. CASE CreateFails \/ DeinitAfterFailure \/ Deinit
        BY <2>0, <4>3 DEF CreateFails, DeinitAfterFailure, Deinit, At, Undo, Mains
      <4>4. CASE Enqueue \/ EnqueueRejects
        BY <2>0, <4>4 DEF Enqueue, EnqueueRejects, At, Mains
      <4> QED BY <2>3, <4>1, <4>2, <4>3, <4>4 DEF MainChoice
    <3> QED BY <3>1 DEF Hung
  <2>4. CASE Finished \/ UNCHANGED vars
    BY <2>4 DEF Finished, vars, workerVars, Hung
  <2> QED
    BY <2>1, <2>2, <2>3, <2>4 DEF Next, MainStep
<1> QED
  BY <1>1, InvariantHolds, GuardingHolds, PTL DEF Spec

-----------------------------------------------------------------------------
(* Refinement.                                                             *)

LEMMA InitRefines == Init => Promise!JobInit
BY DEF Init, Promise!JobInit

\* The entries main holds between calloc and llist_append are new to the queues.
LEMMA NotYetAccepted ==
  ASSUME IInv, main.pc = "append"
  PROVE  ~Promise!Accepted(main.job)
BY DEF IInv, TypeOK, Distinct, Alone, Slots, Promise!Accepted

LEMMA StepRefines == IInv /\ [Next]_vars => [Promise!JobNext]_Promise!jobVars
<1> SUFFICES ASSUME IInv, [Next]_vars
             PROVE  Promise!JobNext \/ UNCHANGED Promise!jobVars
  BY DEF Promise!JobNext, Promise!jobVars
<1> DEFINE Closed == {q \in Nodes : worker[q] = "joined"}
<1> USE DEF IInv, TypeOK, queueVars, workerVars, optionVars, outcomeVars,
   Promise!jobVars
<1>1. ASSUME NEW n \in Nodes, WorkerStep(n) \/ SpuriousWakeup(n)
      PROVE  Promise!JobNext \/ UNCHANGED Promise!jobVars
  <2>1. Closed' = Closed
    BY <1>1 DEF WorkerStep, SpuriousWakeup, WorkerStart, CheckExit, CondWait,
       CondReturn,
       TakeEntry, DrainEnds, EntrySettled, EntryFails, EntryKillsWorker, Move
  <2>2. CASE TakeEntry(n)
    <3>1. worker[n] = "drain" /\ current[n] = NoJob
      BY <2>2 DEF TakeEntry, Move, Holding
    <3>2. Promise!Start(n)
      BY <2>1, <2>2, <3>1 DEF TakeEntry, Promise!Start
    <3> QED
      BY <3>2 DEF Promise!JobNext
  <2>3. CASE EntrySettled(n) \/ EntryFails(n) \/ EntryKillsWorker(n)
    <3>1. worker[n] = "run" /\ current[n] # NoJob
      BY <2>3 DEF EntrySettled, EntryFails, EntryKillsWorker, Move, Holding
    <3>2. Promise!Finish(n)
      BY <2>1, <2>3, <3>1
         DEF EntrySettled, EntryFails, EntryKillsWorker, EndEntry, Promise!Finish
    <3> QED
      BY <3>2 DEF Promise!JobNext
  <2>4. CASE \/ WorkerStart(n) \/ CheckExit(n) \/ CondWait(n) \/ CondReturn(n)
             \/ DrainEnds(n) \/ SpuriousWakeup(n)
    BY <2>1, <2>4 DEF WorkerStart, CheckExit, CondWait, CondReturn, DrainEnds,
       SpuriousWakeup
  <2> QED
    BY <1>1, <2>2, <2>3, <2>4 DEF WorkerStep
<1>2. ASSUME MainStep \/ MainChoice
      PROVE  Promise!JobNext \/ UNCHANGED Promise!jobVars
  <2>1. CASE EnqueueAppend
    <3>1. main.job \in Jobs /\ main.q \notin Closed
      BY <2>1 DEF EnqueueAppend, Distinct, Alone, Stopping
    <3>2. Promise!Accept(main.q, main.job)
      BY <2>1, <3>1, NotYetAccepted DEF EnqueueAppend, Promise!Accept
    <3> QED
      BY <3>1, <3>2 DEF Promise!JobNext
  <2>2. CASE StopJoin
    <3>1. PICK q \in Nodes : q = main.q
      OBVIOUS
    <3>2. current[q] = NoJob
      BY <2>2, <3>1 DEF StopJoin, Move, Holding
    <3>3. Closed' = Closed \union {q}
      BY <2>2, <3>1 DEF StopJoin, Move
    <3>4. Promise!Close(q)
      BY <2>2, <3>2, <3>3 DEF StopJoin, Promise!Close
    <3> QED
      BY <3>4 DEF Promise!JobNext
  <2>3. CASE StopDrop
    <3>1. main.q \in Closed /\ Closed' = Closed
      BY <2>3 DEF StopDrop, Stopping
    <3>2. Promise!Drop(main.q)
      BY <2>3, <3>1 DEF StopDrop, Promise!Drop
    <3> QED
      BY <3>2 DEF Promise!JobNext
  <2>4. CASE EnqueueSignal \/ StopSignal \/ CreateThread
    <3>1. Closed' = Closed
      BY <2>4 DEF EnqueueSignal, StopSignal, CreateThread, Broadcast, Stopping
    <3> QED
      BY <2>4, <3>1 DEF EnqueueSignal, StopSignal, CreateThread
  <2>5. CASE \/ CreateFails \/ DeinitAfterFailure \/ Enqueue \/ EnqueueRejects
             \/ Deinit \/ StopFlag \/ StopNext
    BY <2>5 DEF CreateFails, DeinitAfterFailure, Enqueue, EnqueueRejects, Deinit,
       StopFlag, StopNext
  <2> QED
    BY <1>2, <2>1, <2>2, <2>3, <2>4, <2>5 DEF MainStep, MainChoice
<1>3. CASE Finished \/ UNCHANGED vars
  BY <1>3 DEF Finished, vars
<1> QED
  BY <1>1, <1>2, <1>3 DEF Next

(* workqueue.c is a job queue: with any number of queues it runs what it   *)
(* was given one at a time and in order, nothing twice, and nothing once   *)
(* stop_workqueue has joined the worker.                                   *)
THEOREM WorkqueueIsJobQueue == Spec => ImplementsJobQueue
<1>1. Init => Promise!JobInit
  BY InitRefines
<1>2. IInv /\ [Next]_vars => [Promise!JobNext]_Promise!jobVars
  BY StepRefines
<1> QED
  BY <1>1, <1>2, InvariantHolds, PTL DEF Spec, ImplementsJobQueue, Promise!JobSpec
=============================================================================
