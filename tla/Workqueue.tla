----------------------------- MODULE Workqueue -----------------------------
(***************************************************************************)
(* The work queues of the pixelflut server (workqueue.c): one list, mutex, *)
(* condition variable and worker thread for each queue, and the main       *)
(* thread that creates them, hands over work and stops them.               *)
(*                                                                         *)
(* A worker holds the mutex of its queue whenever it is not waiting, while *)
(* callbacks run as well.  The flag do_exit is written without the mutex.  *)
(* pthread_cond_broadcast wakes the threads that wait at that moment and   *)
(* is forgotten otherwise; a wait may also end without a broadcast.        *)
(***************************************************************************)
EXTENDS Naturals, Sequences

CONSTANTS
  NumQueues,   \* num_workqueues
  Jobs,        \* the struct workqueue_entry objects the program may enqueue
  NoJob        \* no entry

\* workqueue_init (workqueue.c:74-77) makes one queue when numa_available()
\* returns 0, which means that there is NUMA, and otherwise as many as
\* numa_max_node() says.  Should that be 0, there is no worker and no list:
\* workqueue_enqueue refuses everything (line 121), workqueue_deinit stops
\* nothing.  That program has no behaviour to speak of and is left out.
ASSUME WorkqueueAssumption ==
  /\ NumQueues \in Nat \ {0}
  /\ NoJob \notin Jobs

Nodes == 0 .. NumQueues - 1

VARIABLES
  entries,     \* wqueue->entries
  lock,        \* wqueue->lock: "free", or held by the queue's "worker"
  doExit,      \* wqueue->do_exit
  worker,      \* where the thread of each queue is
  current,     \* the entry whose callback it runs
  served,      \* it has returned from pthread_cond_wait at least once
  known,       \* the entries that were passed to workqueue_enqueue
  hasErr,      \* those with an error callback
  hasCleanup,  \* those with a cleanup callback
  over,        \* the accepted entries that were freed
  settled,     \* those whose callback succeeded or whose error was handled
  cleaned,     \* those whose cleanup callback was called
  main,        \* where the main thread is
  wild         \* the array of queues was used after it was freed

queueVars == <<entries, lock, doExit>>
workerVars == <<worker, current, served>>
optionVars == <<known, hasErr, hasCleanup>>
outcomeVars == <<over, settled, cleaned>>
vars == <<entries, lock, doExit, worker, current, served, known, hasErr,
          hasCleanup, over, settled, cleaned, main, wild>>

\* The main thread works on a queue; it stops queues to undo workqueue_init
\* or because of workqueue_deinit.
At(pc, q) == [pc |-> pc, q |-> q, job |-> NoJob, undo |-> FALSE]
Undo(pc, q) == [At(pc, q) EXCEPT !.undo = TRUE]

Init ==
  /\ entries = [q \in Nodes |-> <<>>]
  /\ lock = [q \in Nodes |-> "free"]
  /\ doExit = [q \in Nodes |-> FALSE]
  /\ worker = [q \in Nodes |-> "none"]
  /\ current = [q \in Nodes |-> NoJob]
  /\ served = [q \in Nodes |-> FALSE]
  /\ known = {} /\ hasErr = {} /\ hasCleanup = {}
  /\ over = {} /\ settled = {} /\ cleaned = {}
  /\ main = At("create", 0)
  /\ wild = FALSE

\* pthread_cond_broadcast wakes the thread that waits, if it waits.
Broadcast(q) ==
  worker' = IF worker[q] = "waiting" THEN [worker EXCEPT ![q] = "woken"] ELSE worker

-----------------------------------------------------------------------------
(* work_thread, the worker of queue q.                                     *)

Move(q, from, to) == worker[q] = from /\ worker' = [worker EXCEPT ![q] = to]

TakeLock(q) == lock[q] = "free" /\ lock' = [lock EXCEPT ![q] = "worker"]

WorkerStart(q) ==
  /\ Move(q, "start", "check")
  /\ TakeLock(q)
  /\ UNCHANGED <<entries, doExit, current, served, optionVars, outcomeVars, main, wild>>

\* The outer loop ends with the mutex held.
CheckExit(q) ==
  /\ Move(q, "check", IF doExit[q] THEN "exited" ELSE "wait")
  /\ UNCHANGED <<queueVars, current, served, optionVars, outcomeVars, main, wild>>

\* pthread_cond_wait releases the mutex and starts to wait in one step.
CondWait(q) ==
  /\ Move(q, "wait", "waiting")
  /\ lock' = [lock EXCEPT ![q] = "free"]
  /\ UNCHANGED <<entries, doExit, current, served, optionVars, outcomeVars, main, wild>>

SpuriousWakeup(q) ==
  /\ Move(q, "waiting", "woken")
  /\ UNCHANGED <<queueVars, current, served, optionVars, outcomeVars, main, wild>>

CondReturn(q) ==
  /\ Move(q, "woken", "drain")
  /\ TakeLock(q)
  /\ served' = [served EXCEPT ![q] = TRUE]
  /\ UNCHANGED <<entries, doExit, current, optionVars, outcomeVars, main, wild>>

TakeEntry(q) ==
  /\ entries[q] # <<>> /\ ~doExit[q]
  /\ Move(q, "drain", "run")
  /\ current' = [current EXCEPT ![q] = Head(entries[q])]
  /\ entries' = [entries EXCEPT ![q] = Tail(@)]
  /\ UNCHANGED <<lock, doExit, served, optionVars, outcomeVars, main, wild>>

DrainEnds(q) ==
  /\ entries[q] = <<>> \/ doExit[q]
  /\ Move(q, "drain", "check")
  /\ UNCHANGED <<queueVars, current, served, optionVars, outcomeVars, main, wild>>

\* Broken variants of definitions have names that begin with Bad.  No
\* specification uses them; they show that the properties can fail.
BadEndEntry(q) ==
  /\ current' = [current EXCEPT ![q] = NoJob]
  /\ UNCHANGED <<entries, doExit, served, over, optionVars, main, wild>>

EndEntry(q) ==
  /\ over' = over \union {current[q]}
  /\ current' = [current EXCEPT ![q] = NoJob]
  /\ UNCHANGED <<entries, doExit, served, optionVars, main, wild>>

BadEntrySettled(q) ==
  /\ Move(q, "run", "check")
  /\ settled' = settled \union {current[q]}
  /\ EndEntry(q)
  /\ UNCHANGED <<lock, cleaned>>

\* entry->cb returns 0, or it fails and entry->err returns 0.
EntrySettled(q) ==
  /\ Move(q, "run", "drain")
  /\ settled' = settled \union {current[q]}
  /\ EndEntry(q)
  /\ UNCHANGED <<lock, cleaned>>

CleanUp(jobs) == cleaned' = cleaned \union (jobs \intersect hasCleanup)

\* entry->cb fails and there is no entry->err.
EntryFails(q) ==
  /\ current[q] \notin hasErr
  /\ Move(q, "run", "drain")
  /\ CleanUp({current[q]})
  /\ EndEntry(q)
  /\ UNCHANGED <<lock, settled>>

BadEntryKillsWorker(q) ==
  /\ current[q] \in hasErr
  /\ Move(q, "run", "exited")
  /\ CleanUp({current[q]})
  /\ EndEntry(q)
  /\ UNCHANGED <<lock, settled>>

\* entry->cb and entry->err fail: the thread unlocks and ends.
EntryKillsWorker(q) ==
  /\ current[q] \in hasErr
  /\ Move(q, "run", "exited")
  /\ CleanUp({current[q]})
  /\ lock' = [lock EXCEPT ![q] = "free"]
  /\ EndEntry(q)
  /\ UNCHANGED settled

WorkerStep(q) ==
  \/ WorkerStart(q) \/ CheckExit(q) \/ CondWait(q) \/ CondReturn(q)
  \/ TakeEntry(q) \/ DrainEnds(q)
  \/ EntrySettled(q) \/ EntryFails(q) \/ EntryKillsWorker(q)

-----------------------------------------------------------------------------
(* workqueue_init, called by main.                                         *)

CreateThread ==
  /\ main.pc = "create"
  /\ worker' = [worker EXCEPT ![main.q] = "start"]
  /\ main' = IF main.q + 1 < NumQueues THEN At("create", main.q + 1)
                                       ELSE At("idle", 0)
  /\ UNCHANGED <<queueVars, current, served, optionVars, outcomeVars, wild>>

\* calloc or pthread_create fails: the threads that run already are stopped
\* in reverse order, and the array is freed.
CreateFails ==
  /\ main.pc = "create"
  /\ main' = IF main.q = 0 THEN Undo("undone", 0)
                           ELSE Undo("flag", main.q - 1)
  /\ UNCHANGED <<queueVars, workerVars, optionVars, outcomeVars, wild>>

\* main jumps to fail, where workqueue_deinit stops num_workqueues queues of
\* the array that is gone.
DeinitAfterFailure ==
  /\ main.pc = "undone"
  /\ wild' = TRUE
  /\ UNCHANGED <<queueVars, workerVars, optionVars, outcomeVars, main>>

-----------------------------------------------------------------------------
(* workqueue_enqueue, called by the main thread.                           *)

Enqueue ==
  /\ main.pc = "idle"
  /\ \E q \in Nodes, j \in Jobs \ known, e \in BOOLEAN, c \in BOOLEAN :
       /\ main' = [At("append", q) EXCEPT !.job = j]
       /\ known' = known \union {j}
       /\ hasErr' = IF e THEN hasErr \union {j} ELSE hasErr
       /\ hasCleanup' = IF c THEN hasCleanup \union {j} ELSE hasCleanup
  /\ UNCHANGED <<queueVars, workerVars, outcomeVars, wild>>

\* -EINVAL for a node without a queue, -ENOMEM when calloc fails.
EnqueueRejects ==
  /\ main.pc = "idle"
  /\ \E j \in Jobs \ known : known' = known \union {j}
  /\ UNCHANGED <<queueVars, workerVars, hasErr, hasCleanup, outcomeVars, main, wild>>

\* Lock, append, unlock: nobody can see the queue in between.
EnqueueAppend ==
  /\ main.pc = "append"
  /\ lock[main.q] = "free"
  /\ entries' = [entries EXCEPT ![main.q] = Append(@, main.job)]
  /\ main' = [main EXCEPT !.pc = "signal"]
  /\ UNCHANGED <<lock, doExit, workerVars, optionVars, outcomeVars, wild>>

BadEnqueueSignal ==
  /\ main.pc = "signal"
  /\ main' = At("idle", 0)
  /\ UNCHANGED <<queueVars, workerVars, optionVars, outcomeVars, wild>>

EnqueueSignal ==
  /\ main.pc = "signal"
  /\ Broadcast(main.q)
  /\ main' = At("idle", 0)
  /\ UNCHANGED <<queueVars, current, served, optionVars, outcomeVars, wild>>

-----------------------------------------------------------------------------
(* workqueue_deinit and stop_workqueue, called by main.                    *)

Deinit ==
  /\ main.pc = "idle"
  /\ main' = At("flag", 0)
  /\ UNCHANGED <<queueVars, workerVars, optionVars, outcomeVars, wild>>

\* The flag is set without the mutex.
StopFlag ==
  /\ main.pc = "flag"
  /\ doExit' = [doExit EXCEPT ![main.q] = TRUE]
  /\ main' = [main EXCEPT !.pc = "wake"]
  /\ UNCHANGED <<entries, lock, workerVars, optionVars, outcomeVars, wild>>

BadStopSignal ==
  /\ main.pc = "wake"
  /\ main' = [main EXCEPT !.pc = "join"]
  /\ UNCHANGED <<queueVars, workerVars, optionVars, outcomeVars, wild>>

StopSignal ==
  /\ main.pc = "wake"
  /\ Broadcast(main.q)
  /\ main' = [main EXCEPT !.pc = "join"]
  /\ UNCHANGED <<queueVars, current, served, optionVars, outcomeVars, wild>>

BadStopJoin ==
  /\ main.pc = "join"
  /\ worker' = [worker EXCEPT ![main.q] = "joined"]
  /\ main' = [main EXCEPT !.pc = "drop"]
  /\ UNCHANGED <<queueVars, current, served, optionVars, outcomeVars, wild>>

StopJoin ==
  /\ main.pc = "join"
  /\ Move(main.q, "exited", "joined")
  /\ main' = [main EXCEPT !.pc = "drop"]
  /\ UNCHANGED <<queueVars, current, served, optionVars, outcomeVars, wild>>

\* What is left in the queue is cleaned up and freed, without the mutex.
StopDrop ==
  /\ main.pc = "drop"
  /\ entries[main.q] # <<>>
  /\ LET j == Head(entries[main.q]) IN CleanUp({j}) /\ over' = over \union {j}
  /\ entries' = [entries EXCEPT ![main.q] = Tail(@)]
  /\ UNCHANGED <<lock, doExit, workerVars, optionVars, settled, main, wild>>

BadStopNext ==
  /\ main.pc = "drop"
  /\ main' = IF main.undo
             THEN IF main.q > 0 THEN Undo("flag", main.q - 1) ELSE Undo("undone", 0)
             ELSE IF main.q + 1 < NumQueues THEN At("flag", main.q + 1) ELSE At("done", 0)
  /\ UNCHANGED <<queueVars, workerVars, optionVars, outcomeVars, wild>>

StopNext ==
  /\ main.pc = "drop"
  /\ entries[main.q] = <<>>
  /\ main' = IF main.undo
             THEN IF main.q > 0 THEN Undo("flag", main.q - 1) ELSE Undo("undone", 0)
             ELSE IF main.q + 1 < NumQueues THEN At("flag", main.q + 1) ELSE At("done", 0)
  /\ UNCHANGED <<queueVars, workerVars, optionVars, outcomeVars, wild>>

-----------------------------------------------------------------------------
\* What the main thread goes on to do by itself, once it is in a function.
MainStep ==
  \/ CreateThread \/ EnqueueAppend \/ EnqueueSignal
  \/ StopFlag \/ StopSignal \/ StopJoin \/ StopDrop \/ StopNext

\* What it may do or what may happen to it.
MainChoice ==
  \/ CreateFails \/ DeinitAfterFailure \/ Enqueue \/ EnqueueRejects \/ Deinit

Finished == (main.pc = "done" \/ wild) /\ UNCHANGED vars

Next ==
  \/ ~wild /\ \E q \in Nodes : WorkerStep(q) \/ SpuriousWakeup(q)
  \/ ~wild /\ (MainStep \/ MainChoice)
  \/ Finished

Spec == Init /\ [][Next]_vars

\* The scheduler runs every thread that can run, and callbacks return.
\* Spurious wakeups may happen for ever or never: a thread that blocks on a
\* mutex gets it if the mutex is released again and again.
FairSpec ==
  /\ Spec
  /\ WF_vars(~wild /\ MainStep)
  /\ SF_vars(~wild /\ EnqueueAppend)
  /\ \A q \in Nodes : WF_vars(~wild /\ WorkerStep(q))

-----------------------------------------------------------------------------
(* Properties.                                                             *)

(* Every variable has its type; a queue holds distinct entries.            *)
TypeOK ==
  /\ entries \in [Nodes -> Seq(Jobs)]
  /\ lock \in [Nodes -> {"free", "worker"}]
  /\ doExit \in [Nodes -> BOOLEAN]
  /\ worker \in [Nodes -> {"none", "start", "check", "wait", "waiting", "woken",
                           "drain", "run", "exited", "joined"}]
  /\ current \in [Nodes -> Jobs \union {NoJob}]
  /\ served \in [Nodes -> BOOLEAN]
  /\ known \subseteq Jobs /\ hasErr \subseteq known /\ hasCleanup \subseteq known
  /\ over \subseteq known /\ settled \subseteq over /\ cleaned \subseteq over
  /\ main \in [pc : {"create", "undone", "idle", "append", "signal", "flag", "wake",
                     "join", "drop", "done"},
               q : Nodes, job : Jobs \union {NoJob}, undo : BOOLEAN]
  /\ wild \in BOOLEAN

(* Work is forgotten only at the start: a worker that waits while its      *)
(* queue holds work has a broadcast coming, or has never returned from a   *)
(* wait.  The first pthread_cond_wait of work_thread does not look at the  *)
(* queue, so what was enqueued before it stays there until the next entry. *)
ForgottenOnlyAtStart ==
  \A q \in Nodes :
    worker[q] = "waiting" /\ entries[q] # <<>> /\ served[q] =>
      main.pc = "signal" /\ main.q = q

(* workqueue_deinit leaves nothing behind: every entry is freed, and every *)
(* one that was not brought to a good end had its cleanup callback called, *)
(* none that was.                                                          *)
NothingLeftBehind ==
  main.pc = "done" =>
    /\ \A q \in Nodes : worker[q] = "joined" /\ entries[q] = <<>> /\ current[q] = NoJob
    /\ (over \ settled) \intersect hasCleanup = cleaned

(* workqueue_enqueue returns, also for a queue whose worker has died: the  *)
(* path on which work_thread gives up releases the mutex.                  *)
EnqueueReturns == main.pc = "append" ~> main.pc = "idle"

(* Once a worker has returned from a wait it empties its queue, unless it  *)
(* is stopped or an error ends it.                                         *)
WorkIsServed ==
  \A q \in Nodes :
    served[q] /\ entries[q] # <<>> ~>
      entries[q] = <<>> \/ doExit[q] \/ worker[q] = "exited"

(* stop_workqueue returns unless its flag is set and its broadcast sent    *)
(* just between the worker's test of the flag and its wait.                *)
StopReturnsOutsideWindow ==
  \A q \in Nodes :
    main.pc = "wake" /\ main.q = q /\ worker[q] # "wait" ~> worker[q] = "joined"

(* workqueue_deinit returns, as main expects when it is "Shutting down".   *)
DeinitReturns == main.pc = "flag" /\ ~main.undo ~> main.pc = "done"

\* The queues as an abstract job queue: a node is closed once joined.
Promise == INSTANCE JobQueue WITH
  pending <- entries, running <- current,
  closed <- {q \in Nodes : worker[q] = "joined"}

(* Workqueue implements JobQueue: jobs run one at a time and in order,     *)
(* none twice, and none after its queue was stopped.                       *)
ImplementsJobQueue == Promise!JobSpec
=============================================================================
