------------------------------ MODULE JobQueue ------------------------------
(***************************************************************************)
(* What workqueue.c promises to whoever hands work to it: a node runs the  *)
(* jobs it was given one at a time and in the order given, none twice; and *)
(* once a node is closed it runs nothing more, and the jobs that are left  *)
(* are dropped.  Workqueue implements this module.                         *)
(***************************************************************************)
EXTENDS Naturals, Sequences

CONSTANTS
  Nodes,   \* the queues, numbered like NUMA nodes
  Jobs,    \* the jobs that may ever be handed over
  NoJob    \* a node that runs nothing

VARIABLES
  pending,   \* the jobs of each node that wait, in the order they arrived
  running,   \* the job each node runs
  over,      \* the jobs that have run or were dropped
  closed     \* the nodes that are closed

jobVars == <<pending, running, over, closed>>

JobInit ==
  /\ pending = [n \in Nodes |-> <<>>]
  /\ running = [n \in Nodes |-> NoJob]
  /\ over = {}
  /\ closed = {}

\* Every job that waits, runs or is over has been accepted once.
Accepted(j) ==
  \/ j \in over
  \/ \E n \in Nodes : running[n] = j \/ \E i \in 1 .. Len(pending[n]) : pending[n][i] = j

Accept(n, j) ==
  /\ n \notin closed
  /\ ~Accepted(j)
  /\ pending' = [pending EXCEPT ![n] = Append(@, j)]
  /\ UNCHANGED <<running, over, closed>>

Start(n) ==
  /\ n \notin closed
  /\ running[n] = NoJob
  /\ pending[n] # <<>>
  /\ running' = [running EXCEPT ![n] = Head(pending[n])]
  /\ pending' = [pending EXCEPT ![n] = Tail(@)]
  /\ UNCHANGED <<over, closed>>

Finish(n) ==
  /\ running[n] # NoJob
  /\ over' = over \union {running[n]}
  /\ running' = [running EXCEPT ![n] = NoJob]
  /\ UNCHANGED <<pending, closed>>

Close(n) ==
  /\ running[n] = NoJob
  /\ closed' = closed \union {n}
  /\ UNCHANGED <<pending, running, over>>

Drop(n) ==
  /\ n \in closed
  /\ pending[n] # <<>>
  /\ over' = over \union {Head(pending[n])}
  /\ pending' = [pending EXCEPT ![n] = Tail(@)]
  /\ UNCHANGED <<running, closed>>

JobNext ==
  \E n \in Nodes :
    \/ \E j \in Jobs : Accept(n, j)
    \/ Start(n) \/ Finish(n) \/ Close(n) \/ Drop(n)

JobSpec == JobInit /\ [][JobNext]_jobVars
=============================================================================
