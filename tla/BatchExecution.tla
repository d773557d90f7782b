---------------------------- MODULE BatchExecution ----------------------------
(***************************************************************************)
(* What the thread server promises to a BLAS routine that hands a list of  *)
(* tasks to cblas_execute (server.c:305): one batch at a time owns the     *)
(* server, each task of the batch runs exactly once, in any order and on   *)
(* any thread, and the call returns only after all of them have run.       *)
(*                                                                         *)
(* ThreadServer.tla, with its queue, locks and worker threads, is shown to *)
(* implement this module.                                                  *)
(***************************************************************************)
EXTENDS Naturals

CONSTANTS
  Callers,    \* the application threads that issue BLAS calls
  MaxTasks,   \* the most tasks one call splits into
  Null        \* "no caller"

VARIABLES
  owner,      \* the caller whose batch is in progress, or Null
  size,       \* the number of tasks of that batch, 0 without one
  done        \* done[i]: how often task i of that batch has run

vars == <<owner, size, done>>

NothingDone == [i \in 1..MaxTasks |-> 0]

Init == owner = Null /\ size = 0 /\ done = NothingDone

\* A caller's batch of k tasks becomes the one in progress.
Begin(c, k) ==
  /\ owner = Null
  /\ owner' = c
  /\ size' = k
  /\ UNCHANGED done

\* Some thread runs task i, which has not run yet.
Run(i) ==
  /\ i <= size
  /\ done[i] = 0
  /\ done' = [done EXCEPT ![i] = 1]
  /\ UNCHANGED <<owner, size>>

\* The call returns once every task has run.
Return ==
  /\ owner # Null
  /\ \A i \in 1..size : done[i] = 1
  /\ owner' = Null
  /\ size' = 0
  /\ done' = NothingDone

Next ==
  \/ \E c \in Callers, k \in 1..MaxTasks : Begin(c, k)
  \/ \E i \in 1..MaxTasks : Run(i)
  \/ Return

Spec == Init /\ [][Next]_vars
===============================================================================
