------------------------------- MODULE JobLife -------------------------------
(***************************************************************************)
(* The life of an RQ job that was enqueued with Retry(max=MaxRetries), as  *)
(* its document sees it, whoever runs, kills or schedules it: it runs only *)
(* out of the list, each failed run takes one retry, and a job that has    *)
(* finished, or failed with none left, is never run again.  Ingestion,     *)
(* with any number of pods and no clocks, and ScaleToZero, with one pod    *)
(* and all its clocks, both implement it.                                  *)
(***************************************************************************)
EXTENDS Naturals

CONSTANTS Document, MaxRetries

VARIABLES job, retriesLeft

vars == <<job, retriesLeft>>

Init ==
  /\ job = [d \in Document |-> "none"]
  /\ retriesLeft = [d \in Document |-> MaxRetries]

Move(d, from, to) ==
  /\ job[d] = from
  /\ job' = [job EXCEPT ![d] = to]

Enqueue(d) == Move(d, "none", "queued") /\ UNCHANGED retriesLeft
Run(d)     == Move(d, "queued", "started") /\ UNCHANGED retriesLeft
Finish(d)  == Move(d, "started", "finished") /\ UNCHANGED retriesLeft
Requeue(d) == Move(d, "scheduled", "queued") /\ UNCHANGED retriesLeft

Retry(d) ==
  /\ retriesLeft[d] > 0
  /\ Move(d, "started", "scheduled")
  /\ retriesLeft' = [retriesLeft EXCEPT ![d] = @ - 1]

DeadLetter(d) ==
  /\ retriesLeft[d] = 0
  /\ Move(d, "started", "failed")
  /\ UNCHANGED retriesLeft

Next ==
  \E d \in Document :
    Enqueue(d) \/ Run(d) \/ Finish(d) \/ Requeue(d) \/ Retry(d) \/ DeadLetter(d)

Spec == Init /\ [][Next]_vars
=============================================================================
