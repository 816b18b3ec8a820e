----------------------------- MODULE QueryContract -----------------------------
(***************************************************************************)
(* What retrieval-api promises to the callers of its POST endpoints, and   *)
(* what it does not: a POST is answered at most once, only by a handler    *)
(* that has ended, and only to a caller that still waits; a caller may     *)
(* stop waiting, and the handler goes on all the same.  QueryService       *)
(* implements it, the scripts of Harness rely on nothing else.             *)
(***************************************************************************)
CONSTANT Query   \* the POSTs

VARIABLES
  caller,   \* what the caller of a POST knows of it
  running   \* the POSTs whose handlers are at work

contractVars == <<caller, running>>

\* 200; 401 or 403; 500; and no response: refused, reset or timed out.
Outcome == {"answered", "refused", "failed", "no reply"}

ContractInit ==
  /\ caller = [q \in Query |-> "idle"]
  /\ running = {}

Take(q) ==
  /\ caller[q] = "idle"
  /\ caller' = [caller EXCEPT ![q] = "waiting"]
  /\ running' = running \cup {q}

\* The POST never reaches a handler: a door or the gateway in front of the pods
\* turns it away, or nobody is there.
TurnAway(q) ==
  /\ caller[q] = "idle"
  /\ \E o \in Outcome \ {"answered"} : caller' = [caller EXCEPT ![q] = o]
  /\ UNCHANGED running

\* A caller, or a client that is closed with several POSTs under way, stops waiting.
StopWaiting(S) ==
  /\ \A q \in S : caller[q] = "waiting"
  /\ caller' = [q \in Query |-> IF q \in S THEN "no reply" ELSE caller[q]]
  /\ UNCHANGED running

\* A handler ends; its caller learns how if it is still there.
End(q) ==
  /\ q \in running
  /\ running' = running \ {q}
  /\ \E o \in Outcome \ {"no reply"} :
       caller' = IF caller[q] = "waiting" THEN [caller EXCEPT ![q] = o] ELSE caller

\* The process ends, and every handler with it.
Crash ==
  /\ running' = {}
  /\ caller' = [q \in Query |->
                  IF q \in running /\ caller[q] = "waiting" THEN "no reply" ELSE caller[q]]

ContractNext ==
  \/ \E q \in Query : Take(q) \/ TurnAway(q) \/ StopWaiting({q}) \/ End(q)
  \/ Crash

ContractSpec == ContractInit /\ [][ContractNext]_contractVars
=============================================================================
