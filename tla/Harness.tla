------------------------------- MODULE Harness -------------------------------
(***************************************************************************)
(* The scripts that measure the service from outside: loadtest.py,         *)
(* layer1.py, rerank_delta.py and assembly_table.py.  Each sends its       *)
(* requests in lanes, one POST at a time in a lane; a POST that got no     *)
(* reply is repeated a few times; a request that fails is recorded, or     *)
(* ends the script.  Of the service they see what QueryContract promises:  *)
(* a POST that was given up may still have a handler at work.              *)
(***************************************************************************)
EXTENDS Naturals, Sequences, FiniteSets

CONSTANTS
  Script,   \* the runs of scripts to look at: lanes, requests of each, attempts,
            \* whether a failure ends it, and after how many requests it judges
  Attempts  \* transient_retry(attempts=3)

ASSUME ScriptType ==
  Script \subseteq [lanes : Nat \ {0}, each : Nat \ {0}, attempts : Nat \ {0},
                     aborts : BOOLEAN, judged : Nat]
ASSUME AttemptsNat == Attempts \in Nat \ {0}

\* run: --concurrency workers, each with its share of --requests.
LoadTest(requests, concurrency) ==
  [lanes |-> concurrency, attempts |-> Attempts, aborts |-> FALSE, judged |-> 0,
   each |-> IF requests < concurrency THEN 1 ELSE requests \div concurrency]

\* layer1's gather: all fixtures at once, no retry.
Layer1(fixtures) ==
  [lanes |-> fixtures, each |-> 1, attempts |-> 1, aborts |-> TRUE, judged |-> 0]

\* _run_mode for rerank off, then on: one fixture after the other.
RerankDelta(fixtures) ==
  [lanes |-> 1, each |-> 2 * fixtures, attempts |-> Attempts, aborts |-> TRUE, judged |-> 0]

\* One pass over the fixtures for each of the three policies; the judge after each.
AssemblyTable(fixtures) ==
  [lanes |-> 1, each |-> 3 * fixtures, attempts |-> Attempts, aborts |-> TRUE,
   judged |-> fixtures]

VARIABLES
  script,   \* what this process was started as
  at,       \* the request each lane is at and its attempt
  results,  \* <<lane, request, "ok" or "error">>, in the order they were recorded
  status,   \* "running"; its report is written; an exception ended it
  caller,   \* what is known of each POST: see QueryContract
  running   \* the POSTs whose handlers are at work

scriptVars == <<script, at, results, status>>
vars       == <<scriptVars, caller, running>>

\* A POST is an attempt of a request of a lane.
Post == UNION {(1 .. s.lanes) \X (1 .. s.each) \X (1 .. s.attempts) : s \in Script}
Lane == UNION {1 .. s.lanes : s \in Script}

Api == INSTANCE QueryContract WITH Query <- Post

InLane(l)   == status = "running" /\ l \in 1 .. script.lanes /\ at[l].request <= script.each
Current(l)  == <<l, at[l].request, at[l].attempt>>
Known(l)    == caller[Current(l)]

Init ==
  /\ script \in Script
  /\ at = [l \in Lane |-> [request |-> 1, attempt |-> 1]]
  /\ results = <<>> /\ status = "running"
  /\ Api!ContractInit

-----------------------------------------------------------------------------
(* A lane: _answer, _query or score_one, and the loop around it.           *)

\* client.post(...), which reaches a handler or does not.
Send(l) ==
  /\ InLane(l) /\ Known(l) = "idle"
  /\ Api!Take(Current(l)) \/ Api!TurnAway(Current(l))
  /\ UNCHANGED scriptVars

\* Mutant of TimeOut: a client that waits as long as it takes.
WaitForEver(l) ==
  /\ InLane(l) /\ Known(l) = "waiting"
  /\ UNCHANGED vars

\* timeout=120, or 60: httpx drops the connection, the handler does not notice.
TimeOut(l) ==
  /\ InLane(l) /\ Known(l) = "waiting"
  /\ Api!StopWaiting({Current(l)})
  /\ UNCHANGED scriptVars

\* Mutants of Retry: no limit; a second POST while the first is still waited for.
RetryForever(l) ==
  /\ InLane(l) /\ Known(l) = "no reply"
  /\ at' = [at EXCEPT ![l].attempt = @ + 1]
  /\ UNCHANGED <<script, results, status, caller, running>>

RetryHedged(l) ==
  /\ InLane(l) /\ Known(l) \in {"waiting", "no reply"} /\ at[l].attempt < script.attempts
  /\ at' = [at EXCEPT ![l].attempt = @ + 1]
  /\ UNCHANGED <<script, results, status, caller, running>>

\* TRANSIENT_HTTP_ERRORS, with attempts left.
Retry(l) ==
  /\ InLane(l) /\ Known(l) = "no reply" /\ at[l].attempt < script.attempts
  /\ at' = [at EXCEPT ![l].attempt = @ + 1]
  /\ UNCHANGED <<script, results, status, caller, running>>

Records(l, result) ==
  /\ results' = Append(results, <<l, at[l].request, result>>)
  /\ at' = [at EXCEPT ![l] = [request |-> @.request + 1, attempt |-> 1]]

Score(l) ==
  /\ InLane(l) /\ Known(l) = "answered"
  /\ Records(l, "ok")
  /\ UNCHANGED <<script, status, caller, running>>

\* Mutant of Fails: an exception is swallowed and nothing recorded.
FailsUnrecorded(l) ==
  /\ InLane(l) /\ Known(l) \in {"refused", "failed", "no reply"}
  /\ at' = [at EXCEPT ![l] = [request |-> @.request + 1, attempt |-> 1]]
  /\ UNCHANGED <<script, results, status, caller, running>>

\* raise_for_status, the last attempt, or an error outside TRANSIENT_HTTP_ERRORS
\* (a connect time-out, a reset): loadtest records it; elsewhere it leaves main
\* through the client's async with, which closes every other POST.
Fails(l) ==
  /\ InLane(l) /\ Known(l) \in {"refused", "failed", "no reply"}
  /\ IF script.aborts
     THEN /\ status' = "aborted"
          /\ Api!StopWaiting({q \in Post : caller[q] = "waiting"})
          /\ UNCHANGED <<at, results>>
     ELSE /\ Records(l, "error")
          /\ UNCHANGED <<status, caller, running>>
  /\ UNCHANGED script

\* gather returns, the loops are over: the summary is written.
Report ==
  /\ status = "running"
  /\ \A l \in 1 .. script.lanes : at[l].request > script.each
  /\ status' = "reported"
  /\ UNCHANGED <<script, at, results, caller, running>>

\* _groundedness, awaited when a pass is over: the judge raises, and the exception
\* leaves main; no POST is waited for.
JudgeFails ==
  /\ status = "running" /\ script.judged > 0
  /\ at[1].request > 1 /\ (at[1].request - 1) % script.judged = 0 /\ at[1].attempt = 1
  /\ InLane(1) => Known(1) = "idle"
  /\ status' = "aborted"
  /\ UNCHANGED <<script, at, results, caller, running>>

Step(l) == Send(l) \/ TimeOut(l) \/ Retry(l) \/ Score(l) \/ Fails(l)

\* The service: a handler ends, or the process of all of them.
Service ==
  /\ (\E q \in running : Api!End(q)) \/ Api!Crash
  /\ UNCHANGED scriptVars

Next == (\E l \in Lane : Step(l)) \/ Report \/ JudgeFails \/ Service

Spec == Init /\ [][Next]_vars

\* The scripts' awaits end by themselves, by an answer or by a time-out, and the
\* judge's is taken to end; nothing is assumed of the service.
FairSpec == Spec /\ (\A l \in Lane : WF_vars(Step(l))) /\ WF_vars(Report)

-----------------------------------------------------------------------------
(* Properties. *)

Entries(l, i) == {k \in DOMAIN results : results[k][1] = l /\ results[k][2] = i}
Answers(l, i) == {q \in Post : q[1] = l /\ q[2] = i /\ caller[q] = "answered"}

\* Every variable keeps its type; no request is sent more often than it may be.
TypeOK ==
  /\ script \in Script
  /\ at \in [Lane -> [request : Nat \ {0}, attempt : Nat \ {0}]]
  /\ \A l \in Lane : at[l].attempt <= script.attempts
  /\ results \in Seq(Lane \X Nat \X {"ok", "error"})
  /\ status \in {"running", "reported", "aborted"}
  /\ caller \in [Post -> {"idle", "waiting"} \cup Api!Outcome]
  /\ running \subseteq Post

\* What a report is computed from: each request has one entry, as a success exactly
\* if one of its POSTs was answered, however often it was sent and whatever became
\* of the handlers that were given up; and a script that does not record failures
\* reports only when there were none.
ReportIsComplete ==
  status = "reported" =>
    \A l \in 1 .. script.lanes, i \in 1 .. script.each :
      \E k \in DOMAIN results :
        /\ Entries(l, i) = {k}
        /\ \/ results[k][3] = "ok" /\ Cardinality(Answers(l, i)) = 1
           \/ results[k][3] = "error" /\ Answers(l, i) = {} /\ ~script.aborts

\* rerank_delta: "Sequential so the latency percentiles reflect real per-request
\* cost rather than being skewed by concurrent contention".  A lane waits for one
\* POST at a time, and a handler at work beside it was given up after a time-out;
\* that much overlap is all a script brings about beyond its lanes.
OneAtATime ==
  \A q \in Post :
    /\ caller[q] = "waiting" => q = Current(q[1])
    /\ q \in running /\ q # Current(q[1]) => caller[q] = "no reply"

\* A script ends with a report or an exception, even if the service never answers.
ScriptEnds == <>(status # "running")
=============================================================================
