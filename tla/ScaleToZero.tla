----------------------------- MODULE ScaleToZero -----------------------------
(***************************************************************************)
(* The clocks that Ingestion abstracts: KEDA polls the length of the Redis *)
(* list and scales the embedding-worker between 0 and 1 pod (one pod is    *)
(* what HPA asks for up to listLength = 5 queued jobs); the RQ scheduler   *)
(* that re-enqueues retries lives inside that pod.  Jobs wait for their    *)
(* retry outside the list, where KEDA does not look.                       *)
(* Durations are counted in ticks.                                         *)
(***************************************************************************)
EXTENDS Naturals, Sequences, Functions

CONSTANTS
  Document,          \* numbered in the order of their uploads
  Interval,          \* Retry(interval=[10, 30, 60])
  MaxRun,            \* longest run of a job, at most job_timeout
  MinReplicas,       \* minReplicaCount
  CooldownPeriod, PollingInterval, ActivationListLength,
  Grace,             \* terminationGracePeriodSeconds
  NoDoc

ASSUME DocumentType == Document \subseteq Nat
ASSUME IntervalType == Interval \in Seq(Nat \ {0}) /\ Interval # <<>>
ASSUME DurationsType == {MaxRun, CooldownPeriod, PollingInterval, Grace} \subseteq Nat \ {0}
ASSUME ScalingType == MinReplicas \in {0, 1} /\ ActivationListLength \in Nat
ASSUME NoDocFresh == NoDoc \notin Document

VARIABLES
  queue, job, retriesLeft,   \* as in Ingestion
  due,                       \* ticks until a scheduled job is due
  pod, doc,                  \* the pod's state and the job it runs
  age,                       \* ticks since that run began
  grace,                     \* ticks until a draining pod is killed
  sinceActive,               \* ticks since a poll last saw the trigger active
  untilPoll                  \* ticks until the next poll

jobVars  == <<queue, job, retriesLeft, due>>
podVars  == <<pod, doc, age, grace>>
kedaVars == <<sinceActive, untilPoll>>
vars     == <<jobVars, podVars, kedaVars>>

Running == {"busy", "draining"}
Serving == {"idle", "busy"}      \* the pod's scheduler is alive

Init ==
  /\ queue = <<>>
  /\ job = [d \in Document |-> "none"]
  /\ retriesLeft = [d \in Document |-> Len(Interval)]
  /\ due = [d \in Document |-> 0]
  /\ pod = IF MinReplicas = 0 THEN "off" ELSE "idle"
  /\ doc = NoDoc /\ age = 0 /\ grace = 0
  /\ sinceActive = CooldownPeriod /\ untilPoll = PollingInterval

Push(d) ==
  /\ queue' = Append(queue, d)
  /\ job' = [job EXCEPT ![d] = "queued"]

Upload(d) ==
  /\ job[d] = "none"
  /\ \A e \in Document : e < d => job[e] # "none"
  /\ Push(d)
  /\ UNCHANGED <<retriesLeft, due, podVars, kedaVars>>

-----------------------------------------------------------------------------
(* KEDA.  The trigger is active when the list is longer than               *)
(* activationListLength; after cooldownPeriod without activity the         *)
(* deployment goes to minReplicaCount.                                     *)

Active == Len(queue) > ActivationListLength

\* Fault: KEDA watches a list RQ does not use (listName without rq:queue:).
PollOtherList ==
  /\ untilPoll = 0
  /\ untilPoll' = PollingInterval
  /\ LET scaleDown == MinReplicas = 0 /\ sinceActive = CooldownPeriod
     IN pod' = IF scaleDown /\ pod = "idle" THEN "off" ELSE pod
  /\ UNCHANGED <<jobVars, doc, age, grace, sinceActive>>

Poll ==
  /\ untilPoll = 0
  /\ untilPoll' = PollingInterval
  /\ sinceActive' = IF Active THEN 0 ELSE sinceActive
  /\ LET scaleDown == ~Active /\ MinReplicas = 0 /\ sinceActive = CooldownPeriod
     IN /\ pod' = CASE Active /\ pod = "off" -> "idle"
                    [] scaleDown /\ pod = "idle" -> "off"
                    [] scaleDown /\ pod = "busy" -> "draining"
                    [] OTHER -> pod
        /\ grace' = IF scaleDown /\ pod = "busy" THEN Grace ELSE grace
  /\ UNCHANGED <<jobVars, doc, age>>

\* SIGKILL at the end of the grace period; the job stays in the started registry.
Kill ==
  /\ pod = "draining" /\ grace = 0
  /\ pod' = "off" /\ doc' = NoDoc /\ age' = 0
  /\ UNCHANGED <<jobVars, grace, kedaVars>>

-----------------------------------------------------------------------------
(* RQ, in the one pod.                                                     *)

Dequeue ==
  /\ pod = "idle" /\ queue # <<>>
  /\ queue' = Tail(queue)
  /\ job' = [job EXCEPT ![Head(queue)] = "started"]
  /\ pod' = "busy" /\ doc' = Head(queue) /\ age' = 0
  /\ UNCHANGED <<retriesLeft, due, grace, kedaVars>>

Release ==
  /\ pod' = IF pod = "draining" THEN "off" ELSE "idle"
  /\ doc' = NoDoc /\ age' = 0
  /\ UNCHANGED <<grace, kedaVars>>

Finish ==
  /\ pod \in Running
  /\ job' = [job EXCEPT ![doc] = "finished"]
  /\ Release
  /\ UNCHANGED <<queue, retriesLeft, due>>

\* Fault: a retry that is scheduled without being paid for.
HandleFailureForFree(d) ==
  /\ job' = [job EXCEPT ![d] = "scheduled"]
  /\ due' = [due EXCEPT ![d] = Interval[1]]
  /\ UNCHANGED <<queue, retriesLeft>>

\* The next interval of Retry, or the dead-letter registry.
HandleFailure(d) ==
  /\ IF retriesLeft[d] > 0
     THEN /\ job' = [job EXCEPT ![d] = "scheduled"]
          /\ due' = [due EXCEPT ![d] = Interval[Len(Interval) - retriesLeft[d] + 1]]
          /\ retriesLeft' = [retriesLeft EXCEPT ![d] = @ - 1]
     ELSE /\ job' = [job EXCEPT ![d] = "failed"]
          /\ UNCHANGED <<due, retriesLeft>>
  /\ UNCHANGED queue

Raise ==
  /\ pod \in Running
  /\ HandleFailure(doc)
  /\ Release

RunScheduler(d) ==
  /\ pod \in Serving
  /\ job[d] = "scheduled" /\ due[d] = 0
  /\ Push(d)
  /\ UNCHANGED <<retriesLeft, due, podVars, kedaVars>>

ReapAbandoned(d) ==
  /\ pod = "idle"
  /\ job[d] = "started" /\ d # doc
  /\ HandleFailure(d)
  /\ UNCHANGED <<podVars, kedaVars>>

-----------------------------------------------------------------------------
\* What happens at once, before time goes on.
Urgent ==
  \/ untilPoll = 0
  \/ pod = "idle" /\ queue # <<>>
  \/ pod \in Serving /\ \E d \in Document : job[d] = "scheduled" /\ due[d] = 0
  \/ pod \in Running /\ age = MaxRun
  \/ pod = "draining" /\ grace = 0

CountDown(n) == IF n > 0 THEN n - 1 ELSE 0

Tick ==
  /\ ~Urgent
  /\ due' = [d \in Document |-> CountDown(due[d])]
  /\ age' = IF pod \in Running THEN age + 1 ELSE age
  /\ grace' = CountDown(grace)
  /\ sinceActive' = IF sinceActive < CooldownPeriod THEN sinceActive + 1 ELSE sinceActive
  /\ untilPoll' = untilPoll - 1
  /\ UNCHANGED <<queue, job, retriesLeft, pod, doc>>

Next ==
  \/ Poll \/ Kill \/ Dequeue \/ Finish \/ Raise \/ Tick
  \/ \E d \in Document : Upload(d) \/ RunScheduler(d) \/ ReapAbandoned(d)

\* Time passes, KEDA keeps polling and a running pod keeps working; nobody has
\* to upload anything.
Spec ==
  /\ Init /\ [][Next]_vars
  /\ WF_vars(Tick) /\ WF_vars(Poll) /\ WF_vars(Kill) /\ WF_vars(Dequeue)
  /\ WF_vars(Finish \/ Raise)
  /\ \A d \in Document : WF_vars(RunScheduler(d)) /\ SF_vars(ReapAbandoned(d))

-----------------------------------------------------------------------------
\* A list long enough to activate the trigger is drained again below that mark,
\* whatever retries, kills and cool-downs happen on the way (0 -> N -> 0).
BacklogIsDrained == Active ~> ~Active

\* main.py: RQ's Retry "actually re-enqueues failed jobs at their scheduled
\* time".  Not once the deployment has been scaled to zero.
ScheduledRetryRuns ==
  \A d \in Document : job[d] = "scheduled" ~> job[d] = "queued"

\* smoke.py: "ingest one doc, wait for embed".  A lone upload is a list of
\* length 1, which does not exceed activationListLength.
LoneUploadStarts ==
  \A d \in Document : job[d] = "queued" ~> job[d] = "started"

-----------------------------------------------------------------------------
(* Safety.                                                                 *)

JobState == {"none", "queued", "started", "scheduled", "finished", "failed"}

\* The types, with the limits of a run, of the grace and of KEDA's clocks.
TypeOK ==
  /\ queue \in Seq(Document)
  /\ job \in [Document -> JobState]
  /\ retriesLeft \in [Document -> 0 .. Len(Interval)]
  /\ due \in [Document -> Nat]
  /\ pod \in {"off", "idle", "busy", "draining"}
  /\ doc \in Document \cup {NoDoc}
  /\ age \in 0 .. MaxRun /\ grace \in 0 .. Grace
  /\ sinceActive \in 0 .. CooldownPeriod /\ untilPoll \in 0 .. PollingInterval

\* The list KEDA measures is the queued jobs, each once: retries that wait, jobs
\* of killed pods and the running one are not in it.
JobsInPlace ==
  /\ IsInjective(queue)
  /\ \A d \in Document : job[d] = "queued" <=> d \in Range(queue)
  /\ doc # NoDoc <=> pod \in Running
  /\ doc # NoDoc => job[doc] = "started"

\* While there is no pod and the list does not activate the trigger, only an
\* upload changes a job, the list or the number of pods.
OnlyUploadsWake ==
  [][pod = "off" /\ ~Active =>
       \/ UNCHANGED <<queue, job, retriesLeft, pod>>
       \/ \E d \in Document : Upload(d)]_vars

\* No pod, a list that does not activate the trigger, and no upload to come.
Asleep == pod = "off" /\ ~Active /\ \A d \in Document : job[d] # "none"

\* Why the counterexamples of LoneUploadStarts and ScheduledRetryRuns are for
\* ever: whatever a job waits for when the deployment falls asleep, a retry that
\* is due, a place in the list or the end of a run that was killed, it waits for
\* it in every later state.
SleepStrands ==
  \A d \in Document, s \in JobState :
    [](Asleep /\ job[d] = s => [](Asleep /\ job[d] = s))

\* One pod with its clocks gives each job the life that Ingestion gives it: it
\* runs only out of the list, pays for each failed run, and once it is finished
\* or dead it is never run again.
Life == INSTANCE JobLife WITH MaxRetries <- Len(Interval)

ImplementsJobLife == Life!Spec
=============================================================================
