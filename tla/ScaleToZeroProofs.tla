--------------------------- MODULE ScaleToZeroProofs ---------------------------
(***************************************************************************)
(* For any documents, intervals, periods and limits: where the jobs are,   *)
(* what life they have, and that nothing but an upload wakes a deployment  *)
(* at zero whose list is short.                                            *)
(***************************************************************************)
EXTENDS ScaleToZero, SequenceTheorems, TLAPS

SInv == TypeOK /\ JobsInPlace

-----------------------------------------------------------------------------
(* The list.                                                               *)

LEMMA AppendFresh ==
  ASSUME NEW S, NEW q \in Seq(S), NEW d \in S, IsInjective(q), d \notin Range(q)
  PROVE  /\ Append(q, d) \in Seq(S) /\ IsInjective(Append(q, d))
         /\ Range(Append(q, d)) = Range(q) \cup {d}
<1> DEFINE t == Append(q, d)
           n == Len(q)
<1>1. t \in Seq(S)
  BY AppendProperties
<1>2. Len(t) = n + 1
  BY AppendProperties
<1>3. \A i \in 1 .. n : t[i] = q[i]
  BY AppendProperties
<1>4. t[n + 1] = d
  BY AppendProperties
<1>5. n \in Nat /\ DOMAIN q = 1 .. n
  OBVIOUS
<1>6. DOMAIN t = 1 .. n + 1
  BY <1>1, <1>2
<1> HIDE DEF t, n
<1>7. \A i \in 1 .. n + 1 : i \in 1 .. n \/ i = n + 1
  BY <1>5
<1>8. \A i \in 1 .. n : q[i] \in Range(q) /\ i \in 1 .. n + 1
  BY <1>5 DEF Range
<1>9. n + 1 \in 1 .. n + 1
  BY <1>5
<1>10. ASSUME NEW i \in 1 .. n + 1, NEW j \in 1 .. n + 1, t[i] = t[j] PROVE i = j
  BY <1>3, <1>4, <1>5, <1>7, <1>8, <1>10 DEF IsInjective
<1>11. Range(t) = Range(q) \cup {d}
  BY <1>3, <1>4, <1>5, <1>6, <1>7, <1>8, <1>9 DEF Range
<1> QED
  BY <1>1, <1>6, <1>10, <1>11 DEF IsInjective, t

LEMMA TailDrops ==
  ASSUME NEW S, NEW q \in Seq(S), q # <<>>, IsInjective(q)
  PROVE  /\ Tail(q) \in Seq(S) /\ IsInjective(Tail(q))
         /\ Head(q) \in S /\ Head(q) \in Range(q)
         /\ Range(Tail(q)) = Range(q) \ {Head(q)}
<1> DEFINE t == Tail(q)
           n == Len(q)
<1>1. n \in Nat \ {0} /\ DOMAIN q = 1 .. n
  OBVIOUS
<1>2. t \in Seq(S) /\ Len(t) = n - 1 /\ Head(q) = q[1] /\ Head(q) \in S
  OBVIOUS
<1>3. \A i \in 1 .. n - 1 : t[i] = q[i + 1]
  OBVIOUS
<1>4. DOMAIN t = 1 .. n - 1
  BY <1>2
<1> HIDE DEF t, n
<1>5. 1 \in 1 .. n /\ \A i \in 1 .. n - 1 : i + 1 \in 1 .. n /\ i + 1 # 1
  BY <1>1
<1>6. ASSUME NEW i \in 1 .. n - 1, NEW j \in 1 .. n - 1, t[i] = t[j] PROVE i = j
  <2>1. i + 1 = j + 1
    BY <1>1, <1>3, <1>5, <1>6 DEF IsInjective
  <2> QED
    BY <1>1, <2>1
<1>7. ASSUME NEW x \in Range(t) PROVE x \in Range(q) /\ x # q[1]
  <2>1. PICK i \in 1 .. n - 1 : t[i] = x
    BY <1>4 DEF Range
  <2>2. q[i + 1] = x
    BY <1>3, <2>1
  <2> QED
    BY <1>1, <1>5, <2>2 DEF Range, IsInjective
<1>8. ASSUME NEW x \in Range(q), x # q[1] PROVE x \in Range(t)
  <2>1. PICK i \in 1 .. n : q[i] = x
    BY <1>1 DEF Range
  <2>2. i - 1 \in 1 .. n - 1 /\ (i - 1) + 1 = i
    BY <1>1, <1>8, <2>1
  <2>3. t[i - 1] = x
    BY <1>3, <2>1, <2>2
  <2> QED
    BY <1>4, <2>2, <2>3 DEF Range
<1>9. q[1] \in Range(q)
  BY <1>1, <1>5 DEF Range
<1> QED
  BY <1>2, <1>4, <1>6, <1>7, <1>8, <1>9 DEF IsInjective, t

-----------------------------------------------------------------------------
(* What the parts of the steps do.                                         *)

LEMMA IntervalsAre ==
  ASSUME NEW k \in 1 .. Len(Interval)
  PROVE  Interval[k] \in Nat \ {0}
BY IntervalType

LEMMA LimitsAre ==
  /\ MaxRun \in Nat \ {0} /\ CooldownPeriod \in Nat \ {0}
  /\ PollingInterval \in Nat \ {0} /\ Grace \in Nat \ {0}
  /\ Len(Interval) \in Nat
BY DurationsType, IntervalType

\* A push of a job that is in no other place.
LEMMA Pushes ==
  ASSUME SInv, NEW d \in Document, job[d] \in {"none", "scheduled"}, Push(d),
         UNCHANGED <<retriesLeft, due, podVars, kedaVars>>
  PROVE  SInv'
<1>1. d \notin Range(queue) /\ d # doc
  BY NoDocFresh DEF SInv, JobsInPlace
<1>2. /\ queue' \in Seq(Document) /\ IsInjective(queue')
      /\ Range(queue') = Range(queue) \cup {d}
  <2>1. queue \in Seq(Document) /\ IsInjective(queue) /\ queue' = Append(queue, d)
    BY DEF SInv, TypeOK, JobsInPlace, Push
  <2> QED
    BY <1>1, <2>1, AppendFresh
<1>3. job' = [job EXCEPT ![d] = "queued"] /\ UNCHANGED <<retriesLeft, due, podVars, kedaVars>>
  BY DEF Push
<1>4. TypeOK'
  BY <1>2, <1>3 DEF SInv, TypeOK, JobState, podVars, kedaVars
<1>5. JobsInPlace'
  BY <1>1, <1>2, <1>3 DEF SInv, TypeOK, JobsInPlace, podVars
<1> QED
  BY <1>4, <1>5 DEF SInv

\* A job that was started and raised, or was abandoned.
LEMMA Fails ==
  ASSUME TypeOK, NEW d \in Document, HandleFailure(d)
  PROVE  /\ job' \in [Document -> JobState]
         /\ retriesLeft' \in [Document -> 0 .. Len(Interval)]
         /\ due' \in [Document -> Nat]
         /\ job'[d] \in {"scheduled", "failed"}
         /\ \A e \in Document \ {d} : job'[e] = job[e]
         /\ queue' = queue
<1> DEFINE r == retriesLeft[d]
           L == Len(Interval)
<1>1. r \in 0 .. L /\ L \in Nat
  BY LimitsAre DEF TypeOK
<1>2. queue' = queue
  BY DEF HandleFailure
<1>3. CASE r > 0
  <2>1. /\ job' = [job EXCEPT ![d] = "scheduled"]
        /\ due' = [due EXCEPT ![d] = Interval[L - r + 1]]
        /\ retriesLeft' = [retriesLeft EXCEPT ![d] = @ - 1]
    BY <1>3 DEF HandleFailure
  <2>2. L - r + 1 \in 1 .. L /\ r - 1 \in 0 .. L
    BY <1>1, <1>3
  <2>3. Interval[L - r + 1] \in Nat
    BY <2>2, IntervalsAre
  <2> QED
    BY <1>2, <2>1, <2>2, <2>3 DEF TypeOK, JobState
<1>4. CASE ~(r > 0)
  <2>1. job' = [job EXCEPT ![d] = "failed"] /\ UNCHANGED <<due, retriesLeft>>
    BY <1>4 DEF HandleFailure
  <2> QED
    BY <1>2, <2>1 DEF TypeOK, JobState
<1> QED
  BY <1>3, <1>4

\* The end of a run: the pod is idle, or gone if it was draining.
LEMMA Releases ==
  ASSUME Release
  PROVE  /\ pod' \in {"off", "idle"} /\ doc' = NoDoc /\ age' = 0
         /\ UNCHANGED <<grace, sinceActive, untilPoll>>
BY DEF Release, kedaVars

-----------------------------------------------------------------------------
(* The invariant.                                                          *)

LEMMA SInit == Init => SInv
<1> SUFFICES ASSUME Init PROVE SInv
  OBVIOUS
<1>1. TypeOK
  BY LimitsAre DEF Init, TypeOK, JobState
<1>2. IsInjective(queue) /\ Range(queue) = {}
  BY DEF Init, IsInjective, Range
<1>3. JobsInPlace
  BY <1>2 DEF Init, JobsInPlace, Running
<1> QED
  BY <1>1, <1>3 DEF SInv

LEMMA UploadStep ==
  ASSUME SInv, NEW d \in Document, Upload(d)
  PROVE  SInv'
BY Pushes DEF Upload

LEMMA RunSchedulerStep ==
  ASSUME SInv, NEW d \in Document, RunScheduler(d)
  PROVE  SInv'
BY Pushes DEF RunScheduler

\* KEDA changes the number of pods and its own clocks, and no run.
LEMMA PollStep ==
  ASSUME SInv, Poll
  PROVE  SInv'
<1>1. UNCHANGED <<queue, job, retriesLeft, due, doc, age>>
  BY DEF Poll, jobVars
<1>2. /\ grace' \in {grace, Grace}
      /\ \/ pod' = pod
         \/ pod = "off" /\ pod' = "idle"
         \/ pod = "idle" /\ pod' = "off"
         \/ pod = "busy" /\ pod' = "draining"
  BY DEF Poll, SInv, TypeOK
<1>3. sinceActive' \in {0, sinceActive} /\ untilPoll' = PollingInterval
  BY DEF Poll
<1>4. TypeOK'
  BY <1>1, <1>2, <1>3, LimitsAre DEF SInv, TypeOK
<1>5. JobsInPlace'
  BY <1>1, <1>2 DEF SInv, JobsInPlace, Running
<1> QED
  BY <1>4, <1>5 DEF SInv

LEMMA KillStep ==
  ASSUME SInv, Kill
  PROVE  SInv'
<1>1. /\ pod = "draining" /\ pod' = "off" /\ doc' = NoDoc /\ age' = 0
      /\ UNCHANGED <<queue, job, retriesLeft, due, grace, sinceActive, untilPoll>>
  BY DEF Kill, jobVars, kedaVars
<1>2. TypeOK'
  BY <1>1, LimitsAre DEF SInv, TypeOK
<1>3. JobsInPlace'
  BY <1>1 DEF SInv, JobsInPlace, Running
<1> QED
  BY <1>2, <1>3 DEF SInv

LEMMA DequeueStep ==
  ASSUME SInv, Dequeue
  PROVE  SInv'
<1> DEFINE d == Head(queue)
<1>1. /\ pod = "idle" /\ pod' = "busy" /\ doc' = d /\ age' = 0
      /\ job' = [job EXCEPT ![d] = "started"] /\ queue' = Tail(queue)
      /\ UNCHANGED <<retriesLeft, due, grace, sinceActive, untilPoll>>
  BY DEF Dequeue, kedaVars
<1>2. queue \in Seq(Document) /\ queue # <<>> /\ IsInjective(queue)
  BY DEF SInv, TypeOK, JobsInPlace, Dequeue
<1>3. /\ queue' \in Seq(Document) /\ IsInjective(queue') /\ d \in Document
      /\ d \in Range(queue) /\ Range(queue') = Range(queue) \ {d}
  BY <1>1, <1>2, TailDrops
<1> HIDE DEF d
<1>4. TypeOK'
  BY <1>1, <1>3, LimitsAre DEF SInv, TypeOK, JobState
<1>5. job'[d] = "started" /\ \A e \in Document \ {d} : job'[e] = job[e]
  BY <1>1, <1>3 DEF SInv, TypeOK
<1>6. JobsInPlace'
  BY <1>1, <1>3, <1>5, NoDocFresh DEF SInv, JobsInPlace, Running
<1> QED
  BY <1>4, <1>6 DEF SInv

\* What Finish and Raise have in common: the job in hand was started, and it is
\* in no list when the pod lets it go.
LEMMA InHand ==
  ASSUME SInv, pod \in Running
  PROVE  doc \in Document /\ job[doc] = "started" /\ doc \notin Range(queue)
<1>1. doc \in Document /\ job[doc] = "started"
  BY DEF SInv, TypeOK, JobsInPlace
<1>2. doc \notin Range(queue)
  BY <1>1 DEF SInv, JobsInPlace
<1> QED
  BY <1>1, <1>2

\* A run that ends with its job neither queued nor started again.
LEMMA LetGo ==
  ASSUME SInv, pod \in Running, Release, queue' = queue,
         job' \in [Document -> JobState],
         retriesLeft' \in [Document -> 0 .. Len(Interval)], due' \in [Document -> Nat],
         job'[doc] \notin {"queued", "started"},
         \A e \in Document \ {doc} : job'[e] = job[e]
  PROVE  SInv'
<1>1. /\ pod' \in {"off", "idle"} /\ doc' = NoDoc /\ age' = 0
      /\ UNCHANGED <<grace, sinceActive, untilPoll>>
  BY Releases
<1>2. doc \in Document /\ doc \notin Range(queue)
  BY InHand
<1>3. TypeOK'
  BY <1>1, LimitsAre DEF SInv, TypeOK
<1>4. JobsInPlace'
  BY <1>1, <1>2 DEF SInv, JobsInPlace, Running
<1> QED
  BY <1>3, <1>4 DEF SInv

LEMMA FinishStep ==
  ASSUME SInv, Finish
  PROVE  SInv'
<1>1. /\ pod \in Running /\ Release /\ job' = [job EXCEPT ![doc] = "finished"]
      /\ UNCHANGED <<queue, retriesLeft, due>>
  BY DEF Finish
<1>2. doc \in Document
  BY <1>1, InHand
<1>3. /\ job' \in [Document -> JobState]
      /\ job'[doc] = "finished" /\ \A e \in Document \ {doc} : job'[e] = job[e]
      /\ retriesLeft' \in [Document -> 0 .. Len(Interval)] /\ due' \in [Document -> Nat]
  BY <1>1, <1>2 DEF SInv, TypeOK, JobState
<1> QED
  BY <1>1, <1>3, LetGo

LEMMA RaiseStep ==
  ASSUME SInv, Raise
  PROVE  SInv'
<1>1. pod \in Running /\ Release /\ HandleFailure(doc)
  BY DEF Raise
<1>2. doc \in Document
  BY <1>1, InHand
<1>3. /\ job' \in [Document -> JobState]
      /\ retriesLeft' \in [Document -> 0 .. Len(Interval)] /\ due' \in [Document -> Nat]
      /\ job'[doc] \in {"scheduled", "failed"}
      /\ \A e \in Document \ {doc} : job'[e] = job[e]
      /\ queue' = queue
  BY <1>1, <1>2, Fails DEF SInv
<1> QED
  BY <1>1, <1>3, LetGo

LEMMA ReapStep ==
  ASSUME SInv, NEW d \in Document, ReapAbandoned(d)
  PROVE  SInv'
<1>1. /\ pod = "idle" /\ job[d] = "started" /\ d # doc /\ HandleFailure(d)
      /\ UNCHANGED <<pod, doc, age, grace, sinceActive, untilPoll>>
  BY DEF ReapAbandoned, podVars, kedaVars
<1>2. /\ job' \in [Document -> JobState]
      /\ retriesLeft' \in [Document -> 0 .. Len(Interval)] /\ due' \in [Document -> Nat]
      /\ job'[d] \in {"scheduled", "failed"}
      /\ \A e \in Document \ {d} : job'[e] = job[e]
      /\ queue' = queue
  BY <1>1, Fails DEF SInv
<1>3. TypeOK'
  BY <1>1, <1>2 DEF SInv, TypeOK
<1>4. JobsInPlace'
  BY <1>1, <1>2 DEF SInv, JobsInPlace, Running
<1> QED
  BY <1>3, <1>4 DEF SInv

\* Time passes only while no clock has run out.
LEMMA TickStep ==
  ASSUME SInv, Tick
  PROVE  SInv'
<1>1. ~Urgent /\ UNCHANGED <<queue, job, retriesLeft, pod, doc>>
  BY DEF Tick
<1>2. /\ due' = [d \in Document |-> CountDown(due[d])] /\ grace' = CountDown(grace)
      /\ age' = IF pod \in Running THEN age + 1 ELSE age
      /\ sinceActive' = IF sinceActive < CooldownPeriod THEN sinceActive + 1 ELSE sinceActive
      /\ untilPoll' = untilPoll - 1
  BY DEF Tick
<1>3. /\ age \in 0 .. MaxRun /\ grace \in 0 .. Grace
      /\ sinceActive \in 0 .. CooldownPeriod /\ untilPoll \in 0 .. PollingInterval
  BY DEF SInv, TypeOK
<1>4. untilPoll # 0 /\ (pod \in Running => age # MaxRun)
  BY <1>1 DEF Urgent
<1>5. age' \in 0 .. MaxRun
  BY <1>2, <1>3, <1>4, LimitsAre
<1>6. grace' \in 0 .. Grace
  BY <1>2, <1>3, LimitsAre DEF CountDown
<1>7. sinceActive' \in 0 .. CooldownPeriod
  BY <1>2, <1>3, LimitsAre
<1>8. untilPoll' \in 0 .. PollingInterval
  BY <1>2, <1>3, <1>4, LimitsAre
<1>9. due' \in [Document -> Nat]
  BY <1>2 DEF SInv, TypeOK, CountDown
<1>10. TypeOK'
  BY <1>1, <1>5, <1>6, <1>7, <1>8, <1>9 DEF SInv, TypeOK
<1>11. JobsInPlace'
  BY <1>1 DEF SInv, JobsInPlace
<1> QED
  BY <1>10, <1>11 DEF SInv

LEMMA SStep == SInv /\ [Next]_vars => SInv'
<1> SUFFICES ASSUME SInv, [Next]_vars PROVE SInv'
  OBVIOUS
<1>1. CASE UNCHANGED vars
  BY <1>1 DEF vars, jobVars, podVars, kedaVars, SInv, TypeOK, JobsInPlace
<1> QED
  BY <1>1, UploadStep, RunSchedulerStep, PollStep, KillStep, DequeueStep, FinishStep,
     RaiseStep, ReapStep, TickStep DEF Next

LEMMA SInvariant == Spec => []SInv
BY SInit, SStep, PTL DEF Spec

-----------------------------------------------------------------------------
(* The theorems.                                                           *)

\* KEDA's list is the queued jobs, once each, and the pod has at most one more.
THEOREM ListIsTheQueued == Spec => []JobsInPlace
<1>1. SInv => JobsInPlace
  BY DEF SInv
<1> QED
  BY <1>1, SInvariant, PTL

\* At zero pods with a short list, a step other than an upload changes no job.
LEMMA AsleepStep ==
  ASSUME [Next]_vars, pod = "off", ~Active
  PROVE  \/ UNCHANGED <<queue, job, retriesLeft, pod>>
         \/ \E d \in Document : Upload(d)
<1>1. CASE Poll
  BY <1>1 DEF Poll, jobVars
<1>2. CASE Tick
  BY <1>2 DEF Tick
<1>3. CASE UNCHANGED vars
  BY <1>3 DEF vars, jobVars, podVars
<1>4. ~Kill /\ ~Dequeue /\ ~Finish /\ ~Raise
  BY DEF Kill, Dequeue, Finish, Raise, Running
<1>5. \A d \in Document : ~RunScheduler(d) /\ ~ReapAbandoned(d)
  BY DEF RunScheduler, ReapAbandoned, Serving
<1> QED
  BY <1>1, <1>2, <1>3, <1>4, <1>5 DEF Next

\* At zero pods with a short list, only an upload changes anything.
THEOREM NothingElseWakes == Spec => OnlyUploadsWake
<1>1. [Next]_vars => [pod = "off" /\ ~Active =>
                       \/ UNCHANGED <<queue, job, retriesLeft, pod>>
                       \/ \E d \in Document : Upload(d)]_vars
  BY AsleepStep
<1> QED
  BY <1>1, PTL DEF Spec, OnlyUploadsWake

\* Once no upload is to come, a deployment at zero whose list is short stays so,
\* and each job stays where it is: the retry that was to run never runs.
THEOREM SleepIsForEver == Spec => SleepStrands
<1>1. ASSUME NEW d \in Document, NEW s \in JobState
      PROVE  Spec => [](Asleep /\ job[d] = s => [](Asleep /\ job[d] = s))
  <2> DEFINE Stuck == Asleep /\ job[d] = s
  <2>1. Stuck /\ [Next]_vars => Stuck'
    <3> SUFFICES ASSUME Stuck, [Next]_vars PROVE Stuck'
      OBVIOUS
    <3>1. \A e \in Document : ~Upload(e)
      BY DEF Asleep, Upload
    <3>2. UNCHANGED <<queue, job, retriesLeft, pod>>
      BY <3>1, AsleepStep DEF Asleep
    <3> QED
      BY <3>2 DEF Asleep, Active
  <2> HIDE DEF Stuck
  <2>2. Spec => [](Stuck => []Stuck)
    BY <2>1, PTL DEF Spec
  <2> QED
    BY <2>2 DEF Stuck
<1> QED
  BY <1>1 DEF SleepStrands

-----------------------------------------------------------------------------
(* The life of a job.                                                      *)

LEMMA PushLives ==
  ASSUME NEW d \in Document, Push(d), UNCHANGED retriesLeft,
         job[d] = "none" \/ job[d] = "scheduled"
  PROVE  Life!Next
BY DEF Push, Life!Next, Life!Enqueue, Life!Requeue, Life!Move

LEMMA FailureLives ==
  ASSUME TypeOK, NEW d \in Document, job[d] = "started", HandleFailure(d)
  PROVE  Life!Next
<1>1. retriesLeft[d] \in Nat
  BY LimitsAre DEF TypeOK
<1>2. CASE retriesLeft[d] > 0
  <2>1. Life!Retry(d)
    BY <1>2 DEF HandleFailure, Life!Retry, Life!Move
  <2> QED
    BY <2>1 DEF Life!Next
<1>3. CASE ~(retriesLeft[d] > 0)
  <2>1. retriesLeft[d] = 0
    BY <1>1, <1>3
  <2>2. Life!DeadLetter(d)
    BY <1>3, <2>1 DEF HandleFailure, Life!DeadLetter, Life!Move
  <2> QED
    BY <2>2 DEF Life!Next
<1> QED
  BY <1>2, <1>3

\* Whatever the clocks of KEDA, the retries and the grace do, a job runs only out
\* of the list, pays for each failed run and is settled once.
THEOREM ClocksImplementJobLife == Spec => ImplementsJobLife
<1>1. Init => Life!Init
  BY DEF Init, Life!Init
<1>2. SInv /\ [Next]_vars => [Life!Next]_(Life!vars)
  <2> SUFFICES ASSUME SInv, [Next]_vars PROVE Life!Next \/ UNCHANGED <<job, retriesLeft>>
    BY DEF Life!vars
  <2>1. ASSUME NEW d \in Document, Upload(d) \/ RunScheduler(d) PROVE Life!Next
    BY <2>1, PushLives DEF Upload, RunScheduler
  <2>2. CASE Dequeue
    <3> DEFINE d == Head(queue)
    <3>1. job' = [job EXCEPT ![d] = "started"] /\ UNCHANGED retriesLeft
      BY <2>2 DEF Dequeue
    <3>2. queue \in Seq(Document) /\ queue # <<>> /\ IsInjective(queue)
      BY <2>2 DEF SInv, TypeOK, JobsInPlace, Dequeue
    <3>3. d \in Document /\ d \in Range(queue)
      BY <3>2, TailDrops
    <3>4. job[d] = "queued"
      BY <3>3 DEF SInv, JobsInPlace
    <3> HIDE DEF d
    <3>5. Life!Run(d)
      BY <3>1, <3>4 DEF Life!Run, Life!Move
    <3> QED
      BY <3>3, <3>5 DEF Life!Next
  <2>3. CASE Finish
    <3>1. pod \in Running /\ job' = [job EXCEPT ![doc] = "finished"] /\ UNCHANGED retriesLeft
      BY <2>3 DEF Finish
    <3>2. doc \in Document /\ job[doc] = "started"
      BY <3>1, InHand
    <3>3. Life!Finish(doc)
      BY <3>1, <3>2 DEF Life!Finish, Life!Move
    <3> QED
      BY <3>2, <3>3 DEF Life!Next
  <2>4. CASE Raise
    <3>1. doc \in Document /\ job[doc] = "started" /\ HandleFailure(doc)
      BY <2>4, InHand DEF Raise
    <3> QED
      BY <3>1, FailureLives DEF SInv
  <2>5. ASSUME NEW d \in Document, ReapAbandoned(d) PROVE Life!Next
    BY <2>5, FailureLives DEF ReapAbandoned, SInv
  <2>6. CASE Poll \/ Kill \/ Tick \/ UNCHANGED vars
    BY <2>6 DEF Poll, Kill, Tick, vars, jobVars
  <2> QED
    BY <2>1, <2>2, <2>3, <2>4, <2>5, <2>6 DEF Next
<1> QED
  BY <1>1, <1>2, SInvariant, PTL DEF Spec, ImplementsJobLife, Life!Spec
=============================================================================
