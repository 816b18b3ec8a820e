----------------------------- MODULE HarnessProofs -----------------------------
(***************************************************************************)
(* For any scripts and any number of attempts: a script keeps its lanes to *)
(* one POST at a time, and a report counts every request once.             *)
(***************************************************************************)
EXTENDS Harness, FiniteSetTheorems, TLAPS

-----------------------------------------------------------------------------
(* The inductive invariant: where a lane is divides its POSTs into those   *)
(* it has done with, those it gave up, the current one and those to come.  *)

WaitingIsCurrent == \A q \in Post : caller[q] = "waiting" => q = Current(q[1])

\* A handler at work is one whose caller waits or has given up.
RunningKnown == \A q \in running : caller[q] \in {"waiting", "no reply"}

\* Only an attempt without a reply is followed by another one.
EarlierUnanswered ==
  \A q \in Post : q[2] = at[q[1]].request /\ q[3] < at[q[1]].attempt => caller[q] = "no reply"

Ahead(q) ==
  \/ q[2] > at[q[1]].request
  \/ q[2] = at[q[1]].request /\ q[3] > at[q[1]].attempt

AheadIdle == \A q \in Post : Ahead(q) => caller[q] = "idle"

ResultsArePast == \A k \in DOMAIN results : results[k][2] < at[results[k][1]].request

CountedOnce(l, i) ==
  \E k \in DOMAIN results :
    /\ Entries(l, i) = {k}
    /\ \/ results[k][3] = "ok" /\ \E q \in Post : Answers(l, i) = {q}
       \/ results[k][3] = "error" /\ Answers(l, i) = {} /\ ~script.aborts

PastIsCounted ==
  \A l \in Lane, i \in Nat \ {0} : i < at[l].request => CountedOnce(l, i)

ReportedAtEnd ==
  status = "reported" => \A l \in 1 .. script.lanes : at[l].request > script.each

HInv ==
  /\ TypeOK /\ WaitingIsCurrent /\ RunningKnown /\ EarlierUnanswered
  /\ AheadIdle /\ ResultsArePast /\ PastIsCounted /\ ReportedAtEnd

-----------------------------------------------------------------------------
(* POSTs and lanes. *)

LEMMA PostType ==
  ASSUME NEW q \in Post
  PROVE  /\ q = <<q[1], q[2], q[3]>>
         /\ q[1] \in Lane /\ q[2] \in Nat \ {0} /\ q[3] \in Nat \ {0}
<1>1. PICK s \in Script : q \in (1 .. s.lanes) \X (1 .. s.each) \X (1 .. s.attempts)
  BY DEF Post
<1>2. s.lanes \in Nat /\ s.each \in Nat /\ s.attempts \in Nat
  BY ScriptType
<1>3. q[1] \in Lane
  BY <1>1 DEF Lane
<1> QED
  BY <1>1, <1>2, <1>3

LEMMA CurrentFields ==
  \A l : Current(l)[1] = l /\ Current(l)[2] = at[l].request /\ Current(l)[3] = at[l].attempt
BY DEF Current

LEMMA LaneType ==
  ASSUME TypeOK, NEW l, InLane(l)
  PROVE  /\ l \in Lane /\ Current(l) \in Post
         /\ at[l].request \in Nat \ {0} /\ at[l].attempt \in Nat \ {0}
         /\ Current(l)[1] = l /\ Current(l)[2] = at[l].request /\ Current(l)[3] = at[l].attempt
<1>1. script \in Script /\ l \in 1 .. script.lanes /\ at[l].request <= script.each
  BY DEF InLane, TypeOK
<1>2. script.lanes \in Nat /\ script.each \in Nat /\ script.attempts \in Nat
  BY <1>1, ScriptType
<1>3. l \in Lane
  BY <1>1 DEF Lane
<1>4. at[l] \in [request : Nat \ {0}, attempt : Nat \ {0}] /\ at[l].attempt <= script.attempts
  BY <1>3 DEF TypeOK
<1>5. Current(l) \in (1 .. script.lanes) \X (1 .. script.each) \X (1 .. script.attempts)
  BY <1>1, <1>2, <1>4 DEF Current
<1> QED
  BY <1>1, <1>3, <1>4, <1>5 DEF Post, Current

LEMMA AttemptsPositive == ASSUME NEW s \in Script PROVE s.attempts \in Nat \ {0}
BY ScriptType

LEMMA InitHolds == Init => HInv
<1> SUFFICES ASSUME Init PROVE HInv
  OBVIOUS
<1> USE DEF Init, Api!ContractInit
<1>1. TypeOK
  BY AttemptsPositive DEF TypeOK, Lane
<1>2. \A l \in Lane : at[l].request = 1 /\ at[l].attempt = 1
  OBVIOUS
<1>3. WaitingIsCurrent /\ RunningKnown /\ AheadIdle /\ ResultsArePast /\ ReportedAtEnd
  BY DEF WaitingIsCurrent, RunningKnown, AheadIdle, ResultsArePast, ReportedAtEnd
<1>4. EarlierUnanswered
  BY <1>2, PostType DEF EarlierUnanswered
<1>5. PastIsCounted
  BY <1>2 DEF PastIsCounted
<1> QED
  BY <1>1, <1>3, <1>4, <1>5 DEF HInv

-----------------------------------------------------------------------------
(* Steps that change what is known of a current POST only. *)

\* Past requests have the answers they had.
LEMMA AnswersStay ==
  ASSUME HInv, UNCHANGED at,
         \A q \in Post : caller'[q] # caller[q] => q = Current(q[1]),
         NEW l \in Lane, NEW i \in Nat \ {0}, i < at[l].request
  PROVE  Answers(l, i)' = Answers(l, i)
<1>1. \A q \in Post : q[1] = l /\ q[2] = i => caller'[q] = caller[q]
  <2> SUFFICES ASSUME NEW q \in Post, q[1] = l, q[2] = i, q = Current(q[1]) PROVE FALSE
    OBVIOUS
  <2>1. q[2] = at[l].request
    BY DEF Current
  <2>2. at[l].request \in Nat
    BY DEF HInv, TypeOK
  <2> QED
    BY <2>1, <2>2
<1> QED
  BY <1>1 DEF Answers

LEMMA CurrentIsNotAhead ==
  ASSUME NEW q \in Post
  PROVE  /\ Ahead(q) => q # Current(q[1])
         /\ q[2] = at[q[1]].request /\ q[3] < at[q[1]].attempt => q # Current(q[1])
<1>1. q[2] \in Nat /\ q[3] \in Nat
  BY PostType
<1>2. q[2] = at[q[1]].request => ~(q[2] > at[q[1]].request)
  BY <1>1
<1>3. q[3] = at[q[1]].attempt => ~(q[3] > at[q[1]].attempt) /\ ~(q[3] < at[q[1]].attempt)
  BY <1>1
<1>4. q = Current(q[1]) => q[2] = at[q[1]].request /\ q[3] = at[q[1]].attempt
  BY CurrentFields, Zenon
<1> QED
  BY <1>2, <1>3, <1>4, Zenon DEF Ahead

LEMMA CallerMoves ==
  ASSUME HInv, UNCHANGED <<script, at, results>>,
         caller' \in [Post -> {"idle", "waiting"} \cup Api!Outcome], running' \subseteq Post,
         status' \in {"running", "reported", "aborted"}, status' = "reported" => status = "reported",
         \A q \in Post : caller'[q] # caller[q] => q = Current(q[1]),
         \A q \in running' : caller'[q] \in {"waiting", "no reply"}
  PROVE  HInv'
<1>1. TypeOK'
  BY DEF HInv, TypeOK
<1>2. WaitingIsCurrent' /\ RunningKnown' /\ ReportedAtEnd' /\ ResultsArePast'
  BY DEF HInv, WaitingIsCurrent, RunningKnown, ReportedAtEnd, ResultsArePast, Current
<1>3. \A q \in Post : /\ Ahead(q) => q # Current(q[1])
                      /\ q[2] = at[q[1]].request /\ q[3] < at[q[1]].attempt => q # Current(q[1])
  BY CurrentIsNotAhead
<1>4. EarlierUnanswered'
  BY <1>3 DEF HInv, EarlierUnanswered
<1>5. AheadIdle'
  BY <1>3 DEF HInv, AheadIdle, Ahead
<1>6. PastIsCounted'
  <2> SUFFICES ASSUME NEW l \in Lane, NEW i \in Nat \ {0}, i < at[l].request
               PROVE  CountedOnce(l, i)'
    BY DEF PastIsCounted
  <2>1. CountedOnce(l, i)
    BY DEF HInv, PastIsCounted
  <2>2. Answers(l, i)' = Answers(l, i)
    BY AnswersStay
  <2> QED
    BY <2>1, <2>2 DEF CountedOnce, Entries
<1> QED
  BY <1>1, <1>2, <1>4, <1>5, <1>6 DEF HInv

\* What StopWaiting does to the POSTs of a set.
LEMMA StopWaitingMoves ==
  ASSUME HInv, NEW S \in SUBSET Post, Api!StopWaiting(S)
  PROVE  /\ caller' \in [Post -> {"idle", "waiting"} \cup Api!Outcome] /\ running' \subseteq Post
         /\ \A q \in Post : caller'[q] # caller[q] => q = Current(q[1])
         /\ \A q \in running' : caller'[q] \in {"waiting", "no reply"}
<1>1. \A q \in S : q = Current(q[1])
  BY DEF Api!StopWaiting, HInv, WaitingIsCurrent
<1>2. caller \in [Post -> {"idle", "waiting"} \cup Api!Outcome] /\ running \subseteq Post
  BY DEF HInv, TypeOK
<1>3. \A q \in Post : caller'[q] = IF q \in S THEN "no reply" ELSE caller[q]
  BY DEF Api!StopWaiting
<1>4. caller' \in [Post -> {"idle", "waiting"} \cup Api!Outcome] /\ running' \subseteq Post
  BY <1>2 DEF Api!StopWaiting, Api!Outcome
<1>5. \A q \in running' : caller'[q] \in {"waiting", "no reply"}
  BY <1>2, <1>3 DEF Api!StopWaiting, HInv, RunningKnown
<1> QED
  BY <1>1, <1>3, <1>4, <1>5

LEMMA SendStep == ASSUME HInv, NEW l \in Lane, Send(l) PROVE HInv'
<1>1. Current(l) \in Post /\ Current(Current(l)[1]) = Current(l)
  BY LaneType DEF HInv, Send, Current
<1>2. caller \in [Post -> {"idle", "waiting"} \cup Api!Outcome] /\ running \subseteq Post
  BY DEF HInv, TypeOK
<1>3. caller[Current(l)] = "idle" /\ UNCHANGED scriptVars
  BY DEF Send, Known
<1>4. Current(l) \notin running
  BY <1>3 DEF HInv, RunningKnown
<1>5. \E o \in {"idle", "waiting"} \cup Api!Outcome : caller' = [caller EXCEPT ![Current(l)] = o]
  BY DEF Send, Api!Take, Api!TurnAway
<1>6. /\ caller' \in [Post -> {"idle", "waiting"} \cup Api!Outcome]
      /\ \A q \in Post : caller'[q] # caller[q] => q = Current(q[1])
  BY <1>1, <1>2, <1>5
<1>7. running' \subseteq Post /\ \A q \in running' : caller'[q] \in {"waiting", "no reply"}
  BY <1>1, <1>2, <1>4 DEF Send, Api!Take, Api!TurnAway, HInv, RunningKnown
<1>8. status' \in {"running", "reported", "aborted"} /\ (status' = "reported" => status = "reported")
  BY <1>3 DEF HInv, TypeOK, scriptVars
<1> QED
  BY <1>3, <1>6, <1>7, <1>8, CallerMoves DEF scriptVars

LEMMA TimeOutStep == ASSUME HInv, NEW l \in Lane, TimeOut(l) PROVE HInv'
<1>1. Current(l) \in Post
  BY LaneType DEF HInv, TimeOut
<1>2. status' \in {"running", "reported", "aborted"} /\ (status' = "reported" => status = "reported")
  BY DEF TimeOut, HInv, TypeOK, scriptVars
<1>3. {Current(l)} \in SUBSET Post /\ Api!StopWaiting({Current(l)})
  BY <1>1 DEF TimeOut
<1> QED
  BY <1>2, <1>3, StopWaitingMoves, CallerMoves DEF TimeOut, scriptVars

LEMMA ServiceStep == ASSUME HInv, Service PROVE HInv'
<1>1. caller \in [Post -> {"idle", "waiting"} \cup Api!Outcome] /\ running \subseteq Post
  BY DEF HInv, TypeOK
<1>2. status' \in {"running", "reported", "aborted"} /\ (status' = "reported" => status = "reported")
  BY DEF Service, HInv, TypeOK, scriptVars
<1>3. UNCHANGED <<script, at, results>>
  BY DEF Service, scriptVars
<1>4. CASE Api!Crash
  <2>1. \A q \in Post : caller'[q] = IF q \in running /\ caller[q] = "waiting"
                                     THEN "no reply" ELSE caller[q]
    BY <1>4 DEF Api!Crash
  <2>2. caller' \in [Post -> {"idle", "waiting"} \cup Api!Outcome] /\ running' = {}
    BY <1>1, <1>4 DEF Api!Crash, Api!Outcome
  <2>3. \A q \in Post : caller'[q] # caller[q] => q = Current(q[1])
    BY <2>1 DEF HInv, WaitingIsCurrent
  <2> QED
    BY <1>2, <1>3, <2>2, <2>3, CallerMoves
<1>5. ASSUME NEW p \in running, Api!End(p) PROVE HInv'
  <2>1. PICK o \in Api!Outcome :
          caller' = IF caller[p] = "waiting" THEN [caller EXCEPT ![p] = o] ELSE caller
    BY <1>5 DEF Api!End
  <2>2. caller' \in [Post -> {"idle", "waiting"} \cup Api!Outcome] /\ running' \subseteq Post
    BY <1>1, <1>5, <2>1 DEF Api!End
  <2>3. \A q \in Post : caller'[q] # caller[q] => q = p /\ caller[p] = "waiting"
    BY <1>1, <2>1
  <2>4. \A q \in Post : caller'[q] # caller[q] => q = Current(q[1])
    BY <2>3 DEF HInv, WaitingIsCurrent
  <2>5. \A q \in running' : caller'[q] \in {"waiting", "no reply"}
    BY <1>1, <1>5, <2>3 DEF Api!End, HInv, RunningKnown
  <2> QED
    BY <1>2, <1>3, <2>2, <2>4, <2>5, CallerMoves
<1> QED
  BY <1>4, <1>5 DEF Service

-----------------------------------------------------------------------------
(* Steps that move a lane on. *)

LEMMA RetryStep == ASSUME HInv, NEW l \in Lane, Retry(l) PROVE HInv'
<1> DEFINE r == at[l].request
           a == at[l].attempt
<1>1. InLane(l) /\ caller[Current(l)] = "no reply" /\ a < script.attempts
      /\ UNCHANGED <<script, results, status, caller, running>>
  BY DEF Retry, Known
<1>2. Current(l) \in Post /\ r \in Nat \ {0} /\ a \in Nat \ {0} /\ Current(l) = <<l, r, a>>
  BY <1>1, LaneType DEF HInv, Current
<1>3. at \in [Lane -> [request : Nat \ {0}, attempt : Nat \ {0}]]
  BY DEF HInv, TypeOK
<1>4. /\ at' \in [Lane -> [request : Nat \ {0}, attempt : Nat \ {0}]]
      /\ at'[l].attempt = a + 1
      /\ \A k \in Lane : at'[k].request = at[k].request /\ (k # l => at'[k] = at[k])
  <2>1. at' = [at EXCEPT ![l] = [@ EXCEPT !.attempt = a + 1]]
    BY DEF Retry
  <2>2. at[l] = [request |-> r, attempt |-> a]
    BY <1>3
  <2>3. [at[l] EXCEPT !.attempt = a + 1] = [request |-> r, attempt |-> a + 1]
    BY <2>2
  <2>4. at' = [at EXCEPT ![l] = [request |-> r, attempt |-> a + 1]]
    BY <2>1, <2>3
  <2> QED
    BY <1>2, <1>3, <2>4
<1>5. TypeOK'
  <2>1. script.attempts \in Nat
    BY AttemptsPositive DEF HInv, TypeOK
  <2>2. \A k \in Lane : at[k].attempt <= script.attempts
    BY DEF HInv, TypeOK
  <2>3. \A k \in Lane : at'[k].attempt <= script.attempts
    <3> SUFFICES ASSUME NEW k \in Lane PROVE at'[k].attempt <= script.attempts
      OBVIOUS
    <3>1. CASE k # l
      BY <1>4, <2>2, <3>1
    <3>2. CASE k = l
      <4>1. \A x, y \in Nat : x < y => x + 1 <= y
        OBVIOUS
      <4>2. a \in Nat /\ a < script.attempts
        BY <1>1, <1>2
      <4>3. a + 1 <= script.attempts
        BY <2>1, <4>1, <4>2, Zenon
      <4> QED
        BY <1>4, <3>2, <4>3, Zenon
    <3> QED
      BY <3>1, <3>2
  <2> QED
    BY <1>1, <1>4, <2>3 DEF HInv, TypeOK
<1>6. WaitingIsCurrent'
  <2> SUFFICES ASSUME NEW q \in Post, caller[q] = "waiting" PROVE q = Current(q[1])'
    BY <1>1 DEF WaitingIsCurrent
  <2>1. q = Current(q[1]) /\ q[1] \in Lane
    BY PostType DEF HInv, WaitingIsCurrent
  <2>2. q[1] # l
    BY <1>1, <2>1
  <2> QED
    BY <1>4, <2>1, <2>2 DEF Current
<1>7. RunningKnown' /\ ReportedAtEnd'
  BY <1>1 DEF HInv, RunningKnown, ReportedAtEnd, InLane
<1>8. EarlierUnanswered'
  <2> SUFFICES ASSUME NEW q \in Post, q[2] = at'[q[1]].request, q[3] < at'[q[1]].attempt
               PROVE  caller[q] = "no reply"
    BY <1>1 DEF EarlierUnanswered
  <2>1. q = <<q[1], q[2], q[3]>> /\ q[1] \in Lane /\ q[3] \in Nat
    BY PostType
  <2>2. CASE q[1] # l \/ q[3] < a
    BY <1>4, <2>1, <2>2 DEF HInv, EarlierUnanswered
  <2>3. CASE q[1] = l /\ q[3] = a
    <3>1. q[2] = r
      BY <1>4, <2>3
    <3>2. q = Current(l)
      BY <1>2, <2>1, <2>3, <3>1
    <3> QED
      BY <1>1, <3>2
  <2>4. q[1] = l => q[3] < a + 1
    BY <1>4
  <2>5. q[1] = l => q[3] < a \/ q[3] = a
    BY <1>2, <2>1, <2>4
  <2> QED
    BY <2>2, <2>3, <2>5
<1>9. AheadIdle'
  <2> SUFFICES ASSUME NEW q \in Post, Ahead(q)' PROVE Ahead(q)
    BY <1>1 DEF HInv, AheadIdle
  <2>1. q[1] \in Lane /\ q[3] \in Nat
    BY PostType
  <2> QED
    BY <1>2, <1>4, <2>1 DEF Ahead
<1>10. ResultsArePast'
  <2>1. \A k \in DOMAIN results :
          results[k][1] \in Lane /\ results[k][2] < at[results[k][1]].request
    BY DEF HInv, TypeOK, ResultsArePast
  <2> QED
    BY <1>1, <1>4, <2>1 DEF ResultsArePast
<1>11. PastIsCounted'
  <2> SUFFICES ASSUME NEW k \in Lane, NEW i \in Nat \ {0}, i < at[k].request
               PROVE  CountedOnce(k, i)'
    BY <1>4 DEF PastIsCounted
  <2>1. CountedOnce(k, i)
    BY DEF HInv, PastIsCounted
  <2> QED
    BY <1>1, <2>1 DEF CountedOnce, Entries, Answers
<1> QED
  BY <1>5, <1>6, <1>7, <1>8, <1>9, <1>10, <1>11 DEF HInv

\* A request is over: its POSTs and its result agree.
LEMMA RecordStep ==
  ASSUME HInv, NEW l \in Lane, InLane(l), NEW result \in {"ok", "error"}, Records(l, result),
         caller[Current(l)] # "waiting", caller[Current(l)] # "idle",
         result = "ok" <=> caller[Current(l)] = "answered", result = "error" => ~script.aborts,
         UNCHANGED <<script, status, caller, running>>
  PROVE  HInv'
<1> DEFINE r == at[l].request
           a == at[l].attempt
<1>1. Current(l) \in Post /\ r \in Nat \ {0} /\ a \in Nat \ {0} /\ Current(l) = <<l, r, a>>
  BY LaneType DEF HInv, Current
<1>2. at \in [Lane -> [request : Nat \ {0}, attempt : Nat \ {0}]]
  BY DEF HInv, TypeOK
<1>3. /\ at' \in [Lane -> [request : Nat \ {0}, attempt : Nat \ {0}]]
      /\ at'[l].request = r + 1 /\ at'[l].attempt = 1
      /\ \A k \in Lane : k # l => at'[k] = at[k]
  BY <1>1, <1>2 DEF Records
<1>4. /\ results' \in Seq(Lane \X Nat \X {"ok", "error"})
      /\ Len(results) \in Nat /\ DOMAIN results = 1 .. Len(results)
      /\ DOMAIN results' = 1 .. Len(results) + 1
      /\ results'[Len(results) + 1] = <<l, r, result>>
      /\ \A k \in 1 .. Len(results) : results'[k] = results[k]
  <2>1. results' = Append(results, <<l, r, result>>)
    BY DEF Records
  <2>2. results \in Seq(Lane \X Nat \X {"ok", "error"})
    BY DEF HInv, TypeOK
  <2>3. <<l, r, result>> \in Lane \X Nat \X {"ok", "error"}
    BY <1>1
  <2> QED
    BY <2>1, <2>2, <2>3
<1>5. TypeOK'
  <2>1. /\ script.attempts \in Nat \ {0}
        /\ \A k \in Lane : at[k].attempt <= script.attempts
    BY AttemptsPositive DEF HInv, TypeOK
  <2>2. \A k \in Lane : at'[k].attempt <= script.attempts
    <3> SUFFICES ASSUME NEW k \in Lane PROVE at'[k].attempt <= script.attempts
      OBVIOUS
    <3>1. CASE k = l
      <4>1. 1 <= script.attempts
        BY <2>1
      <4> QED
        BY <1>3, <3>1, <4>1
    <3>2. CASE k # l
      BY <1>3, <2>1, <3>2
    <3> QED
      BY <3>1, <3>2
  <2> QED
    BY <1>3, <1>4, <2>2 DEF HInv, TypeOK
<1>6. WaitingIsCurrent'
  <2> SUFFICES ASSUME NEW q \in Post, caller[q] = "waiting" PROVE q = Current(q[1])'
    BY DEF WaitingIsCurrent
  <2>1. q = Current(q[1]) /\ q[1] \in Lane
    BY PostType DEF HInv, WaitingIsCurrent
  <2>2. q[1] # l
    BY <2>1
  <2> QED
    BY <1>3, <2>1, <2>2 DEF Current
<1>7. RunningKnown' /\ ReportedAtEnd'
  BY DEF HInv, RunningKnown, ReportedAtEnd, InLane
<1>8. EarlierUnanswered'
  <2> SUFFICES ASSUME NEW q \in Post, q[2] = at'[q[1]].request, q[3] < at'[q[1]].attempt
               PROVE  caller[q] = "no reply"
    BY DEF EarlierUnanswered
  <2>1. q[1] \in Lane /\ q[3] \in Nat \ {0}
    BY PostType
  <2>2. q[1] # l
    BY <1>3, <2>1
  <2> QED
    BY <1>3, <2>1, <2>2 DEF HInv, EarlierUnanswered
<1>9. AheadIdle'
  <2> SUFFICES ASSUME NEW q \in Post, Ahead(q)' PROVE Ahead(q)
    BY DEF HInv, AheadIdle
  <2>1. q[1] \in Lane /\ q[2] \in Nat
    BY PostType
  <2> QED
    BY <1>1, <1>3, <2>1 DEF Ahead
<1>10. ResultsArePast'
  <2> SUFFICES ASSUME NEW k \in DOMAIN results'
               PROVE  results'[k][2] < at'[results'[k][1]].request
    BY DEF ResultsArePast
  <2>1. CASE k \in 1 .. Len(results)
    <3>1. /\ results'[k] = results[k] /\ results[k][2] < at[results[k][1]].request
          /\ results[k][1] \in Lane /\ results[k][2] \in Nat
      BY <1>4, <2>1 DEF HInv, TypeOK, ResultsArePast
    <3> QED
      BY <1>1, <1>3, <3>1
  <2>2. CASE k = Len(results) + 1
    BY <1>1, <1>3, <1>4, <2>2
  <2> QED
    BY <1>4, <2>1, <2>2
<1>11. PastIsCounted'
  <2> SUFFICES ASSUME NEW k \in Lane, NEW i \in Nat \ {0}, i < at'[k].request
               PROVE  CountedOnce(k, i)'
    BY DEF PastIsCounted
  <2>1. Answers(k, i)' = Answers(k, i)
    BY DEF Answers
  <2>2. CASE i < at[k].request
    <3>1. CountedOnce(k, i)
      BY <2>2 DEF HInv, PastIsCounted
    <3>2. k # l \/ i # r
      BY <1>1, <2>2
    <3>3. Entries(k, i)' = Entries(k, i)
      BY <1>4, <3>2 DEF Entries
    <3>4. PICK j \in DOMAIN results :
            /\ Entries(k, i) = {j}
            /\ \/ results[j][3] = "ok" /\ \E q \in Post : Answers(k, i) = {q}
               \/ results[j][3] = "error" /\ Answers(k, i) = {} /\ ~script.aborts
      BY <3>1 DEF CountedOnce
    <3>5. j \in DOMAIN results' /\ results'[j] = results[j]
      BY <1>4
    <3> QED
      BY <2>1, <3>3, <3>4, <3>5 DEF CountedOnce
  <2>3. CASE k = l /\ i = r
    <3>1. Entries(k, i)' = {Len(results) + 1}
      <4>1. \A j \in DOMAIN results : ~(results[j][1] = k /\ results[j][2] = i)
        BY <1>1, <2>3 DEF HInv, ResultsArePast
      <4>2. \A j \in 1 .. Len(results) + 1 : j \in 1 .. Len(results) \/ j = Len(results) + 1
        BY <1>4
      <4>3. Len(results) + 1 \in 1 .. Len(results) + 1
        BY <1>4
      <4>4. \A j \in DOMAIN results' :
              results'[j][1] = k /\ results'[j][2] = i <=> j = Len(results) + 1
        BY <1>4, <2>3, <4>1, <4>2
      <4> QED
        BY <1>4, <4>3, <4>4 DEF Entries
    <3>2. \A q \in Post : q[1] = l /\ q[2] = r /\ caller[q] = "answered" => q = Current(l)
      <4> SUFFICES ASSUME NEW q \in Post, q[1] = l, q[2] = r, caller[q] = "answered"
                   PROVE  q[3] = a
        BY <1>1, PostType
      <4>1. q[3] \in Nat
        BY PostType
      <4>2. ~(q[3] < a) /\ ~(q[3] > a)
        BY DEF HInv, EarlierUnanswered, AheadIdle, Ahead
      <4> QED
        BY <1>1, <4>1, <4>2
    <3>3. Answers(l, r) = IF result = "ok" THEN {Current(l)} ELSE {}
      BY <1>1, <3>2 DEF Answers
    <3>4. /\ Len(results) + 1 \in DOMAIN results'
          /\ results'[Len(results) + 1][3] = result
      BY <1>4
    <3>5. CASE result = "ok"
      <4>1. Answers(k, i)' = {Current(l)} /\ Current(l) \in Post
        BY <1>1, <2>1, <2>3, <3>3, <3>5
      <4> QED
        BY <2>3, <3>1, <3>4, <3>5, <4>1 DEF CountedOnce
    <3>6. CASE result = "error"
      <4>1. Answers(k, i)' = {} /\ ~script'.aborts
        BY <2>1, <2>3, <3>3, <3>6
      <4> QED
        BY <2>3, <3>1, <3>4, <3>6, <4>1 DEF CountedOnce
    <3> QED
      BY <3>5, <3>6
  <2> QED
    BY <1>1, <1>2, <1>3, <2>2, <2>3
<1> QED
  BY <1>5, <1>6, <1>7, <1>8, <1>9, <1>10, <1>11 DEF HInv

LEMMA ScoreStep == ASSUME HInv, NEW l \in Lane, Score(l) PROVE HInv'
<1>1. /\ InLane(l) /\ caller[Current(l)] = "answered" /\ Records(l, "ok")
      /\ UNCHANGED <<script, status, caller, running>>
  BY DEF Score, Known
<1> QED
  BY <1>1, RecordStep

LEMMA FailsStep == ASSUME HInv, NEW l \in Lane, Fails(l) PROVE HInv'
<1>1. InLane(l) /\ caller[Current(l)] \in {"refused", "failed", "no reply"} /\ UNCHANGED script
  BY DEF Fails, Known
<1>2. CASE script.aborts
  <2>1. /\ status' = "aborted" /\ UNCHANGED <<script, at, results>>
        /\ Api!StopWaiting({q \in Post : caller[q] = "waiting"})
    BY <1>1, <1>2 DEF Fails
  <2>2. {q \in Post : caller[q] = "waiting"} \in SUBSET Post
    OBVIOUS
  <2> QED
    BY <2>1, <2>2, StopWaitingMoves, CallerMoves
<1>3. CASE ~script.aborts
  <2>1. Records(l, "error") /\ UNCHANGED <<script, status, caller, running>>
    BY <1>1, <1>3 DEF Fails
  <2> QED
    BY <1>1, <1>3, <2>1, RecordStep
<1> QED
  BY <1>2, <1>3

LEMMA JudgeStep == ASSUME HInv, JudgeFails PROVE HInv'
<1>1. UNCHANGED <<script, at, results, caller, running>> /\ status' = "aborted"
  BY DEF JudgeFails
<1>2. caller' \in [Post -> {"idle", "waiting"} \cup Api!Outcome] /\ running' \subseteq Post
  BY <1>1 DEF HInv, TypeOK
<1>3. \A q \in running' : caller'[q] \in {"waiting", "no reply"}
  BY <1>1 DEF HInv, RunningKnown
<1> QED
  BY <1>1, <1>2, <1>3, CallerMoves

LEMMA ReportStep == ASSUME HInv, Report PROVE HInv'
<1>1. \A l \in 1 .. script.lanes : at[l].request > script.each
  BY DEF Report
<1>2. UNCHANGED <<script, at, results, caller, running>> /\ status' = "reported"
  BY DEF Report
<1>3. TypeOK' /\ WaitingIsCurrent' /\ RunningKnown' /\ EarlierUnanswered'
  BY <1>2 DEF HInv, TypeOK, WaitingIsCurrent, RunningKnown, EarlierUnanswered, Current
<1>4. AheadIdle' /\ ResultsArePast'
  BY <1>2 DEF HInv, AheadIdle, Ahead, ResultsArePast
<1>5. PastIsCounted'
  BY <1>2 DEF HInv, PastIsCounted, CountedOnce, Entries, Answers
<1>6. ReportedAtEnd'
  BY <1>1, <1>2 DEF ReportedAtEnd
<1> QED
  BY <1>3, <1>4, <1>5, <1>6 DEF HInv

LEMMA StutterStep == ASSUME HInv, UNCHANGED vars PROVE HInv'
<1>1. UNCHANGED <<script, at, results, status, caller, running>>
  BY DEF vars, scriptVars
<1>2. caller' \in [Post -> {"idle", "waiting"} \cup Api!Outcome] /\ running' \subseteq Post
      /\ status' \in {"running", "reported", "aborted"}
  BY <1>1 DEF HInv, TypeOK
<1>3. \A q \in running' : caller'[q] \in {"waiting", "no reply"}
  BY <1>1 DEF HInv, RunningKnown
<1> QED
  BY <1>1, <1>2, <1>3, CallerMoves

LEMMA HarnessInvariant == Spec => []HInv
<1>1. Init => HInv
  BY InitHolds
<1>2. HInv /\ [Next]_vars => HInv'
  <2> SUFFICES ASSUME HInv, [Next]_vars PROVE HInv'
    OBVIOUS
  <2>1. ASSUME NEW l \in Lane, Step(l) PROVE HInv'
    BY <2>1, SendStep, TimeOutStep, RetryStep, ScoreStep, FailsStep DEF Step
  <2>2. CASE Report
    BY <2>2, ReportStep
  <2>3. CASE JudgeFails
    BY <2>3, JudgeStep
  <2>4. CASE Service
    BY <2>4, ServiceStep
  <2>5. CASE UNCHANGED vars
    BY <2>5, StutterStep
  <2> QED
    BY <2>1, <2>2, <2>3, <2>4, <2>5 DEF Next
<1> QED
  BY <1>1, <1>2, PTL DEF Spec

-----------------------------------------------------------------------------
(* The results. *)

\* For any scripts, lanes, requests and attempts: every variable keeps its type and
\* no request is sent more often than it may be.
THEOREM HarnessTypeCorrect == Spec => []TypeOK
BY HarnessInvariant, PTL DEF HInv

\* For any scripts: a lane waits for one POST at a time, and whatever else of it is
\* at work was given up.
THEOREM LanesAreSequential == Spec => []OneAtATime
<1>1. HInv => OneAtATime
  BY DEF HInv, TypeOK, WaitingIsCurrent, RunningKnown, OneAtATime
<1> QED
  BY <1>1, HarnessInvariant, PTL

\* For any scripts: a report has each of its requests once, as a success exactly if
\* it was answered, and that by a single POST.
THEOREM ReportsAreComplete == Spec => []ReportIsComplete
<1>1. HInv => ReportIsComplete
  <2> SUFFICES ASSUME HInv, status = "reported",
                      NEW l \in 1 .. script.lanes, NEW i \in 1 .. script.each
               PROVE  \E k \in DOMAIN results :
                        /\ Entries(l, i) = {k}
                        /\ \/ results[k][3] = "ok" /\ Cardinality(Answers(l, i)) = 1
                           \/ results[k][3] = "error" /\ Answers(l, i) = {} /\ ~script.aborts
    BY DEF ReportIsComplete
  <2>1. script \in Script
    BY DEF HInv, TypeOK
  <2>2. l \in Lane
    BY <2>1 DEF Lane
  <2>3. script.each \in Nat /\ i \in Nat \ {0} /\ i <= script.each
    BY <2>1, ScriptType
  <2>4. at[l].request \in Nat /\ at[l].request > script.each
    BY <2>2 DEF HInv, TypeOK, ReportedAtEnd
  <2>5. i < at[l].request
    BY <2>3, <2>4
  <2>6. CountedOnce(l, i)
    BY <2>2, <2>3, <2>5 DEF HInv, PastIsCounted
  <2>7. ASSUME NEW q \in Post, Answers(l, i) = {q} PROVE Cardinality(Answers(l, i)) = 1
    BY <2>7, FS_Singleton
  <2> QED
    BY <2>6, <2>7 DEF CountedOnce
<1> QED
  BY <1>1, HarnessInvariant, PTL
=============================================================================
