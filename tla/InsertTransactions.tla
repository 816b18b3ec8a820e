-------------------------- MODULE InsertTransactions --------------------------
(***************************************************************************)
(* _insert_chunks of several workers at once.  asyncpg's executemany sends *)
(* the rows of one document in one transaction; each row is an INSERT ...  *)
(* ON CONFLICT (tenant_id, content_hash) DO NOTHING that waits for a       *)
(* transaction which has inserted the same key and has not ended.  Two     *)
(* documents that share chunks in opposite order wait for each other, and  *)
(* Postgres aborts one.  A run that raised is retried by RQ.               *)
(***************************************************************************)
EXTENDS Naturals, Sequences, Functions

CONSTANTS
  Session,     \* the jobs, each with the connection of its run
  Key,         \* (tenant_id, content_hash)
  Rows,        \* the keys of a job's chunks, in chunk order
  MaxRetries

ASSUME RowsType == Rows \in [Session -> Seq(Key)]
ASSUME MaxRetriesNat == MaxRetries \in Nat

VARIABLES
  pc,        \* of each job: "idle", "open" (in a transaction), "done", "dead"
  pos,       \* how many of its rows executemany has sent
  pending,   \* the keys its open transaction has inserted
  tries,     \* runs that raised
  table      \* committed rows: <<key, session>>

vars == <<pc, pos, pending, tries, table>>

Committed == {r[1] : r \in table}
NextKey(s) == Rows[s][pos[s] + 1]
Sending(s) == pc[s] = "open" /\ pos[s] < Len(Rows[s])

\* s waits for the end of t's transaction.
WaitsFor(s, t) == s # t /\ Sending(s) /\ NextKey(s) \in pending[t]
Blocked(s) == \E t \in Session : WaitsFor(s, t)

Init ==
  /\ pc = [s \in Session |-> "idle"]
  /\ pos = [s \in Session |-> 0]
  /\ pending = [s \in Session |-> {}]
  /\ tries = [s \in Session |-> 0]
  /\ table = {}

Begin(s) ==
  /\ pc[s] = "idle"
  /\ pc' = [pc EXCEPT ![s] = "open"]
  /\ UNCHANGED <<pos, pending, tries, table>>

\* Mutant of InsertRow: a unique index that sees no open transaction.
InsertRowUnseen(s) ==
  /\ Sending(s)
  /\ pos' = [pos EXCEPT ![s] = @ + 1]
  /\ pending' = IF NextKey(s) \in Committed THEN pending
                ELSE [pending EXCEPT ![s] = @ \cup {NextKey(s)}]
  /\ UNCHANGED <<pc, tries, table>>

InsertRow(s) ==
  /\ Sending(s) /\ ~Blocked(s)
  /\ pos' = [pos EXCEPT ![s] = @ + 1]
  /\ pending' = IF NextKey(s) \in Committed THEN pending
                ELSE [pending EXCEPT ![s] = @ \cup {NextKey(s)}]
  /\ UNCHANGED <<pc, tries, table>>

Commit(s) ==
  /\ pc[s] = "open" /\ pos[s] = Len(Rows[s])
  /\ table' = table \cup (pending[s] \X {s})
  /\ pending' = [pending EXCEPT ![s] = {}]
  /\ pc' = [pc EXCEPT ![s] = "done"]
  /\ UNCHANGED <<pos, tries>>

\* Mutant of Rollback: the rows sent so far stay.
RollbackNothing(s) ==
  /\ table' = table \cup (pending[s] \X {s})
  /\ pending' = [pending EXCEPT ![s] = {}]
  /\ pos' = [pos EXCEPT ![s] = 0]
  /\ tries' = [tries EXCEPT ![s] = @ + 1]
  /\ pc' = [pc EXCEPT ![s] = IF tries[s] < MaxRetries THEN "idle" ELSE "dead"]

\* The transaction leaves nothing; RQ runs the job again while retries last.
Rollback(s) ==
  /\ pending' = [pending EXCEPT ![s] = {}]
  /\ pos' = [pos EXCEPT ![s] = 0]
  /\ tries' = [tries EXCEPT ![s] = @ + 1]
  /\ pc' = [pc EXCEPT ![s] = IF tries[s] < MaxRetries THEN "idle" ELSE "dead"]
  /\ UNCHANGED table

\* The connection, the pod or the job's time limit ends the transaction.
Interrupt(s) == pc[s] = "open" /\ Rollback(s)

\* Jobs that wait for each other in a circle: all of them wait for one of them.
Circle(S) == S # {} /\ \A s \in S : \E t \in S : WaitsFor(s, t)

\* Mutant of DeadlockVictim: nobody looks for circles.
DeadlockUnseen(s) == s \notin Session /\ Rollback(s)

\* deadlock_timeout: Postgres aborts one transaction of a circle.
DeadlockVictim(s) ==
  /\ \E S \in SUBSET Session : s \in S /\ Circle(S)
  /\ Rollback(s)

Step(s) == Begin(s) \/ InsertRow(s) \/ Commit(s) \/ DeadlockVictim(s)

Next == \E s \in Session : Step(s) \/ Interrupt(s)

Spec == Init /\ [][Next]_vars

\* Every statement that can go on does, and Postgres breaks every circle;
\* nothing need ever interrupt a transaction.
FairSpec == Spec /\ \A s \in Session : WF_vars(Step(s))

-----------------------------------------------------------------------------
\* Every variable keeps its type; a job is never given more runs than it has.
TypeOK ==
  /\ pc \in [Session -> {"idle", "open", "done", "dead"}]
  /\ pos \in [Session -> Nat] /\ \A s \in Session : pos[s] <= Len(Rows[s])
  /\ pending \in [Session -> SUBSET Key]
  /\ tries \in [Session -> 0 .. MaxRetries + 1]
  /\ table \subseteq Key \X Session

\* One writer per key: two transactions never have the same key in hand, and
\* none has a key that is committed already.
OneWriter ==
  /\ \A s, t \in Session : s # t => pending[s] \cap pending[t] = {}
  /\ \A s \in Session : pending[s] \cap Committed = {}
  /\ \A q, r \in table : q[1] = r[1] => q = r

\* Every row sent is accounted for: inserted by this transaction or committed
\* by another, which is why skipping it is safe.
SentIsHeld ==
  \A s \in Session :
    /\ pc[s] = "open" => \A i \in 1 .. pos[s] : Rows[s][i] \in pending[s] \cup Committed
    /\ pc[s] # "open" => pending[s] = {}
    /\ pending[s] \subseteq Range(Rows[s])
    /\ pc[s] = "idle" => pos[s] = 0

\* Only a job that is dead has spent the run that its last retry gave it.
TriesLeft ==
  \A s \in Session : pc[s] # "dead" => tries[s] <= MaxRetries

\* The inductive invariant of the transactions, from which the refinement follows.
IInv == TypeOK /\ OneWriter /\ SentIsHeld /\ TriesLeft

\* What the writers may think: see ChunkTable.
State ==
  [s \in Session |-> CASE pc[s] = "done" -> "inserted"
                       [] pc[s] = "dead" -> "given up"
                       [] OTHER -> "pending"]

Table == INSTANCE ChunkTable WITH
  Keys <- [s \in Session |-> Range(Rows[s])], rows <- table, state <- State

\* The transactions, with their waits, aborts and retries, implement the
\* one-step insert that Ingestion and the comments of schema.sql rely on.
ImplementsChunkTable == Table!Spec

\* No job waits for ever: however the documents share chunks, every circle of
\* waiting transactions is broken and its jobs are done or out of retries.
EveryJobEnds == \A s \in Session : <>(pc[s] \in {"done", "dead"})
=============================================================================
