----------------------- MODULE InsertTransactionsProofs -----------------------
(***************************************************************************)
(* IInv is an invariant of the concurrent inserts, and they implement the  *)
(* one-step insert of ChunkTable, for any number of jobs, any chunks they  *)
(* share and any order of them.                                            *)
(***************************************************************************)
EXTENDS InsertTransactions, TLAPS

\* A deadlock's victim is in the middle of its transaction.
LEMMA VictimIsOpen ==
  ASSUME NEW s \in Session, DeadlockVictim(s)
  PROVE  pc[s] = "open"
BY DEF DeadlockVictim, Circle, WaitsFor, Sending

LEMMA RowsKeys == ASSUME NEW s \in Session, NEW i \in 1 .. Len(Rows[s])
                  PROVE  Rows[s][i] \in Key
BY RowsType

LEMMA InitIInv == Init => IInv
BY RowsType, MaxRetriesNat DEF Init, IInv, TypeOK, OneWriter, SentIsHeld, TriesLeft, Committed

LEMMA BeginKeeps ==
  ASSUME IInv, NEW s \in Session, Begin(s)
  PROVE  IInv'
<1>1. TypeOK'
  BY DEF Begin, IInv, TypeOK
<1>2. OneWriter'
  BY DEF Begin, IInv, OneWriter, Committed
<1>3. SentIsHeld'
  BY DEF Begin, IInv, TypeOK, SentIsHeld, Committed
<1>4. TriesLeft'
  BY DEF Begin, IInv, TypeOK, TriesLeft
<1> QED BY <1>1, <1>2, <1>3, <1>4 DEF IInv

LEMMA InsertRowKeeps ==
  ASSUME IInv, NEW s \in Session, InsertRow(s)
  PROVE  IInv'
<1>1. /\ Sending(s) /\ ~Blocked(s)
      /\ Rows[s] \in Seq(Key) /\ pos[s] \in Nat /\ pos[s] < Len(Rows[s])
      /\ NextKey(s) \in Key
  <2>1. Sending(s) /\ ~Blocked(s)
    BY DEF InsertRow
  <2>2. Rows[s] \in Seq(Key) /\ pos[s] \in Nat
    BY RowsType DEF IInv, TypeOK
  <2>3. pos[s] < Len(Rows[s])
    BY <2>1 DEF Sending
  <2>4. pos[s] + 1 \in 1 .. Len(Rows[s])
    BY <2>2, <2>3
  <2> QED BY <2>1, <2>2, <2>3, <2>4, RowsKeys DEF NextKey
<1>2. \A t \in Session : t # s => NextKey(s) \notin pending[t]
  BY <1>1 DEF Blocked, WaitsFor
<1>3. TypeOK'
  BY <1>1, RowsType DEF InsertRow, IInv, TypeOK
<1>4. OneWriter'
  <2>1. Committed' = Committed
    BY DEF InsertRow, Committed
  <2>2. CASE NextKey(s) \in Committed
    BY <2>1, <2>2 DEF InsertRow, IInv, OneWriter
  <2>3. CASE NextKey(s) \notin Committed
    <3>1. pending' = [pending EXCEPT ![s] = @ \cup {NextKey(s)}] /\ table' = table
      BY <2>3 DEF InsertRow
    <3>2. \A t \in Session :
            pending'[t] = IF t = s THEN pending[s] \cup {NextKey(s)} ELSE pending[t]
      BY <3>1 DEF IInv, TypeOK
    <3> QED BY <1>2, <2>1, <2>3, <3>1, <3>2 DEF IInv, OneWriter
  <2> QED BY <2>2, <2>3
<1>5. SentIsHeld'
  <2>1. /\ Committed' = Committed /\ pc' = pc /\ pc[s] = "open"
        /\ pos'[s] = pos[s] + 1 /\ \A t \in Session : t # s => pos'[t] = pos[t]
    BY <1>1 DEF InsertRow, Committed, Sending, IInv, TypeOK
  <2>2. \A t \in Session : t # s => pending'[t] = pending[t]
    BY DEF InsertRow, IInv, TypeOK
  <2>3. pending[s] \subseteq pending'[s] /\ NextKey(s) \in pending'[s] \cup Committed
    BY DEF InsertRow, IInv, TypeOK
  <2>4. \A i \in 1 .. pos'[s] : Rows[s][i] \in pending'[s] \cup Committed'
    <3> TAKE i \in 1 .. pos'[s]
    <3>1. CASE i \in 1 .. pos[s]
      BY <2>1, <2>3, <3>1 DEF IInv, SentIsHeld
    <3>2. CASE i = pos[s] + 1
      BY <2>1, <2>3, <3>2 DEF NextKey
    <3> QED BY <1>1, <2>1, <3>1, <3>2
  <2>5. NextKey(s) \in Range(Rows[s])
    BY <1>1 DEF NextKey, Range
  <2>6. pending'[s] \subseteq Range(Rows[s])
    BY <2>5 DEF InsertRow, IInv, TypeOK, SentIsHeld
  <2> QED BY <2>1, <2>2, <2>4, <2>6 DEF IInv, SentIsHeld
<1>6. TriesLeft'
  BY DEF InsertRow, IInv, TriesLeft
<1> QED BY <1>3, <1>4, <1>5, <1>6 DEF IInv

LEMMA CommitKeeps ==
  ASSUME IInv, NEW s \in Session, Commit(s)
  PROVE  IInv'
<1>1. /\ pc[s] = "open" /\ pending[s] \subseteq Key
      /\ pc'[s] = "done" /\ pending'[s] = {} /\ pos' = pos
      /\ \A t \in Session : t # s => pc'[t] = pc[t] /\ pending'[t] = pending[t]
  BY DEF Commit, IInv, TypeOK
<1>2. table' = table \cup (pending[s] \X {s}) /\ Committed' = Committed \cup pending[s]
  <2>1. table' = table \cup (pending[s] \X {s})
    BY DEF Commit
  <2>2. ASSUME NEW k PROVE k \in Committed' <=> k \in Committed \cup pending[s]
    <3>1. k \in Committed' <=> \E r \in table \cup (pending[s] \X {s}) : k = r[1]
      BY <2>1 DEF Committed
    <3>2. k \in Committed <=> \E r \in table : k = r[1]
      BY DEF Committed
    <3>3. k \in pending[s] <=> \E r \in pending[s] \X {s} : k = r[1]
      <4>1. k \in pending[s] => <<k, s>> \in pending[s] \X {s} /\ k = <<k, s>>[1]
        OBVIOUS
      <4> QED BY <4>1
    <3> QED BY <3>1, <3>2, <3>3
  <2> QED BY <2>1, <2>2
<1>3. TypeOK'
  BY DEF Commit, IInv, TypeOK
<1>4. OneWriter'
  <2>1. \A q, r \in table' : q[1] = r[1] => q = r
    <3> SUFFICES ASSUME NEW q \in table', NEW r \in table', q[1] = r[1] PROVE q = r
      OBVIOUS
    <3>1. \A p \in table' : \/ p \in table /\ p[1] \in Committed
                            \/ p[1] \in pending[s] /\ p = <<p[1], s>>
      BY <1>2 DEF Committed
    <3>2. pending[s] \cap Committed = {}
      BY DEF IInv, OneWriter
    <3> QED BY <3>1, <3>2 DEF IInv, OneWriter
  <2>2. \A t \in Session : pending'[t] \cap Committed' = {}
    BY <1>1, <1>2 DEF IInv, OneWriter
  <2>3. \A t, u \in Session : t # u => pending'[t] \cap pending'[u] = {}
    BY <1>1 DEF IInv, OneWriter
  <2> QED BY <2>1, <2>2, <2>3 DEF OneWriter
<1>5. SentIsHeld'
  BY <1>1, <1>2 DEF IInv, SentIsHeld
<1>6. TriesLeft'
  BY <1>1 DEF Commit, IInv, TriesLeft
<1> QED BY <1>3, <1>4, <1>5, <1>6 DEF IInv

LEMMA RollbackKeeps ==
  ASSUME IInv, NEW s \in Session, pc[s] = "open", Rollback(s)
  PROVE  IInv'
<1>1. /\ pending'[s] = {} /\ pos'[s] = 0 /\ pc'[s] \in {"idle", "dead"} /\ table' = table
      /\ \A t \in Session : t # s => /\ pc'[t] = pc[t] /\ pending'[t] = pending[t]
                                     /\ pos'[t] = pos[t]
      /\ Committed' = Committed
  BY DEF Rollback, IInv, TypeOK, Committed
<1>2. TypeOK'
  <2>1. tries' \in [Session -> 0 .. MaxRetries + 1]
    BY MaxRetriesNat DEF Rollback, IInv, TypeOK, TriesLeft
  <2> QED BY <2>1, RowsType DEF Rollback, IInv, TypeOK
<1>3. OneWriter'
  BY <1>1 DEF IInv, OneWriter
<1>4. SentIsHeld'
  BY <1>1 DEF IInv, SentIsHeld
<1>5. TriesLeft'
  BY MaxRetriesNat DEF Rollback, IInv, TypeOK, TriesLeft
<1> QED BY <1>2, <1>3, <1>4, <1>5 DEF IInv

LEMMA StutterKeeps == ASSUME IInv, UNCHANGED vars PROVE IInv'
BY DEF IInv, vars, TypeOK, OneWriter, SentIsHeld, TriesLeft, Committed

\* IInv holds always: keys have one writer, and what a transaction skipped is
\* committed (the ON CONFLICT DO NOTHING of _insert_chunks).
THEOREM TransactionsInvariant == Spec => []IInv
<1>1. IInv /\ [Next]_vars => IInv'
  <2> SUFFICES ASSUME IInv, [Next]_vars PROVE IInv'
    OBVIOUS
  <2>1. CASE UNCHANGED vars
    BY <2>1, StutterKeeps
  <2>2. CASE Next
    <3>1. PICK s \in Session : Step(s) \/ Interrupt(s)
      BY <2>2 DEF Next
    <3>2. CASE Begin(s)
      BY <3>2, BeginKeeps
    <3>3. CASE InsertRow(s)
      BY <3>3, InsertRowKeeps
    <3>4. CASE Commit(s)
      BY <3>4, CommitKeeps
    <3>5. CASE DeadlockVictim(s)
      <4>1. Rollback(s)
        BY <3>5 DEF DeadlockVictim
      <4> QED BY <4>1, <3>5, VictimIsOpen, RollbackKeeps
    <3>6. CASE Interrupt(s)
      BY <3>6, RollbackKeeps DEF Interrupt
    <3> QED BY <3>1, <3>2, <3>3, <3>4, <3>5, <3>6 DEF Step
  <2> QED BY <2>1, <2>2
<1> QED BY InitIInv, <1>1, PTL DEF Spec

-----------------------------------------------------------------------------
(* The refinement. *)

LEMMA StateMoves ==
  ASSUME IInv, NEW s \in Session, NEW v \in {"idle", "open", "done", "dead"},
         pc' = [pc EXCEPT ![s] = v], pc[s] \in {"idle", "open"}
  PROVE  /\ State[s] = "pending"
         /\ State' = [State EXCEPT ![s] = CASE v = "done" -> "inserted"
                                            [] v = "dead" -> "given up"
                                            [] OTHER -> "pending"]
<1>1. pc \in [Session -> {"idle", "open", "done", "dead"}]
  BY DEF IInv, TypeOK
<1>2. \A t \in Session : pc'[t] = IF t = s THEN v ELSE pc[t]
  BY <1>1
<1> QED BY <1>1, <1>2 DEF State

LEMMA StateStays ==
  ASSUME IInv, NEW s \in Session, NEW v \in {"idle", "open"},
         pc' = [pc EXCEPT ![s] = v], pc[s] \in {"idle", "open"}
  PROVE  State' = State
<1>1. \A t \in Session : pc'[t] = IF t = s THEN v ELSE pc[t]
  BY DEF IInv, TypeOK
<1>2. \A t \in Session : (pc'[t] = "done" <=> pc[t] = "done") /\ (pc'[t] = "dead" <=> pc[t] = "dead")
  BY <1>1
<1> QED BY <1>2 DEF State

\* What Commit adds are the document's keys that were not there yet.
LEMMA CommitInserts ==
  ASSUME IInv, NEW s \in Session, Commit(s)
  PROVE  Table!Insert(s)
<1> DEFINE KeysOf(t) == Range(Rows[t])
<1>1. /\ pc[s] = "open" /\ pos[s] = Len(Rows[s])
      /\ table' = table \cup (pending[s] \X {s})
      /\ pc' = [pc EXCEPT ![s] = "done"]
  BY DEF Commit
<1>2. State[s] = "pending" /\ State' = [State EXCEPT ![s] = "inserted"]
  BY <1>1, StateMoves
<1>3. KeysOf(s) \subseteq pending[s] \cup Committed
  BY <1>1, RowsType DEF IInv, SentIsHeld, Range
<1>4. pending[s] \subseteq KeysOf(s)
  BY DEF IInv, SentIsHeld
<1>5. pending[s] = KeysOf(s) \ Committed
  BY <1>3, <1>4 DEF IInv, OneWriter
<1> QED BY <1>1, <1>2, <1>5 DEF Table!Insert, Table!Taken, Committed

LEMMA RollbackRefines ==
  ASSUME IInv, NEW s \in Session, pc[s] = "open", Rollback(s)
  PROVE  [Table!Next]_Table!vars
<1>1. table' = table
  BY DEF Rollback
<1>2. CASE tries[s] < MaxRetries
  <2>1. pc' = [pc EXCEPT ![s] = "idle"]
    BY <1>2 DEF Rollback
  <2>2. State' = State
    BY <2>1, StateStays
  <2> QED BY <1>1, <2>2 DEF Table!vars
<1>3. CASE ~(tries[s] < MaxRetries)
  <2>1. pc' = [pc EXCEPT ![s] = "dead"]
    BY <1>3 DEF Rollback
  <2>2. State[s] = "pending" /\ State' = [State EXCEPT ![s] = "given up"]
    BY <2>1, StateMoves
  <2> QED BY <1>1, <2>2 DEF Table!Next, Table!GiveUp
<1> QED BY <1>2, <1>3

\* The concurrent transactions implement the one-step insert of ChunkTable:
\* _insert_chunks is as atomic as Ingestion takes it to be.
THEOREM TransactionsImplementChunkTable == Spec => ImplementsChunkTable
<1>1. Init => Table!Init
  BY DEF Init, State, Table!Init
<1>2. IInv /\ [Next]_vars => [Table!Next]_Table!vars
  <2> SUFFICES ASSUME IInv, [Next]_vars PROVE [Table!Next]_Table!vars
    OBVIOUS
  <2>1. CASE UNCHANGED vars
    BY <2>1 DEF vars, State, Table!vars
  <2>2. CASE Next
    <3>1. PICK s \in Session : Step(s) \/ Interrupt(s)
      BY <2>2 DEF Next
    <3>2. CASE Begin(s)
      <4>1. pc' = [pc EXCEPT ![s] = "open"] /\ pc[s] = "idle" /\ table' = table
        BY <3>2 DEF Begin
      <4>2. State' = State
        BY <4>1, StateStays
      <4> QED BY <4>1, <4>2 DEF Table!vars
    <3>3. CASE InsertRow(s)
      BY <3>3 DEF InsertRow, State, Table!vars
    <3>4. CASE Commit(s)
      BY <3>4, CommitInserts DEF Table!Next
    <3>5. CASE DeadlockVictim(s)
      <4>1. Rollback(s)
        BY <3>5 DEF DeadlockVictim
      <4> QED BY <4>1, <3>5, VictimIsOpen, RollbackRefines
    <3>6. CASE Interrupt(s)
      BY <3>6, RollbackRefines DEF Interrupt
    <3> QED BY <3>1, <3>2, <3>3, <3>4, <3>5, <3>6 DEF Step
  <2> QED BY <2>1, <2>2
<1> QED BY <1>1, <1>2, TransactionsInvariant, PTL DEF Spec, ImplementsChunkTable, Table!Spec
=============================================================================
