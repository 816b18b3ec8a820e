------------------------------ MODULE ChunkTable ------------------------------
(***************************************************************************)
(* The chunks table as its writers may think of it: a document's rows are  *)
(* inserted in one step, those whose (tenant_id, content_hash) is taken    *)
(* are skipped.  It is the InsertChunks of Ingestion; InsertTransactions   *)
(* implements it with concurrent transactions.                             *)
(***************************************************************************)
CONSTANTS Session, Key, Keys

VARIABLES
  rows,    \* the table: <<key, session that wrote it>>
  state    \* "pending", "inserted" or "given up"

vars == <<rows, state>>

Taken(rs) == {r[1] : r \in rs}

Init == rows = {} /\ state = [s \in Session |-> "pending"]

Insert(s) ==
  /\ state[s] = "pending"
  /\ rows' = rows \cup ((Keys[s] \ Taken(rows)) \X {s})
  /\ state' = [state EXCEPT ![s] = "inserted"]

GiveUp(s) ==
  /\ state[s] = "pending"
  /\ state' = [state EXCEPT ![s] = "given up"]
  /\ UNCHANGED rows

Next == \E s \in Session : Insert(s) \/ GiveUp(s)

Spec == Init /\ [][Next]_vars
=============================================================================
