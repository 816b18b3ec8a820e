---------------------------- MODULE IngestContract ----------------------------
(***************************************************************************)
(* What the ingestion path promises its callers, with no queue, no pods    *)
(* and no retries: an accepted document is settled once, its evidence is   *)
(* published all at once and never twice, and a document that ends as      *)
(* indexed can be searched.  Ingestion implements this specification.      *)
(***************************************************************************)
CONSTANTS Document, Tenant, Hash, TenantOf, Extractions, EmptyBody, OutOfContract

VARIABLES
  answer,    \* what the caller was told
  fate,      \* what became of the document
  evidence   \* searchable <<tenant, hash>> pairs

vars == <<answer, fate, evidence>>

Answers == {"none", "accepted", "refused"}
Fates   == {"unknown", "pending", "indexed", "dead"}

EvidenceOf(d, hs) == {TenantOf[d]} \X hs

Init ==
  /\ answer = [d \in Document |-> "none"]
  /\ fate = [d \in Document |-> "unknown"]
  /\ evidence = {}

\* A 202 is a promise: from here on the document is pending.
Accept(d) ==
  /\ answer[d] = "none" /\ d \notin EmptyBody
  /\ answer' = [answer EXCEPT ![d] = "accepted"]
  /\ fate' = [fate EXCEPT ![d] = "pending"]
  /\ UNCHANGED evidence

\* An error answer promises nothing; the document may be processed all the same.
Refuse(d) ==
  /\ answer[d] = "none"
  /\ answer' = [answer EXCEPT ![d] = "refused"]
  /\ \/ UNCHANGED fate
     \/ d \notin EmptyBody /\ fate' = [fate EXCEPT ![d] = "pending"]
  /\ UNCHANGED evidence

\* One complete extraction becomes searchable in one step.
Publish(d) ==
  /\ fate[d] = "pending" /\ d \notin OutOfContract
  /\ \E hs \in Extractions[d] : evidence' = evidence \cup EvidenceOf(d, hs)
  /\ UNCHANGED <<answer, fate>>

Settle(d) ==
  /\ fate[d] = "pending"
  /\ \/ /\ \E hs \in Extractions[d] : EvidenceOf(d, hs) \subseteq evidence
        /\ d \notin OutOfContract
        /\ fate' = [fate EXCEPT ![d] = "indexed"]
     \/ fate' = [fate EXCEPT ![d] = "dead"]
  /\ UNCHANGED <<answer, evidence>>

Next == \E d \in Document : Accept(d) \/ Refuse(d) \/ Publish(d) \/ Settle(d)

Spec == Init /\ [][Next]_vars

\* A pending document is settled in the end.
FairSpec == Spec /\ \A d \in Document : WF_vars(Settle(d))
=============================================================================
